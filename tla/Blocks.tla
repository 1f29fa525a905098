------------------------------- MODULE Blocks -------------------------------
(***************************************************************************)
(* The contents of files: block allocation, the block map of an inode,     *)
(* read_inode() and write_inode() of kernel/filesys.c, and read_file() and *)
(* write_file() of kernel/file.c above them.                               *)
(*                                                                         *)
(* The disk is a record, and a function of the code an operator from one   *)
(* such record to the next. A chunk of a write, a read, and a truncation   *)
(* are one step each: the inode's lock is held throughout, and the buffer  *)
(* of the bitmap is locked while a bit is searched and set. A long write   *)
(* is several chunks, between which other processes run.                   *)
(*                                                                         *)
(* The bytes of a block are those in the buffer cache, which are the ones  *)
(* last handed to log_write() unless a write has failed in between: its    *)
(* bytes are in a buffer that is neither logged nor pinned, and are gone   *)
(* when the buffer is used for another block. The rest of what the log and *)
(* the cache do is in their own modules.                                   *)
(***************************************************************************)
EXTENDS Integers, Sequences, FiniteSets, SequencesExt, FiniteSetsExt

CONSTANTS
    Procs,
    Inodes,
    Handles, inode(_),   \* open files (struct file), shared by dup() and fork(), and their inodes
    NDIRECT, NINDIRECT,
    BUFFER_SIZE,         \* bytes of a block
    BYTE,                \* bits of a byte of the bitmap (8 in the code)
    FSSIZE,              \* blocks of the disk
    Image,               \* what makefs has put in the files: a sequence of blocks for each
    Used,                \* blocks makefs has marked
    MaxBytes,            \* bytes written between begin_op() and end_op()
    Counts,              \* lengths of reads and writes
    Turns,               \* bound: calls in a behaviour
    None

ASSUME BlocksAssumption ==
    /\ {NDIRECT, NINDIRECT, BUFFER_SIZE, BYTE, FSSIZE, MaxBytes} \subseteq Nat \ {0}
    /\ Used \in 1 .. FSSIZE
    /\ \A f \in Inodes : ToSet(Image[f]) \subseteq 1 .. Used - 1 /\ Len(Image[f]) <= NDIRECT

VARIABLES
    fs,          \* the disk
    offset,      \* of an open file
    writing,     \* the write a process is in the middle of
    last,        \* what the last read returned
    turn

vars == <<fs, offset, writing, last, turn>>

Blocknos == 0 .. FSSIZE - 1
ZeroBytes == [i \in 0 .. BUFFER_SIZE - 1 |-> 0]
NoBlocks == [i \in 0 .. NINDIRECT - 1 |-> 0]
MAXFILE == NDIRECT + NINDIRECT

\* The image: balloc() of makefs marks the first blocks.
Init ==
    /\ fs = [bitmap |-> 0 .. Used - 1,
             bytes |-> [b \in Blocknos |-> ZeroBytes],
             stored |-> [b \in Blocknos |-> ZeroBytes],
             ptrs |-> [b \in Blocknos |-> NoBlocks],
             addresses |-> [f \in Inodes |->
                 [i \in 0 .. NDIRECT |-> IF i < Len(Image[f]) THEN Image[f][i + 1] ELSE 0]],
             size |-> [f \in Inodes |-> Len(Image[f]) * BUFFER_SIZE],
             panic |-> "", ret |-> 0]
    /\ offset = [h \in Handles |-> 0]
    /\ writing = [p \in Procs |-> None]
    /\ last = <<>>
    /\ turn = Turns

Ok(s) == s.panic = ""
Panic(s, why) == IF Ok(s) THEN [s EXCEPT !.panic = why] ELSE s

(***************************************************************************)
(* Blocks.                                                                 *)
(***************************************************************************)

\* The bit that is tested for a block: the mask is computed from the outer
\* loop's index, so that it is always the first of its byte.
TestedBit(j) == (j \div BYTE) * BYTE

buffer_alloc(s) ==
    LET found == {j \in Blocknos : TestedBit(j) \notin s.bitmap}
        b == Min(found)
    IN  IF ~Ok(s) THEN s
        ELSE IF found = {} THEN Panic(s, "no blocks left")
        ELSE [s EXCEPT !.bitmap = @ \cup {TestedBit(b)}, !.ret = b,
                       !.bytes[b] = ZeroBytes, !.stored[b] = ZeroBytes, !.ptrs[b] = NoBlocks]

buffer_free(s, b) ==
    IF b \notin s.bitmap THEN Panic(s, "block alredy free") ELSE [s EXCEPT !.bitmap = @ \ {b}]

\* The block of a file, allocated if there is none.
buffer_map(s, f, n) ==
    LET direct == buffer_alloc(s)
        withtable == IF s.addresses[f][NDIRECT] # 0 THEN s
                     ELSE [direct EXCEPT !.addresses[f][NDIRECT] = direct.ret]
        table == withtable.addresses[f][NDIRECT]
        entry == withtable.ptrs[table][n - NDIRECT]
        indirect == buffer_alloc(withtable)
    IN  CASE ~Ok(s) -> s
          [] n < NDIRECT /\ s.addresses[f][n] # 0 -> [s EXCEPT !.ret = s.addresses[f][n]]
          [] n < NDIRECT -> IF ~Ok(direct) THEN direct
                            ELSE [direct EXCEPT !.addresses[f][n] = direct.ret]
          [] n >= MAXFILE -> Panic(s, "out of range")
          [] ~Ok(withtable) -> withtable
          [] entry # 0 -> [withtable EXCEPT !.ret = entry]
          [] OTHER -> IF ~Ok(indirect) THEN indirect
                      ELSE [indirect EXCEPT !.ptrs[table][n - NDIRECT] = indirect.ret]

\* The blocks inode_truncate() frees: all direct ones, as many of those in the
\* table, and the table.
DirectBlocks(s, f) == SelectSeq([i \in 1 .. NDIRECT |-> s.addresses[f][i - 1]], LAMBDA b : b # 0)
TableBlocks(s, f) ==
    LET count == IF NDIRECT < NINDIRECT THEN NDIRECT ELSE NINDIRECT
    IN  SelectSeq([i \in 1 .. count |-> s.ptrs[s.addresses[f][NDIRECT]][i - 1]], LAMBDA b : b # 0)

\* Faulty variant: the table itself is forgotten.
Listed_entries(s, f) ==
    IF s.addresses[f][NDIRECT] = 0 THEN DirectBlocks(s, f)
    ELSE DirectBlocks(s, f) \o TableBlocks(s, f)

Listed(s, f) ==
    IF s.addresses[f][NDIRECT] = 0 THEN DirectBlocks(s, f)
    ELSE DirectBlocks(s, f) \o TableBlocks(s, f) \o <<s.addresses[f][NDIRECT]>>

\* Faulty variant: the addresses are kept.
inode_truncate_kept(s, f) == [FoldLeft(buffer_free, s, Listed(s, f)) EXCEPT !.size[f] = 0]

inode_truncate(s, f) ==
    [FoldLeft(buffer_free, s, Listed(s, f)) EXCEPT
        !.addresses[f] = [i \in 0 .. NDIRECT |-> 0], !.size[f] = 0]

(***************************************************************************)
(* Bytes. A transfer goes block by block; copying from or to the process   *)
(* may fail at any of them.                                                *)
(***************************************************************************)

\* Faulty variant: every block is entered at the offset of the first.
Segments_shifted(off, n) ==
    LET count == (off + n - 1) \div BUFFER_SIZE - off \div BUFFER_SIZE + 1
    IN  [k \in 1 .. (IF n = 0 THEN 0 ELSE count) |->
            [n |-> off \div BUFFER_SIZE + k - 1,
             lo |-> off % BUFFER_SIZE,
             hi |-> IF k = count THEN (off + n - 1) % BUFFER_SIZE ELSE BUFFER_SIZE - 1]]

Segments(off, n) ==
    LET count == (off + n - 1) \div BUFFER_SIZE - off \div BUFFER_SIZE + 1
    IN  [k \in 1 .. (IF n = 0 THEN 0 ELSE count) |->
            [n |-> off \div BUFFER_SIZE + k - 1,
             lo |-> IF k = 1 THEN off % BUFFER_SIZE ELSE 0,
             hi |-> IF k = count THEN (off + n - 1) % BUFFER_SIZE ELSE BUFFER_SIZE - 1]]

\* The bytes from seg.lo to hi of a block, in its buffer; ret is the block.
copyin(s, f, seg, hi, v) ==
    LET t == buffer_map(s, f, seg.n)
    IN  IF ~Ok(t) THEN t
        ELSE [t EXCEPT !.bytes[t.ret] = [i \in 0 .. BUFFER_SIZE - 1 |->
                                            IF seg.lo <= i /\ i <= hi THEN v ELSE @[i]]]

\* The buffer of block ret is logged as it is, with all that was copied to it.
log_write(s) == IF ~Ok(s) THEN s ELSE [s EXCEPT !.stored[s.ret] = s.bytes[s.ret]]

\* Of the segments done are copied and logged; the next one fails after some
\* bytes, which stay in its buffer and are not logged.
write_inode(s, f, off, n, v, done, some) ==
    LET segs == Segments(off, n)
        t == FoldLeft(LAMBDA u, seg : log_write(copyin(u, f, seg, seg.hi, v)), s, SubSeq(segs, 1, done))
        u == IF done = Len(segs) THEN t
             ELSE copyin(t, f, segs[done + 1], segs[done + 1].lo + some - 1, v)
        i == IF done = Len(segs) THEN n
             ELSE IF done = 0 THEN 0 ELSE segs[done + 1].n * BUFFER_SIZE - off
    IN  IF off > s.size[f] \/ off + n > MAXFILE * BUFFER_SIZE THEN [s EXCEPT !.ret = -1]
        ELSE [u EXCEPT !.size[f] = IF off + i > @ THEN off + i ELSE @, !.ret = i]

Addr(s, f, n) == IF n < NDIRECT THEN s.addresses[f][n] ELSE s.ptrs[s.addresses[f][NDIRECT]][n - NDIRECT]
ByteIn(blocks, s, f, i) == blocks[Addr(s, f, i \div BUFFER_SIZE)][i % BUFFER_SIZE]
ByteAt(s, f, i) == ByteIn(s.bytes, s, f, i)

(***************************************************************************)
(* The calls.                                                              *)
(***************************************************************************)

Call(p) == Ok(fs) /\ writing[p] = None /\ turn > 0 /\ turn' = turn - 1

\* What a process writes is bytes p.
write_file(p, h, n) ==
    /\ Call(p)
    /\ writing' = [writing EXCEPT ![p] = [h |-> h, left |-> n]]
    /\ UNCHANGED <<fs, offset, last>>

\* One round of the loop in write_file().
write_chunk(p) ==
    LET w == writing[p]
        f == inode(w.h)
        n1 == IF w.left < MaxBytes THEN w.left ELSE MaxBytes
        off == offset[w.h]
        segs == Segments(off, n1)
    IN
    /\ Ok(fs) /\ w # None
    /\ \E done \in 0 .. Len(segs) :
        \E some \in 0 .. (IF done = Len(segs) THEN 0 ELSE segs[done + 1].hi - segs[done + 1].lo) :
            LET s == write_inode(fs, f, off, n1, p, done, some)
            IN  /\ fs' = s
                /\ offset' = IF Ok(s) /\ s.ret > 0 THEN [offset EXCEPT ![w.h] = @ + s.ret] ELSE offset
                /\ writing' = [writing EXCEPT ![p] =
                                  IF ~Ok(s) \/ s.ret # n1 \/ w.left = n1 THEN None
                                  ELSE [w EXCEPT !.left = @ - n1]]
    /\ UNCHANGED <<last, turn>>

\* The number of bytes is returned, and the offset moved, even if the copy
\* to the process has failed.
read_file(p, h, count) ==
    LET f == inode(h)
        off == offset[h]
        n == IF off + count > fs.size[f] THEN fs.size[f] - off ELSE count
    IN
    /\ Call(p)
    /\ IF off > fs.size[f]
         THEN UNCHANGED <<offset, last>>
         ELSE /\ offset' = [offset EXCEPT ![h] = @ + n]
              /\ last' \in {[i \in 1 .. n |-> ByteAt(fs, f, off + i - 1)], last}
    /\ UNCHANGED <<fs, writing>>

sys_open(p, h, trunc) ==
    /\ Call(p)
    /\ \A q \in Procs : writing[q] # None => writing[q].h # h
    /\ offset' = [offset EXCEPT ![h] = 0]
    /\ fs' = IF trunc THEN inode_truncate(fs, inode(h)) ELSE fs
    /\ UNCHANGED <<writing, last>>

\* buffer_get() of another block takes the buffer of b, which nobody has and
\* the log has not pinned; whoever reads b next gets what was logged. (A block
\* logged in the transaction under way, by another call or because it is new,
\* is pinned and keeps the bytes: then this step just does not happen. In a new
\* block they lie behind the end of the file.)
buffer_recycle(b) ==
    /\ Ok(fs) /\ fs.bytes[b] # fs.stored[b]
    /\ fs' = [fs EXCEPT !.bytes[b] = fs.stored[b]]
    /\ UNCHANGED <<offset, writing, last, turn>>

Finished == (~Ok(fs) \/ (turn = 0 /\ \A p \in Procs : writing[p] = None)) /\ UNCHANGED vars

Next ==
    \/ \E p \in Procs, h \in Handles :
        \/ \E n \in Counts : read_file(p, h, n) \/ write_file(p, h, n)
        \/ \E trunc \in BOOLEAN : sys_open(p, h, trunc)
    \/ \E p \in Procs : write_chunk(p)
    \/ \E b \in Blocknos : buffer_recycle(b)
    \/ Finished

Spec == Init /\ [][Next]_vars

(***************************************************************************)
(* Properties.                                                             *)
(***************************************************************************)

\* The blocks of a file: its direct ones, its table, and those in the table.
Parts(s, f) ==
    LET table == s.addresses[f][NDIRECT]
    IN  {<<i, s.addresses[f][i]>> : i \in 0 .. NDIRECT}
        \cup (IF table = 0 THEN {} ELSE {<<NDIRECT + 1 + i, s.ptrs[table][i]>> : i \in 0 .. NINDIRECT - 1})
Blocks(s, f) == {part[2] : part \in Parts(s, f)} \ {0}
InUse(s) == UNION {Blocks(s, f) : f \in Inodes}

Contents(blocks) == [f \in Inodes |-> [i \in 1 .. fs.size[f] |-> ByteIn(blocks, fs, f, i - 1)]]

Abstract == INSTANCE Files WITH
    content <- Contents(fs.bytes), stored <- Contents(fs.stored),
    Values <- Procs \cup {0}, down <- ~Ok(fs)

\* Files are what module Files promises: whatever blocks they get, wherever a
\* transfer begins and ends in them, whether it is cut short, and however the
\* chunks of writers that share an offset interleave, a write changes the
\* bytes at the offset of its own file and no others, and a read returns them.
\* Only the bytes behind what write_inode() returns, those of the block whose
\* copy failed, may disappear again.
ImplementsFiles == Abstract!FSpec

\* The kernel stops only when the bit of the first block of every byte of the
\* bitmap is set: buffer_alloc() uses one block in eight. It never frees a
\* block twice and never maps a block out of range.
StopsOnlyWhenFull ==
    fs.panic # "" => fs.panic = "no blocks left" /\ \A j \in Blocknos : TestedBit(j) \in fs.bitmap

\* A block stops being used without being free again only when a file is
\* emptied that had more blocks in its table than inode_truncate() looks at.
LosesOnlyIndirect ==
    [][Ok(fs') => \A b \in fs'.bitmap \ InUse(fs') :
          \/ b \notin InUse(fs)
          \/ \E f \in Inodes : \E x \in Parts(fs, f) : x[2] = b /\ x[1] > 2 * NDIRECT]_vars
=============================================================================
