------------------------------ MODULE FileSys ------------------------------
(***************************************************************************)
(* Names, inodes and open files: the inode table, directories and path     *)
(* walk of kernel/filesys.c, the file table of kernel/file.c and the calls *)
(* of kernel/sysfile.c that change them.                                   *)
(*                                                                         *)
(* A process in a call is a stack of frames.  A frame names the code that  *)
(* runs next and the inode pointers (entries of the table) that code       *)
(* holds; a function returns by handing its result to the frame below.     *)
(* A step is what happens between two points where another process can     *)
(* interfere: an inode's fields, and its directory blocks, belong to the   *)
(* holder of its sleeplock, and the table to the spinlock, so that taking  *)
(* a lock and the work under it are one step unless the process keeps the  *)
(* lock and goes on to wait for another.  What the disk holds is what the  *)
(* buffer cache returns (BufCache); begin_op and end_op are in Log.        *)
(***************************************************************************)
EXTENDS Naturals, Sequences, FiniteSets, SequencesExt

CONSTANTS
    Procs,
    NumInodes,   \* sb.num_inodes: inodes 1 .. NumInodes - 1 exist
    NUMINODE,    \* entries of the inode table
    NUMFILE,     \* entries of the file table
    NFILE,       \* descriptors of a process
    Calls,       \* the calls with a path that a process may make
    Turns,       \* bound: calls in a behaviour
    None

ASSUME FsAssumption ==
    /\ NumInodes \in Nat /\ NumInodes > 4
    /\ NUMINODE \in Nat /\ NUMINODE > 2
    /\ NUMFILE \in Nat \ {0}
    /\ NFILE \in Nat /\ Turns \in Nat /\ NFILE > 2 * Turns
    /\ None \notin Procs

Inums   == 1 .. NumInodes - 1
Entries == 1 .. NUMINODE
Files   == 1 .. NUMFILE
Fds     == 0 .. NFILE - 1
ROOTING == 1

VARIABLES
    dinode,      \* the inodes on disk: type, num_link and size
    slots,       \* the entries in a directory's blocks; inum 0 is an empty one
    inode,       \* the inode table; copy is the copy of the disk inode
    ilock,       \* holder of an entry's sleeplock
    file,        \* the file table
    openfile,    \* descriptors of a process: a file or None
    cwd,         \* current directory of a process, a table entry; None: no process
    stack,       \* frames of the call a process is in
    reg,         \* locals of a call: names of the path still to walk, the last
                 \* name from nameiparent(), the second path of sys_link(), and
                 \* how far inode_alloc() has scanned
    turn,        \* calls that may still be made
    panicked     \* the panic that stopped the kernel, or ""

vars == <<dinode, slots, inode, ilock, file, openfile, cwd, stack, reg, turn, panicked>>
disk == <<dinode, slots>>
files == <<file, openfile>>

Disk(type, nlink, size) == [type |-> type, nlink |-> nlink, size |-> size]
Free == Disk("free", 0, 0)
Slot(n, i) == [name |-> n, inum |-> i]
Entry(i, refs, copy) == [inum |-> i, ref |-> refs, valid |-> copy # Free, copy |-> copy]
NoFile == [ref |-> 0, type |-> "FD_NONE", inode |-> None]
NoPath == [abs |-> FALSE, names |-> <<>>]
NoReg == [path |-> <<>>, name |-> "", new |-> NoPath, scan |-> 0]

(***************************************************************************)
(* After the boot somebody made the directories /a and /a/d and the file   *)
(* /x.  The processes are children of one that has /x open, and all but    *)
(* one have changed to /a/d.                                               *)
(***************************************************************************)
Init ==
    /\ dinode = [i \in Inums |-> CASE i = 1 -> Disk("T_DIR", 2, 4)
                                   [] i = 2 -> Disk("T_DIR", 2, 3)
                                   [] i = 3 -> Disk("T_DIR", 1, 2)
                                   [] i = 4 -> Disk("T_FILE", 1, 0)
                                   [] OTHER -> Free]
    /\ slots = [i \in Inums |->
                  CASE i = 1 -> <<Slot(".", 1), Slot("..", 1), Slot("a", 2), Slot("x", 4)>>
                    [] i = 2 -> <<Slot(".", 2), Slot("..", 1), Slot("d", 3)>>
                    [] i = 3 -> <<Slot(".", 3), Slot("..", 2)>>
                    [] OTHER -> <<>>]
    /\ cwd \in {f \in [Procs -> {1, 2}] : Cardinality({p \in Procs : f[p] = 1}) = 1}
    /\ inode = [e \in Entries |->
                  CASE e = 1 -> Entry(1, 1, dinode[1])
                    [] e = 2 -> Entry(3, Cardinality(Procs) - 1, dinode[3])
                    [] e = 3 -> Entry(4, 1, dinode[4])
                    [] OTHER -> Entry(0, 0, Free)]
    /\ ilock = [e \in Entries |-> None]
    /\ file = [f \in Files |-> IF f = 1
                 THEN [ref |-> Cardinality(Procs), type |-> "FD_INODE", inode |-> 3]
                 ELSE NoFile]
    /\ openfile = [p \in Procs |-> [d \in Fds |-> IF d = 0 THEN 1 ELSE None]]
    /\ stack = [p \in Procs |-> <<>>]
    /\ reg = [p \in Procs |-> NoReg]
    /\ turn = Turns
    /\ panicked = ""

(***************************************************************************)
(* Frames.                                                                 *)
(***************************************************************************)

Frame(op, at) == [op |-> op, at |-> at]
Put(e) == Frame("put", <<e>>)

Op(p) == Head(stack[p]).op
Top(p) == Head(stack[p]).at
Rest(p) == Tail(stack[p])

\* Replace the running frame by others.
Continue(p, frames) == stack' = [stack EXCEPT ![p] = frames \o Rest(p)]

\* A result handed to the frame below, and a walk that found nothing: every
\* call fails then, sys_link() after it has taken back the link it counted.
Returned(frames, e) == [frames EXCEPT ![1].at = Append(@, e)]
Failed(frames) ==
    IF Head(frames).op = "link_new"
    THEN <<Frame("link_undo", Head(frames).at)>> \o Tail(frames)
    ELSE Tail(frames)

(***************************************************************************)
(* The inode table.                                                        *)
(***************************************************************************)

LowestOf(S) == CHOOSE x \in S : \A y \in S : x <= y
LiveEntries(i) == {e \in Entries : inode[e].ref > 0 /\ inode[e].inum = i}
EmptyEntries == {e \in Entries : inode[e].ref = 0}


\* inode_get() panics: the inode is not in the table and no entry is empty.
TableFull(i) == LiveEntries(i) = {} /\ EmptyEntries = {}

\* The entry inode_get() returns otherwise.
EntryOf(i) == LowestOf(IF LiveEntries(i) # {} THEN LiveEntries(i) ELSE EmptyEntries)

\* The table after inode_get().
inode_get(i) ==
    [inode EXCEPT ![EntryOf(i)] =
        IF @.ref > 0 THEN [@ EXCEPT !.ref = @ + 1] ELSE Entry(i, 1, Free)]

\* An entry as inode_lock() leaves it: read from the disk if need be.
Loaded(e) ==
    IF inode[e].valid THEN inode[e]
    ELSE [inode[e] EXCEPT !.valid = TRUE, !.copy = dinode[inode[e].inum]]

Type(e) == Loaded(e).copy.type

\* The sleeplock is free; what follows runs under it.
inode_lock(e) == ilock[e] = None
Lock(e, p) == ilock' = [ilock EXCEPT ![e] = p]
inode_unlock(e) == Lock(e, None)
Load(e) == inode' = [inode EXCEPT ![e] = Loaded(e)]

\* The directory e is read and the inode i it names gotten.
LoadAndGet(e, i) ==
    inode' = [inode_get(i) EXCEPT ![e].valid = TRUE, ![e].copy = Loaded(e).copy]

(***************************************************************************)
(* Directories.  The directory is locked, its size is the size in memory.  *)
(***************************************************************************)

\* Positions of the entries of a directory with that name.
Named(e, n) ==
    {k \in 1 .. Loaded(e).copy.size :
        slots[inode[e].inum][k].inum # 0 /\ slots[inode[e].inum][k].name = n}

\* The inode number dir_lookup() finds, 0 if none.
dir_lookup(e, n) ==
    IF Named(e, n) = {} THEN 0
    ELSE slots[inode[e].inum][LowestOf(Named(e, n))].inum

\* dir_link() on the entries of a directory: the first empty slot, or the end.
dir_link(s, n, i) ==
    LET empty == {k \in DOMAIN s : s[k].inum = 0}
    IN  IF empty = {} THEN Append(s, Slot(n, i))
        ELSE [s EXCEPT ![LowestOf(empty)] = Slot(n, i)]

isdirempty(e) ==
    \A k \in 3 .. Loaded(e).copy.size : slots[inode[e].inum][k].inum = 0

(***************************************************************************)
(* inode_put().  The last reference to an inode without links frees it:    *)
(* the entry is locked while the table still is, the disk inode is erased, *)
(* and only then the copy is given up and the reference dropped.           *)
(***************************************************************************)

\* The reference count is not looked at.
LastPut_any(e) == inode[e].valid /\ inode[e].copy.nlink = 0

LastPut(e) == inode[e].ref = 1 /\ inode[e].valid /\ inode[e].copy.nlink = 0

\* refcount--; nothing reads the rest of an entry without references.
Drop(e) ==
    inode' = [inode EXCEPT ![e] = IF @.ref = 1 THEN Entry(0, 0, Free) ELSE [@ EXCEPT !.ref = @ - 1]]

inode_put(p) ==
    /\ Op(p) = "put"
    /\ LET e == Top(p)[1] IN
        \/ /\ LastPut(e)
           /\ Lock(e, p)
           /\ Continue(p, <<Frame("put_free", <<e>>)>>)
           /\ UNCHANGED inode
        \/ /\ ~LastPut(e)
           /\ Drop(e)
           /\ Continue(p, <<>>)
           /\ UNCHANGED ilock
    /\ UNCHANGED <<disk, reg>>

\* inode_truncate(), type = 0 and inode_update().
put_free(p) ==
    /\ Op(p) = "put_free"
    /\ LET e == Top(p)[1] IN
        /\ dinode' = [dinode EXCEPT ![inode[e].inum] = Free]
        /\ slots' = [slots EXCEPT ![inode[e].inum] = <<>>]
        /\ inode' = [inode EXCEPT ![e].copy = Free]
        /\ Continue(p, <<Frame("put_valid", <<e>>)>>)
    /\ UNCHANGED <<ilock, reg>>

\* valid = 0 forgotten.
put_valid_kept(p) ==
    /\ Op(p) = "put_valid"
    /\ inode_unlock(Top(p)[1])
    /\ Continue(p, <<Frame("put_drop", Top(p))>>)
    /\ UNCHANGED <<disk, inode, reg>>

put_valid(p) ==
    /\ Op(p) = "put_valid"
    /\ inode' = [inode EXCEPT ![Top(p)[1]].valid = FALSE]
    /\ inode_unlock(Top(p)[1])
    /\ Continue(p, <<Frame("put_drop", Top(p))>>)
    /\ UNCHANGED <<disk, reg>>

put_drop(p) ==
    /\ Op(p) = "put_drop"
    /\ Drop(Top(p)[1])
    /\ Continue(p, <<>>)
    /\ UNCHANGED <<disk, ilock, reg>>

(***************************************************************************)
(* name_fetch(): one directory of the path per step.  A parent walk stops  *)
(* at the last directory with its name still to be looked up.              *)
(***************************************************************************)

\* The first inode of a walk, the table with it, and the frames of the walk.
FirstEntry(p, pn) == IF pn.abs THEN EntryOf(ROOTING) ELSE cwd[p]
FirstGotten(p, pn) ==
    IF pn.abs THEN inode_get(ROOTING) ELSE [inode EXCEPT ![cwd[p]].ref = @ + 1]
Walk(p, pn, parent, below) ==
    LET e == FirstEntry(p, pn)
    IN  IF pn.names # <<>>
        THEN <<Frame(IF parent THEN "walk_parent" ELSE "walk", <<e>>)>> \o below
        ELSE IF parent THEN <<Put(e)>> \o Failed(below) ELSE Returned(below, e)

name_fetch(p) ==
    /\ Op(p) \in {"walk", "walk_parent"}
    /\ LET e == Top(p)[1]
           n == Head(reg[p].path)
           last == Len(reg[p].path) = 1
           stop == last /\ Op(p) = "walk_parent"
           i == dir_lookup(e, n)
       IN
        /\ inode_lock(e)
        /\ \/ /\ Type(e) # "T_DIR" \/ (~stop /\ i = 0)
              /\ Load(e)
              /\ stack' = [stack EXCEPT ![p] = <<Put(e)>> \o Failed(Rest(p))]
              /\ reg' = [reg EXCEPT ![p].path = <<>>]
           \/ /\ Type(e) = "T_DIR" /\ stop
              /\ Load(e)
              /\ stack' = [stack EXCEPT ![p] = Returned(Rest(p), e)]
              /\ reg' = [reg EXCEPT ![p].path = <<>>, ![p].name = n]
           \/ /\ Type(e) = "T_DIR" /\ ~stop /\ i # 0
              /\ LoadAndGet(e, i)
              /\ stack' = [stack EXCEPT ![p] = <<Put(e)>> \o
                    IF last THEN Returned(Rest(p), EntryOf(i))
                    ELSE <<Frame(Op(p), <<EntryOf(i)>>)>> \o Rest(p)]
              /\ reg' = [reg EXCEPT ![p].path = Tail(@)]
    /\ UNCHANGED <<disk, ilock>>

(***************************************************************************)
(* create(), once nameiparent() has found the directory of the new name.   *)
(***************************************************************************)

\* T_NODEV is a T_DEVICE whose major number is not below NUMDEV.
Devices == {"T_DEVICE", "T_NODEV"}
CreateType == [creat |-> "T_FILE", mkdir |-> "T_DIR", mknod |-> "T_DEVICE", mknod_bad |-> "T_NODEV"]
CreateOps == DOMAIN CreateType
NewType == [creat_new |-> "T_FILE", mkdir_new |-> "T_DIR", dev_new |-> "T_DEVICE", nodev_new |-> "T_NODEV"]
NewOp(op) == CHOOSE new \in DOMAIN NewType : NewType[new] = CreateType[op]

\* The lookup in the directory, which stays locked if the name is new.
create(p) ==
    /\ Op(p) \in CreateOps
    /\ LET dp == Top(p)[1]
           i == dir_lookup(dp, reg[p].name)
       IN
        /\ inode_lock(dp)
        /\ \/ /\ i # 0
              /\ LoadAndGet(dp, i)
              /\ Continue(p, <<Put(dp), Frame(IF Op(p) = "creat" THEN "creat_old" ELSE "mk_old",
                                              <<EntryOf(i)>>)>>)
              /\ reg' = [reg EXCEPT ![p] = NoReg]
              /\ UNCHANGED ilock
           \/ /\ i = 0
              /\ Load(dp)
              /\ Lock(dp, p)
              /\ Continue(p, <<Frame("alloc", <<>>), Frame(NewOp(Op(p)), <<dp>>)>>)
              /\ reg' = [reg EXCEPT ![p].scan = 1]
    /\ UNCHANGED disk

\* inode_alloc(): one inode of the scan.
inode_alloc(p) ==
    /\ Op(p) = "alloc"
    /\ LET i == reg[p].scan IN
        \/ /\ dinode[i].type # "free"
           /\ reg' = [reg EXCEPT ![p].scan = i + 1]
           /\ UNCHANGED <<dinode, stack>>
        \/ /\ dinode[i].type = "free"
           /\ dinode' = [dinode EXCEPT ![i] = Disk(NewType[Head(Rest(p)).op], 0, 0)]
           /\ Continue(p, <<Frame("alloc_get", <<>>)>>)
           /\ UNCHANGED reg
    /\ UNCHANGED <<slots, inode, ilock>>

\* inode_alloc(): the entry of the inode it has marked.
alloc_get(p) ==
    /\ Op(p) = "alloc_get"
    /\ inode' = inode_get(reg[p].scan)
    /\ stack' = [stack EXCEPT ![p] = Returned(Rest(p), EntryOf(reg[p].scan))]
    /\ reg' = [reg EXCEPT ![p].scan = 0]
    /\ UNCHANGED <<disk, ilock>>

\* The new inode is locked and filled in under the lock of its directory.
create_new(p) ==
    /\ Op(p) \in DOMAIN NewType
    /\ LET dp == Top(p)[1]
           ip == Top(p)[2]
           d == inode[dp].inum
           i == inode[ip].inum
           isdir == Op(p) = "mkdir_new"
           dots == IF isdir THEN <<Slot(".", i), Slot("..", d)>> ELSE <<>>
           entries == dir_link(slots[d], reg[p].name, i)
           dcopy == [inode[dp].copy EXCEPT !.nlink = IF isdir THEN @ + 1 ELSE @,
                                           !.size = Len(entries)]
           icopy == [Loaded(ip).copy EXCEPT !.nlink = 1, !.size = Len(dots)]
       IN
        /\ inode_lock(ip)
        /\ inode' = [inode EXCEPT ![dp].copy = dcopy, ![ip].copy = icopy, ![ip].valid = TRUE]
        /\ dinode' = [dinode EXCEPT ![d] = dcopy, ![i] = icopy]
        /\ slots' = [slots EXCEPT ![d] = entries, ![i] = dots]
        /\ ilock' = [ilock EXCEPT ![dp] = None, ![ip] = p]
        /\ Continue(p, <<Put(dp), Frame(IF Op(p) = "creat_new" THEN "opened" ELSE "made", <<ip>>)>>)
    /\ reg' = [reg EXCEPT ![p] = NoReg]

\* The name exists: only open() may have it, if it is not a directory.
create_old(p) ==
    /\ Op(p) \in {"creat_old", "mk_old"}
    /\ LET ip == Top(p)[1]
           usable == Op(p) = "creat_old" /\ Type(ip) \in {"T_FILE"} \cup Devices
       IN
        /\ inode_lock(ip)
        /\ Load(ip)
        /\ \/ usable /\ Lock(ip, p) /\ Continue(p, <<Frame("opened", <<ip>>)>>)
           \/ ~usable /\ Continue(p, <<Put(ip)>>) /\ UNCHANGED ilock
    /\ UNCHANGED <<disk, reg>>

\* An inode still locked is unlocked and put: sys_mkdir() and sys_mknod()
\* after create(), and the directory where sys_unlink() fails.
unlock_put(p) ==
    /\ Op(p) \in {"made", "unlink_bad"}
    /\ inode_unlock(Top(p)[1])
    /\ Continue(p, <<Put(Top(p)[1])>>)
    /\ UNCHANGED <<disk, inode, reg>>

(***************************************************************************)
(* sys_chdir(), sys_unlink(), sys_link().                                  *)
(***************************************************************************)

\* A change of a locked inode's link count, written to the disk.
SetLinks(ip, n) ==
    /\ inode' = [inode EXCEPT ![ip] = [Loaded(ip) EXCEPT !.copy.nlink = n]]
    /\ dinode' = [dinode EXCEPT ![inode[ip].inum] = [Loaded(ip).copy EXCEPT !.nlink = n]]

\* The lookup; the directory stays locked while the inode's lock is awaited.
sys_unlink(p) ==
    /\ Op(p) = "unlink"
    /\ LET dp == Top(p)[1]
           i == dir_lookup(dp, reg[p].name)
           bad == reg[p].name \in {".", ".."} \/ i = 0
       IN
        /\ inode_lock(dp)
        /\ \/ /\ bad
              /\ Load(dp)
              /\ Continue(p, <<Put(dp)>>)
              /\ reg' = [reg EXCEPT ![p] = NoReg]
              /\ UNCHANGED ilock
           \/ /\ ~bad
              /\ LoadAndGet(dp, i)
              /\ Lock(dp, p)
              /\ Continue(p, <<Frame("unlink_entry", <<dp, EntryOf(i)>>)>>)
              /\ UNCHANGED reg
    /\ UNCHANGED disk

\* The entry is erased under both locks; the inode stays locked.
unlink_entry(p) ==
    /\ Op(p) = "unlink_entry"
    /\ LET dp == Top(p)[1]
           ip == Top(p)[2]
           d == inode[dp].inum
           isdir == Type(ip) = "T_DIR"
           dcopy == [inode[dp].copy EXCEPT !.nlink = IF isdir THEN @ - 1 ELSE @]
       IN
        /\ inode_lock(ip)
        /\ \/ /\ isdir /\ ~isdirempty(ip)
              /\ Load(ip)
              /\ Continue(p, <<Put(ip), Frame("unlink_bad", <<dp>>)>>)
              /\ UNCHANGED <<ilock, disk>>
           \/ /\ ~isdir \/ isdirempty(ip)
              /\ slots' = [slots EXCEPT ![d][LowestOf(Named(dp, reg[p].name))] = Slot("", 0)]
              /\ dinode' = [dinode EXCEPT ![d] = dcopy]
              /\ inode' = [inode EXCEPT ![dp].copy = dcopy, ![ip] = Loaded(ip)]
              /\ ilock' = [ilock EXCEPT ![dp] = None, ![ip] = p]
              /\ Continue(p, <<Put(dp), Frame("unlink_inode", <<ip>>)>>)
    /\ reg' = [reg EXCEPT ![p] = NoReg]

unlink_inode(p) ==
    /\ Op(p) = "unlink_inode"
    /\ SetLinks(Top(p)[1], inode[Top(p)[1]].copy.nlink - 1)
    /\ inode_unlock(Top(p)[1])
    /\ Continue(p, <<Put(Top(p)[1])>>)
    /\ UNCHANGED <<slots, reg>>

\* The link count does not go up.
sys_link_uncounted(p) ==
    /\ Op(p) = "link"
    /\ inode_lock(Top(p)[1])
    /\ Load(Top(p)[1])
    /\ Continue(p, IF Type(Top(p)[1]) = "T_DIR" THEN <<>>
                   ELSE <<Frame("link_walk", <<>>), Frame("link_new", Top(p))>>)
    /\ UNCHANGED <<disk, ilock, reg>>

\* A directory is refused, and the reference to it kept.
sys_link(p) ==
    /\ Op(p) = "link"
    /\ LET ip == Top(p)[1] IN
        /\ inode_lock(ip)
        /\ \/ /\ Type(ip) = "T_DIR"
              /\ Load(ip)
              /\ Continue(p, <<>>)
              /\ reg' = [reg EXCEPT ![p] = NoReg]
              /\ UNCHANGED dinode
           \/ /\ Type(ip) # "T_DIR"
              /\ SetLinks(ip, Loaded(ip).copy.nlink + 1)
              /\ Continue(p, <<Frame("link_walk", <<>>), Frame("link_new", <<ip>>)>>)
              /\ UNCHANGED reg
    /\ UNCHANGED <<slots, ilock>>

\* nameiparent() of the new name.
link_walk(p) ==
    /\ Op(p) = "link_walk"
    /\ inode' = FirstGotten(p, reg[p].new)
    /\ stack' = [stack EXCEPT ![p] = Walk(p, reg[p].new, TRUE, Rest(p))]
    /\ reg' = [reg EXCEPT ![p] = [NoReg EXCEPT !.path = reg[p].new.names]]
    /\ UNCHANGED <<disk, ilock>>

\* dir_link(), which accepts a name that is already there: it gets and puts
\* the inode of that name, and adds a second entry.
link_new(p) ==
    /\ Op(p) = "link_new"
    /\ LET ip == Top(p)[1]
           dp == Top(p)[2]
           d == inode[dp].inum
           entries == dir_link(slots[d], reg[p].name, inode[ip].inum)
           dcopy == [Loaded(dp).copy EXCEPT !.size = Len(entries)]
       IN
        /\ inode_lock(dp)
        /\ inode' = [inode EXCEPT ![dp].copy = dcopy, ![dp].valid = TRUE]
        /\ dinode' = [dinode EXCEPT ![d] = dcopy]
        /\ slots' = [slots EXCEPT ![d] = entries]
        /\ Continue(p, <<Put(dp), Put(ip)>>)
    /\ reg' = [reg EXCEPT ![p] = NoReg]
    /\ UNCHANGED ilock

\* The directory of the new name was not found: the count goes down again.
link_undo(p) ==
    /\ Op(p) = "link_undo"
    /\ inode_lock(Top(p)[1])
    /\ SetLinks(Top(p)[1], Loaded(Top(p)[1]).copy.nlink - 1)
    /\ Continue(p, <<Put(Top(p)[1])>>)
    /\ UNCHANGED <<slots, ilock, reg>>

\* The entry was locked by nobody else, and the process comes to stand there.
sys_chdir(p) ==
    /\ Op(p) = "chdir"
    /\ LET ip == Top(p)[1]
           isdir == Type(ip) = "T_DIR"
       IN
        /\ inode_lock(ip)
        /\ Load(ip)
        /\ cwd' = [cwd EXCEPT ![p] = IF isdir THEN ip ELSE @]
        /\ Continue(p, <<Put(IF isdir THEN cwd[p] ELSE ip)>>)
    /\ UNCHANGED <<disk, ilock, reg>>

(***************************************************************************)
(* Open files.                                                             *)
(***************************************************************************)

FreeFiles == {f \in Files : file[f].ref = 0}
FreeFds(p) == {d \in Fds : openfile[p][d] = None}

\* file_alloc() and fdalloc(): the file takes over the inode's reference.
OpenFile(p, ip) ==
    /\ FreeFiles # {} /\ Type(ip) # "T_NODEV"
    /\ LET f == LowestOf(FreeFiles) IN
        /\ file' = [file EXCEPT ![f] =
              [ref |-> 1, inode |-> ip,
               type |-> IF Type(ip) = "T_DEVICE" THEN "FD_DEVICE" ELSE "FD_INODE"]]
        /\ openfile' = [openfile EXCEPT ![p][LowestOf(FreeFds(p))] = f]
    /\ Continue(p, <<>>)

OpenFails(p, ip) ==
    /\ FreeFiles = {} \/ Type(ip) = "T_NODEV"
    /\ Continue(p, <<Put(ip)>>)
    /\ UNCHANGED files

\* sys_open() with an inode that create() has returned locked.
opened(p) ==
    /\ Op(p) = "opened"
    /\ OpenFile(p, Top(p)[1]) \/ OpenFails(p, Top(p)[1])
    /\ inode_unlock(Top(p)[1])
    /\ UNCHANGED <<disk, inode, reg>>

\* sys_open() without O_CREATE.
sys_open(p) ==
    /\ Op(p) \in {"open_rd", "open_wr"}
    /\ LET ip == Top(p)[1]
           refused == Type(ip) = "T_DIR" /\ Op(p) = "open_wr"
       IN
        /\ inode_lock(ip)
        /\ Load(ip)
        /\ \/ ~refused /\ OpenFile(p, ip)
           \/ ~refused /\ OpenFails(p, ip)
           \/ refused /\ Continue(p, <<Put(ip)>>) /\ UNCHANGED files
    /\ UNCHANGED <<disk, ilock, reg>>

\* file_close() on the file of a descriptor; the last close puts the inode, or
\* closes the end of a pipe (module Pipe).
file_close(p, d, below) ==
    LET f == openfile[p][d]
        last == file[f].ref = 1
    IN  /\ openfile' = [openfile EXCEPT ![p][d] = None]
        /\ file' = [file EXCEPT ![f] = IF last THEN NoFile ELSE [@ EXCEPT !.ref = @ - 1]]
        /\ stack' = [stack EXCEPT ![p] =
              (IF last /\ file[f].type # "FD_PIPE" THEN <<Put(file[f].inode)>> ELSE <<>>) \o below]

sys_close(p, d) == file_close(p, d, <<>>)

sys_dup(p, d) ==
    /\ openfile' = [openfile EXCEPT ![p][LowestOf(FreeFds(p))] = openfile[p][d]]
    /\ file' = [file EXCEPT ![openfile[p][d]].ref = @ + 1]
    /\ UNCHANGED stack

\* sys_fstat() up to the lock; the pointer is the file's own.
sys_fstat(p, d) ==
    /\ file[openfile[p][d]].type # "FD_PIPE"
    /\ stack' = [stack EXCEPT ![p] = <<Frame("stat", <<file[openfile[p][d]].inode>>)>>]
    /\ UNCHANGED files

file_stat(p) ==
    /\ Op(p) = "stat"
    /\ inode_lock(Top(p)[1])
    /\ Load(Top(p)[1])
    /\ Continue(p, <<>>)
    /\ UNCHANGED <<disk, ilock, reg>>

\* sys_pipe(): pipealloc() takes two files, one after the other.  Without the
\* second, or if the descriptors cannot be copied out, all is given back.
sys_pipe(p) ==
    /\ FreeFiles # {}
    /\ LET rf == LowestOf(FreeFiles) IN
        /\ file' = [file EXCEPT ![rf].ref = 1]
        /\ stack' = [stack EXCEPT ![p] = <<Frame("pipe", <<rf>>)>>]
    /\ UNCHANGED <<inode, openfile, cwd, reg>>

pipealloc(p) ==
    LET rf == Top(p)[1]
        wf == LowestOf(FreeFiles)
        fd0 == LowestOf(FreeFds(p))
        fd1 == LowestOf(FreeFds(p) \ {fd0})
        end == [NoFile EXCEPT !.ref = 1, !.type = "FD_PIPE"]
    IN
    /\ Op(p) = "pipe"
    /\ Continue(p, <<>>)
    /\ \/ /\ FreeFiles # {}
          /\ file' = [file EXCEPT ![rf] = end, ![wf] = end]
          /\ openfile' = [openfile EXCEPT ![p][fd0] = rf, ![p][fd1] = wf]
       \/ file' = [file EXCEPT ![rf] = NoFile] /\ UNCHANGED openfile
    /\ UNCHANGED <<disk, inode, ilock, reg>>

\* fork() holds the child's lock: files and current directory are copied and
\* counted at once.
fork(p, q) ==
    /\ cwd[q] = None /\ stack[q] = <<>>
    /\ openfile' = [openfile EXCEPT ![q] = openfile[p]]
    /\ file' = [f \in Files |->
          [file[f] EXCEPT !.ref = @ + Cardinality({d \in Fds : openfile[p][d] = f})]]
    /\ cwd' = [cwd EXCEPT ![q] = cwd[p]]
    /\ inode' = [inode EXCEPT ![cwd[p]].ref = @ + 1]
    /\ UNCHANGED <<reg, stack>>

sys_exit(p) ==
    /\ stack' = [stack EXCEPT ![p] = <<Frame("exit", <<>>)>>]
    /\ UNCHANGED <<inode, files, cwd, reg>>

\* exit() closes one descriptor after the other and puts its directory last.
exit(p) ==
    /\ Op(p) = "exit"
    /\ LET open == {d \in Fds : openfile[p][d] # None} IN
        \/ open # {} /\ file_close(p, LowestOf(open), stack[p]) /\ UNCHANGED cwd
        \/ /\ open = {}
           /\ cwd' = [cwd EXCEPT ![p] = None]
           /\ Continue(p, <<Put(cwd[p])>>)
           /\ UNCHANGED files
    /\ UNCHANGED <<disk, inode, ilock, reg>>

(***************************************************************************)
(* Panics.                                                                 *)
(***************************************************************************)

DirOps == CreateOps \cup {"unlink", "link_new"}
LockOps == DirOps \cup DOMAIN NewType \cup
    {"walk", "walk_parent", "creat_old", "mk_old", "unlink_entry", "link", "link_undo",
     "chdir", "open_rd", "open_wr", "stat"}

\* The inode a step of a process passes to inode_get(), or 0.
Wanted(p) ==
    LET e == Last(Top(p)) IN
    CASE Op(p) = "alloc_get" -> reg[p].scan
      [] Op(p) = "link_walk" -> IF reg[p].new.abs THEN ROOTING ELSE 0
      [] Op(p) \in {"walk", "walk_parent"} ->
           IF ~inode_lock(e) \/ Type(e) # "T_DIR" \/ (Op(p) = "walk_parent" /\ Len(reg[p].path) = 1)
           THEN 0 ELSE dir_lookup(e, Head(reg[p].path))
      [] Op(p) \in DirOps ->
           IF ~inode_lock(e) \/ (Op(p) = "unlink" /\ reg[p].name \in {".", ".."})
           THEN 0 ELSE dir_lookup(e, reg[p].name)
      [] OTHER -> 0

\* The panic a process runs into now, or "".  The entry a frame is about to
\* lock is the last of its pointers; a put that frees an inode must not sleep
\* for its lock, because it holds the lock of the table.
Fatal(p) ==
    LET e == Last(Top(p))
        now == inode_lock(e)
        got == Wanted(p)
    IN  CASE Op(p) = "put" /\ LastPut(e) /\ ~now -> "sched locks"
          [] Op(p) = "alloc" /\ reg[p].scan = NumInodes -> "no inodes found"
          [] Op(p) \in LockOps /\ inode[e].ref < 1 -> "refcount < 1, inode_lock"
          [] Op(p) \in LockOps /\ now /\ Type(e) = "free" -> "no type in inode_lock"
          [] Op(p) \in DirOps /\ now /\ Type(e) # "T_DIR" -> "dir lookup, not dir"
          [] Op(p) = "unlink_entry" /\ now /\ Loaded(e).copy.nlink < 1 -> "unlink: num_link < 1"
          [] got # 0 /\ TableFull(got) -> "no inodes inode_get()"
          [] OTHER -> ""

panic(p) ==
    /\ panicked = "" /\ stack[p] # <<>> /\ Fatal(p) # ""
    /\ panicked' = Fatal(p)
    /\ UNCHANGED <<disk, inode, ilock, files, cwd, stack, reg, turn>>

(***************************************************************************)
(* A process between calls starts one; in a call it takes the next step.   *)
(***************************************************************************)

PathCall(p, c) ==
    /\ ~(c.path.abs /\ TableFull(ROOTING))
    /\ inode' = FirstGotten(p, c.path)
    /\ reg' = [reg EXCEPT ![p] = [NoReg EXCEPT !.path = c.path.names, !.new = c.new]]
    /\ stack' = [stack EXCEPT ![p] =
          Walk(p, c.path, c.op \in CreateOps \cup {"unlink"}, <<Frame(c.op, <<>>)>>)]
    /\ UNCHANGED <<files, cwd, panicked>>

\* There is no entry for the root directory, where the walk begins.
PathPanic(c) ==
    /\ c.path.abs /\ TableFull(ROOTING)
    /\ panicked' = "no inodes inode_get()"
    /\ UNCHANGED <<inode, files, cwd, stack, reg>>

FileCall(p, d) ==
    /\ openfile[p][d] # None
    /\ sys_close(p, d) \/ sys_dup(p, d) \/ sys_fstat(p, d)
    /\ UNCHANGED <<inode, cwd, reg, panicked>>

Enter(p) ==
    /\ panicked = "" /\ stack[p] = <<>> /\ cwd[p] # None /\ turn > 0
    /\ turn' = turn - 1
    /\ \/ \E c \in Calls : PathCall(p, c) \/ PathPanic(c)
       \/ \E d \in Fds : FileCall(p, d)
       \/ \E q \in Procs : fork(p, q) /\ UNCHANGED panicked
       \/ (sys_pipe(p) \/ sys_exit(p)) /\ UNCHANGED panicked
    /\ UNCHANGED <<disk, ilock>>

InodeStep(p) ==
    \/ inode_put(p) \/ put_free(p) \/ put_valid(p) \/ put_drop(p)
    \/ name_fetch(p)
    \/ create(p) \/ inode_alloc(p) \/ alloc_get(p) \/ create_new(p) \/ create_old(p)
    \/ unlock_put(p)
    \/ sys_unlink(p) \/ unlink_entry(p) \/ unlink_inode(p)
    \/ sys_link(p) \/ link_walk(p) \/ link_new(p) \/ link_undo(p)
    \/ file_stat(p)

Step(p) ==
    /\ panicked = "" /\ stack[p] # <<>> /\ Fatal(p) = ""
    /\ \/ InodeStep(p) /\ UNCHANGED <<files, cwd>>
       \/ (opened(p) \/ sys_open(p) \/ pipealloc(p)) /\ UNCHANGED cwd
       \/ sys_chdir(p) /\ UNCHANGED files
       \/ exit(p)
    /\ UNCHANGED <<turn, panicked>>

\* All calls have returned, or the kernel has stopped.
Finished ==
    /\ panicked # "" \/ (\A p \in Procs : stack[p] = <<>> /\ (turn = 0 \/ cwd[p] = None))
    /\ UNCHANGED vars

Next ==
    \/ \E p \in Procs : Enter(p) \/ Step(p) \/ panic(p)
    \/ Finished

Spec == Init /\ [][Next]_vars

(***************************************************************************)
(* Properties.                                                             *)
(***************************************************************************)

\* Every variable has its type.
TypeOK ==
    /\ \A i \in Inums : dinode[i].nlink \in Nat /\ dinode[i].size = Len(slots[i])
    /\ \A e \in Entries : inode[e].ref \in Nat /\ inode[e].inum \in Inums \cup {0}
    /\ ilock \in [Entries -> Procs \cup {None}]
    /\ \A f \in Files : file[f].ref \in Nat /\ file[f].inode \in Entries \cup {None}
    /\ openfile \in [Procs -> [Fds -> Files \cup {None}]]
    /\ cwd \in [Procs -> Entries \cup {None}]
    /\ turn \in 0 .. Turns

\* The pointers to an entry: of calls (frame and place in it), files and cwd.
Pointers(e) ==
    {r \in Procs \X (1 .. 3) \X (1 .. 2) :
        r[2] <= Len(stack[r[1]]) /\ r[3] <= Len(stack[r[1]][r[2]].at)
          /\ stack[r[1]][r[2]].op \notin {"stat", "pipe"} /\ stack[r[1]][r[2]].at[r[3]] = e}
Holders(e) ==
    Cardinality(Pointers(e)) + Cardinality({f \in Files : file[f].ref > 0 /\ file[f].inode = e})
      + Cardinality({p \in Procs : cwd[p] = e})


\* Whoever locks an inode next finds in the table what the disk holds: the
\* valid copy of an unlocked entry equals the disk inode, even when another
\* process allocates the inode while inode_put() is still freeing it.
CopiesCoherent ==
    \A e \in Entries : inode[e].ref > 0 /\ inode[e].valid /\ ilock[e] = None =>
        inode[e].copy = dinode[inode[e].inum]

\* The names of an inode: the entries for it, the dots left out.
NamesOf(i) ==
    {r \in Inums \X (1 .. 6) :
        r[2] <= Len(slots[r[1]]) /\ slots[r[1]][r[2]].inum = i
          /\ slots[r[1]][r[2]].name \notin {".", ".."}}

\* Names and inodes agree, whatever calls of create(), sys_link() and
\* sys_unlink() overlap: num_link never falls below the number of names, and
\* what an entry names is allocated.  The one exception is the ".." of a
\* directory that no entry names, because it was removed or made in a removed
\* one: its parent may be freed before it.
LinksCover ==
    /\ \A i \in Inums : dinode[i].nlink >= Cardinality(NamesOf(i))
    /\ \A i \in Inums : dinode[i].type = "T_DIR" =>
           \A k \in DOMAIN slots[i] :
               slots[i][k].inum # 0 /\ dinode[slots[i][k].inum].type = "free"
                 => slots[i][k].name = ".." /\ NamesOf(i) = {}

\* The only panics are those of inode_alloc() when the disk has no inode left,
\* of inode_get() when the table has no entry left, and of inode_lock() on ".."
\* of a directory removed together with its parent: no call sleeps for an
\* inode's lock with the table locked, uses an entry it has given up, or looks
\* up a name in a non-directory.
OnlyKnownPanics ==
    panicked \in {"", "no inodes found", "no inodes inode_get()", "no type in inode_lock"}
=============================================================================
