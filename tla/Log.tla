-------------------------------- MODULE Log --------------------------------
(***************************************************************************)
(* The write-ahead log of kernel/filesys.c: system calls bracket their     *)
(* block writes with begin_op() and end_op(); the last one to end commits  *)
(* all of them: blocks to the log area, header, blocks home, empty header. *)
(*                                                                         *)
(* Block numbers are relative to log.start: 0 is the header block,         *)
(* 1 .. NumLog - 1 the rest of the log area, and the blocks after it are   *)
(* the home blocks. A step is one region under log.lock or one block       *)
(* written to the disk; a crash may come between any two of them.          *)
(*                                                                         *)
(* The buffer cache is seen from above: buffer_read() of a block gives its *)
(* one cached copy (module BufCache), so cache is a total function, equal  *)
(* to the disk after a boot. One disk write is atomic.                     *)
(***************************************************************************)
EXTENDS Integers, Sequences, FiniteSets

CONSTANTS
    Procs,      \* processes that make file system calls
    LOGSIZE,    \* entries of the log header
    MAXLOGOPS,  \* blocks reserved for a call
    OpBlocks,   \* different blocks a call logs at most: 7 where MAXLOGOPS is 10
    NumLog,     \* sb.num_log: blocks of the log area, header included
    FsSize,     \* sb.size, relative to log.start
    Values      \* contents of a block

ASSUME LogAssumption ==
    /\ IsFiniteSet(Procs)
    /\ LOGSIZE \in Nat
    /\ MAXLOGOPS \in Nat
    /\ OpBlocks \in Nat
    /\ OpBlocks < MAXLOGOPS
    /\ MAXLOGOPS <= LOGSIZE
    /\ NumLog \in Nat
    /\ LOGSIZE <= NumLog
    /\ FsSize \in Nat
    /\ NumLog < FsSize
    /\ Values # {}

log_start == 2      \* after the boot block and the superblock
Addrs == 1 .. FsSize - 1
Blocks == NumLog .. FsSize - 1      \* what the layers above write

VARIABLES
    pc,             \* per process: idle, begin, asleep, op or commit
    wrote,          \* per process: blocks its call has logged so far
    num_syscalls,   \* log.num_syscalls
    commit,         \* log.commit
    loghead,        \* log.loghead.block[0 .. count - 1]
    phase,          \* where the one process in commit() is
    idx,            \* and its loop index
    cache,          \* block contents as the buffer cache shows them
    disk,           \* block contents on the disk
    hdr,            \* the header block on the disk
    up,             \* booted, init_log() done
    panicked        \* panic() under log.lock: the hart is stuck

vars == <<pc, wrote, num_syscalls, commit, loghead, phase, idx, cache, disk,
          hdr, up, panicked>>

Procstate == {"idle", "begin", "asleep", "op", "commit"}
Phases == {"none", "wlog", "install", "done"}

Booted ==
    /\ pc = [p \in Procs |-> "idle"]
    /\ wrote = [p \in Procs |-> {}]
    /\ num_syscalls = 0
    /\ commit = FALSE
    /\ loghead = <<>>
    /\ phase = "none"
    /\ idx = 0

Init ==
    /\ Booted
    /\ \E v \in Values : disk = [a \in Addrs |-> v]
    /\ cache = disk
    /\ hdr = <<>>
    /\ up = TRUE
    /\ panicked = FALSE

-----------------------------------------------------------------------------
Running == up /\ ~panicked

\* wakeup(&log): every other process asleep there will test again.
wakeup(st) == [q \in Procs |-> IF st[q] = "asleep" THEN "begin" ELSE st[q]]

\* The blocks of h, as a set.
Logged(h) == {h[i] : i \in 1 .. Len(h)}

\* Faulty variant: the call that begins is not counted.
Room_begun == Len(loghead) + num_syscalls * MAXLOGOPS <= LOGSIZE

\* Room for one more call that logs as much as a call may.
Room == Len(loghead) + (num_syscalls + 1) * MAXLOGOPS <= LOGSIZE

\* Faulty variant: a call may start while the log is committing.
begin_op_ignores_commit(p) ==
    /\ Running
    /\ pc[p] \in {"idle", "begin"}
    /\ Room
    /\ num_syscalls' = num_syscalls + 1
    /\ pc' = [pc EXCEPT ![p] = "op"]
    /\ UNCHANGED <<wrote, commit, loghead, phase, idx, cache, disk, hdr, up,
                   panicked>>

begin_op(p) ==
    /\ Running
    /\ pc[p] \in {"idle", "begin"}
    /\ ~commit
    /\ Room
    /\ num_syscalls' = num_syscalls + 1
    /\ pc' = [pc EXCEPT ![p] = "op"]
    /\ UNCHANGED <<wrote, commit, loghead, phase, idx, cache, disk, hdr, up,
                   panicked>>

begin_op_sleep(p) ==
    /\ Running
    /\ pc[p] \in {"idle", "begin"}
    /\ commit \/ ~Room
    /\ pc' = [pc EXCEPT ![p] = "asleep"]
    /\ UNCHANGED <<wrote, num_syscalls, commit, loghead, phase, idx, cache, disk,
                   hdr, up, panicked>>

\* log_write() panics; log.size is the size of the disk.
Refused ==
    \/ Len(loghead) >= LOGSIZE
    \/ Len(loghead) >= log_start + FsSize - 1
    \/ num_syscalls < 1

\* Faulty variants: the search takes the first entry for the block, or looks
\* at the last entry only.
Absorbed_any(b) == loghead # <<>>

\* The search of log_write(): the block is in the header already.
Absorbed(b) == b \in Logged(loghead)

\* A call changes a block it holds and hands it to log_write(). The longest
\* call is a write of 3 blocks' worth by write_file(): 4 data blocks, the
\* indirect block, the bitmap and the inode.
log_write(p, b, v) ==
    /\ Running
    /\ pc[p] = "op"
    /\ Cardinality(wrote[p] \cup {b}) <= OpBlocks
    /\ cache' = [cache EXCEPT ![b] = v]
    /\ panicked' = Refused
    /\ loghead' = IF Refused \/ Absorbed(b) THEN loghead ELSE Append(loghead, b)
    /\ wrote' = [wrote EXCEPT ![p] = @ \cup {b}]
    /\ UNCHANGED <<pc, num_syscalls, commit, phase, idx, disk, hdr, up>>

-----------------------------------------------------------------------------

\* end_op() of a call that is not the last one.
end_op(p) ==
    /\ Running
    /\ pc[p] = "op"
    /\ num_syscalls # 1
    /\ num_syscalls' = num_syscalls - 1
    /\ panicked' = commit
    /\ pc' = [wakeup(pc) EXCEPT ![p] = "idle"]
    /\ wrote' = [wrote EXCEPT ![p] = {}]
    /\ UNCHANGED <<commit, loghead, phase, idx, cache, disk, hdr, up>>

\* end_op() of the last call: it enters commit().
end_op_commit(p) ==
    /\ Running
    /\ pc[p] = "op"
    /\ num_syscalls = 1
    /\ num_syscalls' = 0
    /\ panicked' = commit
    /\ commit' = TRUE
    /\ pc' = [pc EXCEPT ![p] = "commit"]
    /\ phase' = IF loghead = <<>> THEN "done" ELSE "wlog"
    /\ idx' = 0
    /\ wrote' = [wrote EXCEPT ![p] = {}]
    /\ UNCHANGED <<loghead, cache, disk, hdr, up>>

\* write_log(): one block from the cache to the log area. The block number is
\* log.start + idx + 1, inside the area or not.
write_log ==
    /\ Running
    /\ phase = "wlog"
    /\ idx < Len(loghead)
    /\ cache' = [cache EXCEPT ![idx + 1] = cache[loghead[idx + 1]]]
    /\ disk' = [disk EXCEPT ![idx + 1] = cache[loghead[idx + 1]]]
    /\ idx' = idx + 1
    /\ UNCHANGED <<pc, wrote, num_syscalls, commit, loghead, phase, hdr, up,
                   panicked>>

\* Faulty variant: the blocks are not copied home before the log is emptied.
write_header_only ==
    /\ Running
    /\ phase = "wlog"
    /\ idx = Len(loghead)
    /\ hdr' = loghead
    /\ phase' = "install"
    /\ UNCHANGED <<pc, wrote, num_syscalls, commit, loghead, idx, cache, disk, up,
                   panicked>>

\* write_header(): the transaction is on the disk from here on.
write_header ==
    /\ Running
    /\ phase = "wlog"
    /\ idx = Len(loghead)
    /\ hdr' = loghead
    /\ phase' = "install"
    /\ idx' = 0
    /\ UNCHANGED <<pc, wrote, num_syscalls, commit, loghead, cache, disk, up,
                   panicked>>

\* cpy_log_to_home(0): one block from the log area to its home.
cpy_log_to_home ==
    /\ Running
    /\ phase = "install"
    /\ idx < Len(loghead)
    /\ cache' = [cache EXCEPT ![loghead[idx + 1]] = cache[idx + 1]]
    /\ disk' = [disk EXCEPT ![loghead[idx + 1]] = cache[idx + 1]]
    /\ idx' = idx + 1
    /\ UNCHANGED <<pc, wrote, num_syscalls, commit, loghead, phase, hdr, up,
                   panicked>>

\* commit(): count = 0 and write_header() again.
erase_header ==
    /\ Running
    /\ phase = "install"
    /\ idx = Len(loghead)
    /\ loghead' = <<>>
    /\ hdr' = <<>>
    /\ phase' = "done"
    /\ idx' = 0
    /\ UNCHANGED <<pc, wrote, num_syscalls, commit, cache, disk, up, panicked>>

\* Faulty variant: the processes that wait for the commit are not woken.
end_commit_silent(p) ==
    /\ Running
    /\ pc[p] = "commit"
    /\ phase = "done"
    /\ phase' = "none"
    /\ commit' = FALSE
    /\ pc' = [pc EXCEPT ![p] = "idle"]
    /\ UNCHANGED <<wrote, num_syscalls, loghead, idx, cache, disk, hdr, up, panicked>>

\* end_op() after commit().
end_commit(p) ==
    /\ Running
    /\ pc[p] = "commit"
    /\ phase = "done"
    /\ phase' = "none"
    /\ commit' = FALSE
    /\ pc' = [wakeup(pc) EXCEPT ![p] = "idle"]
    /\ UNCHANGED <<wrote, num_syscalls, loghead, idx, cache, disk, hdr, up, panicked>>

-----------------------------------------------------------------------------
\* Power loss: memory is gone, the disk stays.
crash ==
    /\ up
    /\ up' = FALSE
    /\ pc' = [p \in Procs |-> "idle"]
    /\ wrote' = [p \in Procs |-> {}]
    /\ num_syscalls' = 0
    /\ commit' = FALSE
    /\ loghead' = <<>>
    /\ phase' = "none"
    /\ idx' = 0
    /\ cache' = disk
    /\ panicked' = FALSE
    /\ UNCHANGED <<disk, hdr>>

\* What copying the entries of h from the log area to their homes makes of d.
Replay(h, d) ==
    [a \in Addrs |-> IF a \in Logged(h)
                     THEN d[CHOOSE i \in 1 .. Len(h) : h[i] = a]
                     ELSE d[a]]

\* read_header(): copies as many entries as the header in memory has, which
\* is none after a boot; the count on the disk is not read.
read_header == [i \in 1 .. Len(loghead) |-> hdr[i]]

\* init_log() and recover_from_log(), before any process makes a call.
recover_from_log ==
    /\ ~up
    /\ disk' = Replay(read_header, disk)
    /\ cache' = disk'
    /\ loghead' = <<>>
    /\ hdr' = <<>>
    /\ up' = TRUE
    /\ UNCHANGED <<pc, wrote, num_syscalls, commit, phase, idx, panicked>>

-----------------------------------------------------------------------------
CommitStep == write_log \/ write_header \/ cpy_log_to_home \/ erase_header

EndOp(p) == end_op(p) \/ end_op_commit(p)

Next ==
    \/ \E p \in Procs :
         \/ begin_op(p) \/ begin_op_sleep(p)
         \/ \E b \in Blocks, v \in Values : log_write(p, b, v)
         \/ EndOp(p) \/ end_commit(p)
    \/ CommitStep
    \/ crash
    \/ recover_from_log

Spec == Init /\ [][Next]_vars

\* A call that has begun ends, and the process in commit() goes on: the
\* scheduler runs every RUNNABLE process again and again (module Process).
Fairness ==
    /\ WF_vars(CommitStep)
    /\ \A p \in Procs : WF_vars(EndOp(p)) /\ WF_vars(end_commit(p))

FairSpec == Spec /\ Fairness

-----------------------------------------------------------------------------
\* Types of the log's state in memory and on the disk.
TypeOK ==
    /\ pc \in [Procs -> Procstate]
    /\ wrote \in [Procs -> SUBSET Blocks]
    /\ num_syscalls \in Nat
    /\ commit \in BOOLEAN
    /\ loghead \in Seq(Blocks)
    /\ phase \in Phases
    /\ idx \in Nat
    /\ cache \in [Addrs -> Values]
    /\ disk \in [Addrs -> Values]
    /\ hdr \in Seq(Blocks)
    /\ up \in BOOLEAN
    /\ panicked \in BOOLEAN

\* The contents a correct recovery would give a block at this moment.
Durable == [b \in Blocks |-> Replay(hdr, disk)[b]]
View == [b \in Blocks |-> cache[b]]

\* All or nothing: of all the block writes of a commit, the write of the
\* header alone changes what a recovery would give, and it changes all blocks
\* to what the calls have written. The boot is left out: see RecoveryKeeps.
CommitAtomic == [][up /\ Durable' # Durable => Durable' = View]_vars

\* What was changed and is not on the disk yet is in the header, hence pinned
\* in the cache and part of the next commit.
DirtyIsLogged ==
    \A b \in Blocks : up /\ cache[b] # Durable[b] => b \in Logged(loghead)

\* The reservation of begin_op() is enough: log_write() and end_op() never
\* panic, whatever the calls under way still write. A full header would be a
\* panic even for a block that is in it already.
NeverPanics == ~panicked

\* Every entry has its block in the log area, although log_write() compares
\* the count with the size of the whole disk and the area has no block for
\* the last of the LOGSIZE entries: write_log() never overwrites a home block.
LogFitsArea == Len(loghead) <= NumLog - 1

\* Calls and the commit exclude each other, and there is one committer.
CommitAlone ==
    /\ commit => \A p \in Procs : pc[p] # "op"
    /\ \A p, q \in Procs : pc[p] = "commit" /\ pc[q] = "commit" => p = q
    /\ num_syscalls = Cardinality({p \in Procs : pc[p] = "op"})

\* A process asleep in begin_op() gets to test again.
SleeperWakes == \A p \in Procs : pc[p] = "asleep" ~> pc[p] # "asleep"

-----------------------------------------------------------------------------
\* "The logging layer provides security in case of a crash by keeping a log of
\* disk writes." (filesys.c): after a boot the blocks have the contents of the
\* last transaction whose header was written.
RecoveryKeeps == [][~up /\ up' => View' = Durable]_vars

=============================================================================
