------------------------------ MODULE BufCache ------------------------------
(***************************************************************************)
(* The buffer cache, kernel/bufcache.c, used the way the log and the file  *)
(* system use it: a process reads a few blocks, changes one and hands it   *)
(* to log_write(), which pins it; a commit writes pinned blocks home and   *)
(* unpins them, and writes the blocks of the log area directly.            *)
(*                                                                         *)
(* An action is one region under buffer_cache.lock or a buffer's           *)
(* sleeplock's spinlock, or what a process does with a buffer it has       *)
(* locked. A disk transfer is atomic here (module Disk).                   *)
(***************************************************************************)
EXTENDS Integers, Sequences, FiniteSets, FiniteSetsExt

CONSTANTS
    Procs,
    NUMBUF,
    Blocks,     \* block numbers, of one device
    Values,     \* contents of a block
    MaxHeld,    \* buffers a process has locked at a time: 2 in the code
    MaxPinned,  \* blocks the log pins at a time: less than LOGSIZE
    None

ASSUME BufCacheAssumption ==
    /\ IsFiniteSet(Procs)
    /\ NUMBUF \in Nat \ {0}
    /\ Blocks \subseteq Nat
    /\ MaxHeld \in Nat
    /\ MaxPinned \in Nat
    /\ None \notin Procs
    /\ None \notin Nat

Bufs == 1 .. NUMBUF

VARIABLES
    lru,                                \* the list, list_head.next first
    blockno, refcount, valid, data,     \* struct buffer
    owner,      \* per buffer: who has its sleeplock
    pc,         \* per process: idle, lock, asleep, read or release
    cur,        \* per process: the buffer it is getting or releasing
    held,       \* per process: the buffers buffer_read() has returned to it
    pinned,     \* blocks in the log header
    disk,
    latest,     \* what was last written to each block, by anyone
    panicked    \* panic("buffer_get, no buffers")

list == <<lru, blockno, refcount>>
store == <<valid, data, disk, latest>>
vars == <<lru, blockno, refcount, valid, data, owner, pc, cur, held, pinned,
          disk, latest, panicked>>

Points == {"idle", "lock", "asleep", "read", "release"}

\* After buffer_init().
Init ==
    /\ lru = [i \in Bufs |-> NUMBUF + 1 - i]
    /\ blockno = [b \in Bufs |-> None]
    /\ refcount = [b \in Bufs |-> 0]
    /\ valid = [b \in Bufs |-> FALSE]
    /\ \E v \in Values : data = [b \in Bufs |-> v]
    /\ owner = [b \in Bufs |-> None]
    /\ pc = [p \in Procs |-> "idle"]
    /\ cur = [p \in Procs |-> None]
    /\ held = [p \in Procs |-> {}]
    /\ pinned = {}
    /\ \E v \in Values : disk = [n \in Blocks |-> v]
    /\ latest = disk
    /\ panicked = FALSE

-----------------------------------------------------------------------------
\* Blocks are numbered in the order in which a process asks for them: a block
\* of the log area before its home block, an indirect block before a bitmap
\* block or the new block it will point to.
MayGet(p, n) ==
    /\ ~panicked
    /\ pc[p] = "idle"
    /\ Cardinality(held[p]) < MaxHeld
    /\ \A b \in held[p] : blockno[b] < n

\* Faulty variant: the search misses buffers that are in use.
Cached_unused(n) == {b \in Bufs : blockno[b] = n /\ refcount[b] = 0}

Cached(n) == {b \in Bufs : blockno[b] = n}

Getting(p, b) ==
    /\ cur' = [cur EXCEPT ![p] = b]
    /\ pc' = [pc EXCEPT ![p] = "lock"]

\* Faulty variant: a cached buffer is not counted.
buffer_get_uncounted(p, n) ==
    /\ MayGet(p, n)
    /\ \E b \in Cached(n) :
         /\ UNCHANGED refcount
         /\ Getting(p, b)
    /\ UNCHANGED <<lru, blockno, store, owner, held, pinned, panicked>>

\* buffer_get(), cached.
buffer_get(p, n) ==
    /\ MayGet(p, n)
    /\ \E b \in Cached(n) :
         /\ refcount' = [refcount EXCEPT ![b] = @ + 1]
         /\ Getting(p, b)
    /\ UNCHANGED <<lru, blockno, store, owner, held, pinned, panicked>>

Recyclable == {i \in DOMAIN lru : refcount[lru[i]] = 0}

\* buffer_get(), not cached: the last unused buffer of the list is recycled.
buffer_recycle(p, n) ==
    /\ MayGet(p, n)
    /\ Cached(n) = {}
    /\ panicked' = (Recyclable = {})
    /\ IF Recyclable = {} THEN UNCHANGED <<blockno, refcount, valid, cur, pc>>
       ELSE LET b == lru[Max(Recyclable)]
            IN  /\ blockno' = [blockno EXCEPT ![b] = n]
                /\ refcount' = [refcount EXCEPT ![b] = 1]
                /\ valid' = [valid EXCEPT ![b] = FALSE]
                /\ Getting(p, b)
    /\ UNCHANGED <<lru, data, disk, latest, owner, held, pinned>>

acquire_sleeplock(p) ==
    /\ ~panicked
    /\ pc[p] = "lock"
    /\ owner[cur[p]] = None
    /\ owner' = [owner EXCEPT ![cur[p]] = p]
    /\ pc' = [pc EXCEPT ![p] = "read"]
    /\ UNCHANGED <<list, store, cur, held, pinned, panicked>>

acquire_sleep(p) ==
    /\ ~panicked
    /\ pc[p] = "lock"
    /\ owner[cur[p]] # None
    /\ pc' = [pc EXCEPT ![p] = "asleep"]
    /\ UNCHANGED <<list, store, owner, cur, held, pinned, panicked>>

\* buffer_read() with the buffer locked: from the disk unless it is valid.
buffer_read(p) ==
    /\ ~panicked
    /\ pc[p] = "read"
    /\ LET b == cur[p]
       IN  /\ data' = [data EXCEPT ![b] = IF valid[b] THEN @ ELSE disk[blockno[b]]]
           /\ valid' = [valid EXCEPT ![b] = TRUE]
           /\ held' = [held EXCEPT ![p] = @ \cup {b}]
    /\ pc' = [pc EXCEPT ![p] = "idle"]
    /\ cur' = [cur EXCEPT ![p] = None]
    /\ UNCHANGED <<list, owner, pinned, disk, latest, panicked>>

-----------------------------------------------------------------------------
Using(p, b) == ~panicked /\ pc[p] = "idle" /\ b \in held[p]

Change(b, v) ==
    /\ data' = [data EXCEPT ![b] = v]
    /\ latest' = [latest EXCEPT ![blockno[b]] = v]

\* A change handed to log_write(); inc_buf_refcount() if it is a new entry.
log_write(p, b, v) ==
    /\ Using(p, b)
    /\ Cardinality(pinned \cup {blockno[b]}) <= MaxPinned
    /\ Change(b, v)
    /\ pinned' = pinned \cup {blockno[b]}
    /\ refcount' = IF blockno[b] \in pinned THEN refcount
                   ELSE [refcount EXCEPT ![b] = @ + 1]
    /\ UNCHANGED <<lru, blockno, valid, disk, owner, pc, cur, held, panicked>>

\* cpy_log_to_home(): the block is written home and unpinned.
dec_buf_refcount(p, b) ==
    /\ Using(p, b)
    /\ blockno[b] \in pinned
    /\ disk' = [disk EXCEPT ![blockno[b]] = data[b]]
    /\ pinned' = pinned \ {blockno[b]}
    /\ refcount' = [refcount EXCEPT ![b] = @ - 1]
    /\ UNCHANGED <<lru, blockno, valid, data, latest, owner, pc, cur, held, panicked>>

\* write_log() and write_header(): a block of the log area is changed and
\* written at once.
buffer_write(p, b, v) ==
    /\ Using(p, b)
    /\ blockno[b] \notin pinned
    /\ Change(b, v)
    /\ disk' = [disk EXCEPT ![blockno[b]] = v]
    /\ UNCHANGED <<list, valid, owner, pc, cur, held, pinned, panicked>>

\* release_sleeplock() in buffer_release(), with its wakeup().
Unlock(p, b) ==
    /\ owner' = [owner EXCEPT ![b] = None]
    /\ held' = [held EXCEPT ![p] = @ \ {b}]
    /\ cur' = [cur EXCEPT ![p] = b]

\* Faulty variant: nobody is woken.
release_sleeplock_silent(p, b) ==
    /\ Using(p, b)
    /\ Unlock(p, b)
    /\ pc' = [pc EXCEPT ![p] = "release"]
    /\ UNCHANGED <<list, store, pinned, panicked>>

release_sleeplock(p, b) ==
    /\ Using(p, b)
    /\ Unlock(p, b)
    /\ pc' = [q \in Procs |-> IF q = p THEN "release"
                              ELSE IF pc[q] = "asleep" /\ cur[q] = b THEN "lock"
                              ELSE pc[q]]
    /\ UNCHANGED <<list, store, pinned, panicked>>

\* The buffer is taken out of the list and put at its front.
ToFront(b) ==
    LET place == CHOOSE i \in DOMAIN lru : lru[i] = b
    IN  [i \in DOMAIN lru |-> IF i = 1 THEN b
                              ELSE IF i <= place THEN lru[i - 1] ELSE lru[i]]

\* The rest of buffer_release(): an unused buffer goes to the front.
buffer_release(p) ==
    /\ ~panicked
    /\ pc[p] = "release"
    /\ LET b == cur[p]
       IN  /\ refcount' = [refcount EXCEPT ![b] = @ - 1]
           /\ lru' = IF refcount[b] = 1 THEN ToFront(b) ELSE lru
    /\ pc' = [pc EXCEPT ![p] = "idle"]
    /\ cur' = [cur EXCEPT ![p] = None]
    /\ UNCHANGED <<blockno, store, owner, held, pinned, panicked>>

-----------------------------------------------------------------------------
GetStep(p) == acquire_sleeplock(p) \/ acquire_sleep(p) \/ buffer_read(p)

Next ==
    \E p \in Procs :
        \/ \E n \in Blocks : buffer_get(p, n) \/ buffer_recycle(p, n)
        \/ GetStep(p)
        \/ \E b \in Bufs :
             \/ \E v \in Values : log_write(p, b, v) \/ buffer_write(p, b, v)
             \/ dec_buf_refcount(p, b)
             \/ release_sleeplock(p, b)
        \/ buffer_release(p)

Spec == Init /\ [][Next]_vars

\* A process inside these functions goes on, and no path of the file system
\* keeps a buffer for ever.
Fairness ==
    \A p \in Procs :
        /\ WF_vars(GetStep(p))
        /\ WF_vars(buffer_release(p))
        /\ \A b \in Bufs : SF_vars(release_sleeplock(p, b))

FairSpec == Spec /\ Fairness

-----------------------------------------------------------------------------
\* Types of the cache; the list always holds every buffer once.
TypeOK ==
    /\ lru \in [Bufs -> Bufs]
    /\ \A b \in Bufs : \E i \in Bufs : lru[i] = b
    /\ blockno \in [Bufs -> Blocks \cup {None}]
    /\ refcount \in [Bufs -> Nat]
    /\ valid \in [Bufs -> BOOLEAN]
    /\ data \in [Bufs -> Values]
    /\ owner \in [Bufs -> Procs \cup {None}]
    /\ pc \in [Procs -> Points]
    /\ cur \in [Procs -> Bufs \cup {None}]
    /\ held \in [Procs -> SUBSET Bufs]
    /\ pinned \subseteq Blocks
    /\ disk \in [Blocks -> Values]
    /\ latest \in [Blocks -> Values]
    /\ panicked \in BOOLEAN

\* The processes that use b: has it locked, waits for it, or is releasing it.
Users(b) == {p \in Procs : b \in held[p] \/ cur[p] = b}

\* A reference count is the number of users, plus one for the log: nobody's
\* buffer is recycled, and no buffer is lost for ever.
CountsUsers ==
    \A b \in Bufs :
        refcount[b] = Cardinality(Users(b)) + (IF blockno[b] \in pinned THEN 1 ELSE 0)

\* buffer_read() returns what was last written to the block, be it in the
\* cache, pinned for the log, or recycled and read back from the disk; and
\* what a process has locked is nobody else's.
ReadsLatest ==
    \A p \in Procs : \A b \in held[p] :
        owner[b] = p /\ data[b] = latest[blockno[b]]

\* A process asleep for a buffer gets to try again.
SleeperWakes == \A p \in Procs : pc[p] = "asleep" ~> pc[p] # "asleep" \/ panicked

=============================================================================
