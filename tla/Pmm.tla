-------------------------------- MODULE Pmm --------------------------------
(***************************************************************************)
(* The physical memory allocator of kernel/pmm.c: a bitmap searched from   *)
(* its start, under pmm_lock.  kalloc() sets the global alloc_start before *)
(* it takes the lock and reads it after it has released it; kfree() sets   *)
(* it too.                                                                 *)
(***************************************************************************)
EXTENDS PageFrames

CONSTANT Procs

VARIABLES
    bits,        \* the bits that are set in the bitmap
    alloc_start,
    pc, taken,   \* where a process is in kalloc(), and the bit it has set
    users,       \* how many callers have a page and have not given it back
    panicked,    \* kalloc() found no bit
    freed        \* history: kfree() has been called

vars == <<bits, alloc_start, pc, taken, users, panicked, freed>>

\* The addresses kalloc() may return, for either value of alloc_start.
Handed == {start + i * PGESIZE : start \in {AllocStart, FreeStart}, i \in Frames}

\* pmm_init() clears the bitmap.
Init ==
    /\ bits = {}
    /\ alloc_start = 0
    /\ pc = [p \in Procs |-> "idle"]
    /\ taken = [p \in Procs |-> 0]
    /\ users = [pg \in Handed |-> 0]
    /\ panicked = FALSE
    /\ freed = FALSE

\* kalloc(): before, in and after the critical section.
kalloc(p) ==
    /\ ~panicked /\ pc[p] = "idle"
    /\ alloc_start' = AllocStart
    /\ pc' = [pc EXCEPT ![p] = "search"]
    /\ UNCHANGED <<bits, taken, users, panicked, freed>>

search(p) ==
    /\ ~panicked /\ pc[p] = "search"
    /\ \E i \in Clear(bits) :
        /\ \A j \in Clear(bits) : i <= j
        /\ bits' = bits \cup {i}
        /\ taken' = [taken EXCEPT ![p] = i]
    /\ pc' = [pc EXCEPT ![p] = "return"]
    /\ UNCHANGED <<alloc_start, users, panicked, freed>>

return(p) ==
    /\ ~panicked /\ pc[p] = "return"
    /\ users' = [users EXCEPT ![alloc_start + taken[p] * PGESIZE] = @ + 1]
    /\ pc' = [pc EXCEPT ![p] = "idle"]
    /\ UNCHANGED <<bits, alloc_start, taken, panicked, freed>>

no_memory(p) ==
    /\ ~panicked /\ pc[p] = "search"
    /\ Clear(bits) = {}
    /\ panicked' = TRUE
    /\ UNCHANGED <<bits, alloc_start, pc, taken, users, freed>>

\* A process gives back a page: the lock is held throughout.  An index that is
\* not one of Frames is that of a bit behind the bitmap.
kfree(p, pg) ==
    /\ ~panicked /\ pc[p] = "idle" /\ users[pg] > 0
    /\ alloc_start' = FreeStart
    /\ bits' = bits \ {FreeIndex(pg)}
    /\ users' = [users EXCEPT ![pg] = @ - 1]
    /\ freed' = TRUE
    /\ UNCHANGED <<pc, taken, panicked>>

Step(p) == kalloc(p) \/ search(p) \/ return(p) \/ no_memory(p) \/ \E pg \in Handed : kfree(p, pg)

Next == \E p \in Procs : Step(p)

Spec == Init /\ [][Next]_vars

\* A bit is set for the pages that are in use or about to be returned by
\* kalloc(), and for no other; and alloc_start is kalloc()'s while it is needed.
BitsExact ==
    /\ users \in [Handed -> {0, 1}]
    /\ bits \subseteq Frames
    /\ pc \in [Procs -> {"idle", "search", "return"}]
    /\ taken \in [Procs -> Int]
    /\ \A p \in Procs :
        /\ pc[p] # "idle" => alloc_start = AllocStart
        /\ pc[p] = "return" => taken[p] \in bits /\ users[Page(taken[p])] = 0
    /\ \A p, q \in Procs : pc[p] = "return" /\ pc[q] = "return" /\ taken[p] = taken[q] => p = q
    /\ \A i \in bits : users[Page(i)] = 1 \/ \E p \in Procs : pc[p] = "return" /\ taken[p] = i
    /\ \A i \in Frames : users[Page(i)] = 1 => i \in bits

\* Until kfree() is called for the first time the bits are exact, however the
\* calls of kalloc() interleave: no page is handed out twice, and kalloc()
\* panics only with every page in use, although alloc_start is written and read
\* outside pmm_lock.
ExactUntilFreed == freed \/ BitsExact

\* kfree() leaves the bit of the page it is given as it is: the page is not free
\* afterwards.  If it clears a bit, that of a page 119 or 120 before it.
FreeMissesPage ==
    [][\A p \in Procs, i \in Frames : kfree(p, Page(i)) =>
        /\ i \in bits' <=> i \in bits
        /\ bits \ bits' \subseteq {i - 119, i - 120}]_vars
=============================================================================
