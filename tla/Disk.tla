-------------------------------- MODULE Disk --------------------------------
(***************************************************************************)
(* The virtio disk driver, kernel/disk.c, and the device as the driver     *)
(* sees it. A request takes three descriptors, is announced in the avail   *)
(* ring and comes back, in any order, in the used ring; the interrupt      *)
(* handler then releases the process that waits for it.                    *)
(*                                                                         *)
(* An action of the driver is one region under vdisk_lock. A process has   *)
(* its buffer locked (module BufCache), so the process stands for it.      *)
(***************************************************************************)
EXTENDS Integers, FiniteSets, FiniteSetsExt

CONSTANTS
    Procs,
    NUM,        \* descriptors, and entries of either ring
    Turns,      \* 2^16 / NUM: the ring counters wrap after so many rounds
    None

ASSUME DiskAssumption ==
    /\ IsFiniteSet(Procs)
    /\ NUM \in Nat /\ NUM >= 3
    /\ Turns \in Nat \ {0}
    /\ None \notin Procs /\ None \notin Nat

Descs == 0 .. NUM - 1

VARIABLES
    free,       \* disk.free
    next,       \* per descriptor: desc.next, None without the NEXT flag
    addr,       \* per descriptor: whose buffer desc.addr is, None if none
    info,       \* per descriptor: info.b
    status,     \* per descriptor: info.status is an error
    avail, avail_idx,   \* the avail ring and avail[1]
    used, used_id,      \* the used ring and used->id
    used_idx,           \* how far the driver has looked
    seen,       \* device: how far it has looked in avail
    taken,      \* device: requests it works on
    irq,        \* the device's interrupt is pending
    busy,       \* per process: b->disk
    head,       \* per process: idx[0]
    moved,      \* per process: how often the device moved its data
    pc,         \* per process: idle, alloc, nodesc, wait or asleep
    panicked

driver == <<free, next, info, busy, head, pc>>
rings == <<avail, avail_idx, used, used_id, used_idx>>
device == <<seen, taken, moved, status>>
vars == <<free, next, addr, info, status, avail, avail_idx, used, used_id,
          used_idx, seen, taken, irq, busy, head, moved, pc, panicked>>

Wrap(x) == x % (NUM * Turns)

\* After disk_init().
Init ==
    /\ free = Descs
    /\ next = [i \in Descs |-> None]
    /\ addr = [i \in Descs |-> None]
    /\ info = [i \in Descs |-> None]
    /\ status = [i \in Descs |-> FALSE]
    /\ avail = [i \in Descs |-> 0] /\ avail_idx = 0
    /\ used = [i \in Descs |-> 0] /\ used_id = 0 /\ used_idx = 0
    /\ seen = 0
    /\ taken = {}
    /\ irq = FALSE
    /\ busy = [p \in Procs |-> FALSE]
    /\ head = [p \in Procs |-> None]
    /\ moved = [p \in Procs |-> 0]
    /\ pc = [p \in Procs |-> "idle"]
    /\ panicked = FALSE

-----------------------------------------------------------------------------
\* wakeup(&disk.free[0]).
wake_alloc(st) == [q \in Procs |-> IF st[q] = "nodesc" THEN "alloc" ELSE st[q]]

\* disk_read_write() is called.
disk_read_write(p) ==
    /\ ~panicked
    /\ pc[p] = "idle"
    /\ pc' = [pc EXCEPT ![p] = "alloc"]
    /\ UNCHANGED <<free, next, addr, info, busy, head, rings, device, irq, panicked>>

\* alloc3_desc(): the three lowest free descriptors.
First == Min(free)
Second == Min(free \ {First})
Third == Min(free \ {First, Second})

\* alloc3_desc() succeeds: the chain is formatted and announced, and the
\* process sleeps, for b->disk is 1.
submit(p) ==
    /\ ~panicked
    /\ pc[p] = "alloc"
    /\ Cardinality(free) >= 3
    /\ free' = free \ {First, Second, Third}
    /\ next' = [next EXCEPT ![First] = Second, ![Second] = Third, ![Third] = None]
    /\ addr' = [addr EXCEPT ![First] = None, ![Second] = p, ![Third] = None]
    /\ status' = [status EXCEPT ![First] = FALSE]
    /\ busy' = [busy EXCEPT ![p] = TRUE]
    /\ moved' = [moved EXCEPT ![p] = 0]
    /\ info' = [info EXCEPT ![First] = p]
    /\ head' = [head EXCEPT ![p] = First]
    /\ avail' = [avail EXCEPT ![avail_idx % NUM] = First]
    /\ avail_idx' = Wrap(avail_idx + 1)
    /\ pc' = [pc EXCEPT ![p] = "asleep"]
    /\ UNCHANGED <<used, used_id, used_idx, seen, taken, irq, panicked>>

\* alloc3_desc() fails: what it had taken is freed again, with a wakeup() for
\* each descriptor, and the process sleeps.
no_desc(p) ==
    /\ ~panicked
    /\ pc[p] = "alloc"
    /\ Cardinality(free) < 3
    /\ addr' = [i \in Descs |-> IF i \in free THEN None ELSE addr[i]]
    /\ pc' = [(IF free = {} THEN pc ELSE wake_alloc(pc)) EXCEPT ![p] = "nodesc"]
    /\ UNCHANGED <<free, next, info, busy, head, rings, device, irq, panicked>>

\* free_chain(): from the head along the NEXT flags.
Chain(h) == LET t == next[h]
            IN  {h, t} \cup IF t = None THEN {} ELSE {next[t]}

\* The fields of a free descriptor are not read again.
Clear(c) ==
    /\ addr' = [i \in Descs |-> IF i \in c THEN None ELSE addr[i]]
    /\ next' = [i \in Descs |-> IF i \in c THEN None ELSE next[i]]

\* Faulty variant: the last descriptor of the chain is not freed.
finish_leak(p) ==
    /\ ~panicked
    /\ pc[p] = "wait"
    /\ ~busy[p]
    /\ LET c == {head[p], next[head[p]]}
       IN  /\ panicked' = (c \cap free # {})
           /\ free' = free \cup c
           /\ Clear(c)
    /\ info' = [info EXCEPT ![head[p]] = None]
    /\ head' = [head EXCEPT ![p] = None]
    /\ pc' = [wake_alloc(pc) EXCEPT ![p] = "idle"]
    /\ UNCHANGED <<busy, rings, device, irq>>

\* Faulty variant: the processes short of descriptors are not woken.
finish_silent(p) ==
    /\ ~panicked
    /\ pc[p] = "wait"
    /\ ~busy[p]
    /\ LET c == Chain(head[p]) \ {None}
       IN  /\ panicked' = (c \cap free # {})
           /\ free' = free \cup c
           /\ Clear(c)
    /\ info' = [info EXCEPT ![head[p]] = None]
    /\ head' = [head EXCEPT ![p] = None]
    /\ pc' = [pc EXCEPT ![p] = "idle"]
    /\ UNCHANGED <<busy, rings, device, irq>>

\* The rest of disk_read_write(), once b->disk is 0.
finish(p) ==
    /\ ~panicked
    /\ pc[p] = "wait"
    /\ ~busy[p]
    /\ LET c == Chain(head[p]) \ {None}
       IN  /\ panicked' = (c \cap free # {})
           /\ free' = free \cup c
           /\ Clear(c)
    /\ info' = [info EXCEPT ![head[p]] = None]
    /\ head' = [head EXCEPT ![p] = None]
    /\ pc' = [wake_alloc(pc) EXCEPT ![p] = "idle"]
    /\ UNCHANGED <<busy, rings, device, irq>>

\* It sleeps again if it was woken early.
wait_more(p) ==
    /\ ~panicked
    /\ pc[p] = "wait"
    /\ busy[p]
    /\ pc' = [pc EXCEPT ![p] = "asleep"]
    /\ UNCHANGED <<free, next, addr, info, busy, head, rings, device, irq, panicked>>

\* kill() ends the sleep of its victim.
kill(p) ==
    /\ ~panicked
    /\ pc[p] \in {"nodesc", "asleep"}
    /\ pc' = [pc EXCEPT ![p] = IF @ = "nodesc" THEN "alloc" ELSE "wait"]
    /\ UNCHANGED <<free, next, addr, info, busy, head, rings, device, irq, panicked>>

-----------------------------------------------------------------------------
\* The device takes the next request of the avail ring. An entry that was
\* taken, here, or handled, in the used ring, is not read again: it is cleared
\* to keep dead values out of the state.
device_take ==
    /\ seen # avail_idx
    /\ taken' = taken \cup {avail[seen % NUM]}
    /\ avail' = [avail EXCEPT ![seen % NUM] = 0]
    /\ seen' = Wrap(seen + 1)
    /\ UNCHANGED <<driver, addr, avail_idx, used, used_id, used_idx, moved, status,
                   irq, panicked>>

\* The device moves the data, or fails, and puts the request into the used
\* ring: in any order.
device_done(h, fails) ==
    /\ h \in taken
    /\ taken' = taken \ {h}
    /\ LET p == addr[next[h]]
       IN  moved' = IF fails \/ p = None THEN moved ELSE [moved EXCEPT ![p] = @ + 1]
    /\ status' = [status EXCEPT ![h] = fails]
    /\ used' = [used EXCEPT ![used_id % NUM] = h]
    /\ used_id' = Wrap(used_id + 1)
    /\ irq' = TRUE
    /\ UNCHANGED <<driver, addr, avail, avail_idx, used_idx, seen, panicked>>

\* The entries of the used ring that the driver has not handled yet.
Unhandled == {(used_idx + i) % NUM : i \in 0 .. ((used_id - used_idx) % NUM) - 1}

\* Faulty variant: one request is handled per interrupt.
Handled_one == {used[i] : i \in Unhandled \cap {used_idx}}

Handled == {used[i] : i \in Unhandled}

\* Faulty variant: the handler starts over at the first entry of the ring.
intr_restart ==
    /\ irq
    /\ ~panicked
    /\ panicked' = (\E h \in Handled : status[h])
    /\ LET ready == {info[h] : h \in Handled}
       IN  /\ busy' = [p \in Procs |-> busy[p] /\ p \notin ready]
           /\ pc' = [p \in Procs |-> IF p \in ready /\ pc[p] = "asleep"
                                     THEN "wait" ELSE pc[p]]
    /\ used_idx' = 0
    /\ used' = [i \in Descs |-> IF i \in Unhandled THEN 0 ELSE used[i]]
    /\ irq' = FALSE
    /\ UNCHANGED <<free, next, addr, info, head, avail, avail_idx, used_id, device>>

\* virtio_disk_intr(): every new entry of the used ring.
virtio_disk_intr ==
    /\ irq
    /\ ~panicked
    /\ panicked' = (\E h \in Handled : status[h])
    /\ LET ready == {info[h] : h \in Handled}
       IN  /\ busy' = [p \in Procs |-> busy[p] /\ p \notin ready]
           /\ pc' = [p \in Procs |-> IF p \in ready /\ pc[p] = "asleep"
                                     THEN "wait" ELSE pc[p]]
    /\ used_idx' = used_id % NUM
    /\ used' = [i \in Descs |-> IF i \in Unhandled THEN 0 ELSE used[i]]
    /\ irq' = FALSE
    /\ UNCHANGED <<free, next, addr, info, head, avail, avail_idx, used_id, device>>

\* panic() with vdisk_lock held: the hart spins, the device may go on.
panic == panicked /\ UNCHANGED vars

-----------------------------------------------------------------------------
DriverStep(p) == submit(p) \/ no_desc(p) \/ finish(p) \/ wait_more(p)

Device == device_take \/ \E h \in Descs, fails \in BOOLEAN : device_done(h, fails)

Next ==
    \/ \E p \in Procs : disk_read_write(p) \/ DriverStep(p) \/ kill(p)
    \/ Device
    \/ virtio_disk_intr
    \/ panic

Spec == Init /\ [][Next]_vars

\* The device completes what it is given, its interrupt is delivered, and a
\* process in the driver goes on.
Fairness ==
    /\ WF_vars(device_take)
    /\ \A h \in Descs : WF_vars(\E fails \in BOOLEAN : device_done(h, fails))
    /\ WF_vars(virtio_disk_intr)
    /\ \A p \in Procs : WF_vars(DriverStep(p))

FairSpec == Spec /\ Fairness

-----------------------------------------------------------------------------
\* Types of the driver's and the device's state.
TypeOK ==
    /\ free \subseteq Descs
    /\ next \in [Descs -> Descs \cup {None}]
    /\ addr \in [Descs -> Procs \cup {None}]
    /\ info \in [Descs -> Procs \cup {None}]
    /\ status \in [Descs -> BOOLEAN]
    /\ avail \in [Descs -> Descs] /\ avail_idx \in 0 .. NUM * Turns - 1
    /\ used \in [Descs -> Descs] /\ used_id \in 0 .. NUM * Turns - 1
    /\ used_idx \in Descs
    /\ seen \in 0 .. NUM * Turns - 1
    /\ taken \subseteq Descs
    /\ irq \in BOOLEAN
    /\ busy \in [Procs -> BOOLEAN]
    /\ head \in [Procs -> Descs \cup {None}]
    /\ moved \in [Procs -> Nat]
    /\ pc \in [Procs -> {"idle", "alloc", "nodesc", "wait", "asleep"}]
    /\ panicked \in BOOLEAN

Active == {p \in Procs : head[p] # None}

\* No descriptor is in two requests, in a request and free, or lost: the free
\* ones and the chains of three of the active requests share out the table.
ChainsPartition ==
    /\ \A p \in Active : /\ None \notin Chain(head[p])
                         /\ Cardinality(Chain(head[p])) = 3
                         /\ Chain(head[p]) \cap free = {}
    /\ \A p, q \in Active : p # q => Chain(head[p]) \cap Chain(head[q]) = {}
    /\ Cardinality(free) + 3 * Cardinality(Active) = NUM

\* Completions reach their own request: whatever the order in which the device
\* works and however the ring counters wrap, the handler finds behind each
\* new entry the process that still waits for it, and disk_read_write()
\* returns only after its data was moved, once.
CompletionsMatch ==
    /\ \A h \in Handled : \E p \in Procs : info[h] = p /\ head[p] = h /\ busy[p]
    /\ \A p \in Procs : pc[p] = "wait" /\ ~busy[p] /\ ~panicked => moved[p] = 1

\* A request that was handed to the device comes to its end.
RequestEnds ==
    \A p \in Procs : pc[p] \in {"asleep", "wait"} ~> (pc[p] = "idle" \/ panicked)

\* Who sleeps for descriptors gets to try again.
AllocRetries == \A p \in Procs : pc[p] = "nodesc" ~> (pc[p] # "nodesc" \/ panicked)

=============================================================================
