------------------------------- MODULE Locks -------------------------------
(***************************************************************************)
(* Spinlocks and the interrupt depth, kernel/locks.c, under the code that  *)
(* strains them most: process locks that are taken by one context and      *)
(* released by another across transfer(), the timer handler that takes     *)
(* locks on top of interrupted code, and sleep().                          *)
(*                                                                         *)
(* Lock 0 is tickslock, lock t is the lock of process t. A context is a    *)
(* process or the scheduler loop of a hart; its stack has a second frame   *)
(* while a handler runs on top of it. A frame's op is its place inside     *)
(* acquire_lock() or release_lock(), "none" outside. Every access to a     *)
(* lock's fields is a step; accesses of a hart to its own struct cpu with  *)
(* interrupts off join a neighbouring step.                                *)
(***************************************************************************)
EXTENDS Integers, Sequences, FiniteSets

CONSTANTS
    Harts,
    Timer,      \* hart 0, the one that counts ticks
    NPROC,      \* the processes in the table
    None

ASSUME LocksAssumption ==
    /\ IsFiniteSet(Harts)
    /\ Timer \in Harts
    /\ NPROC \in Nat
    /\ None \notin Harts \cup Int
    /\ \A h \in Harts : h \notin Int

Threads == 1 .. NPROC
Tick == 0
Locks == 0 .. NPROC
Contexts == Threads \cup Harts      \* a hart stands for its scheduler loop

VARIABLES
    locked, cpu,            \* struct spinlock
    intr,                   \* per hart, sstatus.SIE
    depth, prev,            \* per hart, depth_lock_intr_disable, intr_prev_state
    proc,                   \* per hart, the process it runs
    state,                  \* per process
    saved,                  \* per process, intr_prev_state on scheduler()'s stack
    stack,                  \* per context, its frames
    holders                 \* history: the harts that have each lock

lockvars == <<locked, cpu, holders, depth, prev>>
vars == <<locked, cpu, intr, depth, prev, proc, state, saved, stack, holders>>

Ops == {"none", "read", "off", "spin", "own", "check", "free"}
Points == {"forkret", "ret", "user", "call", "ticks", "sleep", "asleep",
           "sleep_resume", "relock", "intr", "wake", "wake_one", "woken",
           "yield", "yield_resume", "done", "scan", "picked", "back"}
Frame == [rt : Points, op : Ops, lk : Locks, saw : BOOLEAN, i : 0 .. NPROC + 1]

Start(point) == [rt |-> point, op |-> "none", lk |-> Tick, saw |-> FALSE, i |-> 0]

\* process_init(), init_trapvec() and a table of processes that were forked.
Init ==
    /\ locked = [l \in Locks |-> FALSE]
    /\ cpu = [l \in Locks |-> None]
    /\ intr = [h \in Harts |-> FALSE]
    /\ depth = [h \in Harts |-> 0]
    /\ prev = [h \in Harts |-> FALSE]
    /\ proc = [h \in Harts |-> None]
    /\ state = [t \in Threads |-> "RUNNABLE"]
    /\ saved = [t \in Threads |-> FALSE]
    /\ holders = [l \in Locks |-> {}]
    /\ stack = [c \in Contexts |->
                  IF c \in Threads THEN <<Start("forkret")>>
                  ELSE <<[Start("scan") EXCEPT !.i = NPROC + 1]>>]

-----------------------------------------------------------------------------
Cur(h) == IF proc[h] = None THEN h ELSE proc[h]
Level(h) == Len(stack[Cur(h)])
Top(h) == stack[Cur(h)][Level(h)]
Doing(h, op) == Top(h).op = op
At(h, point) == Doing(h, "none") /\ Top(h).rt = point

SetTop(h, f) == stack' = [stack EXCEPT ![Cur(h)][Level(h)] = f]
Go(h, point) == SetTop(h, [Top(h) EXCEPT !.rt = point])
Acquire(h, l, point) ==
    SetTop(h, [Top(h) EXCEPT !.rt = point, !.op = "read", !.lk = l])
Release(h, l, point) ==
    SetTop(h, [Top(h) EXCEPT !.rt = point, !.op = "check", !.lk = l])

is_holding(h, l) == locked[l] /\ cpu[l] = h

-----------------------------------------------------------------------------
\* lock_intr_disable(): first it reads the interrupt flag, and may still be
\* interrupted and resumed on another hart ...
intr_read(h) ==
    /\ Doing(h, "read")
    /\ SetTop(h, [Top(h) EXCEPT !.op = "off", !.saw = intr[h]])
    /\ UNCHANGED <<lockvars, intr, proc, state, saved>>

\* ... then it turns interrupts off and counts. acquire_lock() panics when
\* this hart has the lock.
intr_off(h) ==
    /\ Doing(h, "off")
    /\ ~is_holding(h, Top(h).lk)
    /\ intr' = [intr EXCEPT ![h] = FALSE]
    /\ prev' = [prev EXCEPT ![h] = IF depth[h] = 0 THEN Top(h).saw ELSE @]
    /\ depth' = [depth EXCEPT ![h] = @ + 1]
    /\ SetTop(h, [Top(h) EXCEPT !.op = "spin", !.saw = FALSE])
    /\ UNCHANGED <<locked, cpu, holders, proc, state, saved>>

\* Faulty variant: the loop ends when the word is not read as 1, without the
\* atomic exchange: two harts may both go on.
test_and_set_plain(h) ==
    /\ Doing(h, "spin")
    /\ ~locked[Top(h).lk] \/ cpu[Top(h).lk] = None
    /\ locked' = [locked EXCEPT ![Top(h).lk] = TRUE]
    /\ holders' = [holders EXCEPT ![Top(h).lk] = @ \cup {h}]
    /\ SetTop(h, [Top(h) EXCEPT !.op = "own"])
    /\ UNCHANGED <<cpu, intr, depth, prev, proc, state, saved>>

\* The spin loop of acquire_lock(): the turn that finds the lock free.
test_and_set(h) ==
    /\ Doing(h, "spin")
    /\ ~locked[Top(h).lk]
    /\ locked' = [locked EXCEPT ![Top(h).lk] = TRUE]
    /\ holders' = [holders EXCEPT ![Top(h).lk] = @ \cup {h}]
    /\ SetTop(h, [Top(h) EXCEPT !.op = "own"])
    /\ UNCHANGED <<cpu, intr, depth, prev, proc, state, saved>>

set_cpu(h) ==
    /\ Doing(h, "own")
    /\ cpu' = [cpu EXCEPT ![Top(h).lk] = h]
    /\ SetTop(h, [Top(h) EXCEPT !.op = "none"])
    /\ UNCHANGED <<locked, holders, intr, depth, prev, proc, state, saved>>

\* Faulty variant: the holder's name is left in a free lock.
clear_cpu_not(h) ==
    /\ Doing(h, "check")
    /\ is_holding(h, Top(h).lk)
    /\ SetTop(h, [Top(h) EXCEPT !.op = "free"])
    /\ UNCHANGED <<lockvars, intr, proc, state, saved>>

\* release_lock() up to lock->cpu = 0. It panics when this hart does not
\* have the lock.
clear_cpu(h) ==
    /\ Doing(h, "check")
    /\ is_holding(h, Top(h).lk)
    /\ cpu' = [cpu EXCEPT ![Top(h).lk] = None]
    /\ SetTop(h, [Top(h) EXCEPT !.op = "free"])
    /\ UNCHANGED <<locked, holders, intr, depth, prev, proc, state, saved>>

\* It panics when interrupts are on or nothing is to be undone.
lock_intr_enable(h) ==
    /\ ~intr[h]
    /\ depth[h] > 0
    /\ depth' = [depth EXCEPT ![h] = @ - 1]
    /\ intr' = [intr EXCEPT ![h] = depth[h] = 1 /\ prev[h]]
    /\ prev' = [prev EXCEPT ![h] = @ /\ depth[h] > 1]   \* not read again

\* The rest of release_lock().
unlock(h) ==
    /\ Doing(h, "free")
    /\ locked' = [locked EXCEPT ![Top(h).lk] = FALSE]
    /\ holders' = [holders EXCEPT ![Top(h).lk] = @ \ {h}]
    /\ lock_intr_enable(h)
    /\ SetTop(h, [Top(h) EXCEPT !.op = "none", !.lk = Tick])
    /\ UNCHANGED <<cpu, proc, state, saved>>

LockStep(h) ==
    \/ intr_read(h)
    \/ intr_off(h)
    \/ test_and_set(h)
    \/ set_cpu(h)
    \/ clear_cpu(h)
    \/ unlock(h)

-----------------------------------------------------------------------------
\* cpu_scheduler(). Interrupts go on at the top of the loop only.
cpu_scheduler_top(h) ==
    /\ At(h, "scan")
    /\ Top(h).i = NPROC + 1
    /\ intr' = [intr EXCEPT ![h] = TRUE]
    /\ SetTop(h, [Top(h) EXCEPT !.i = 1])
    /\ UNCHANGED <<lockvars, proc, state, saved>>

cpu_scheduler_lock(h) ==
    /\ At(h, "scan")
    /\ Top(h).i <= NPROC
    /\ Acquire(h, Top(h).i, "picked")
    /\ UNCHANGED <<lockvars, intr, proc, state, saved>>

\* transfer() to the process: it goes on where it left, with this hart.
cpu_scheduler_run(h) ==
    /\ At(h, "picked")
    /\ state[Top(h).i] = "RUNNABLE"
    /\ state' = [state EXCEPT ![Top(h).i] = "RUNNING"]
    /\ proc' = [proc EXCEPT ![h] = Top(h).i]
    /\ Go(h, "back")
    /\ UNCHANGED <<lockvars, intr, saved>>

\* The process is not runnable, or has come back from transfer().
cpu_scheduler_next(h) ==
    /\ At(h, "back") \/ (At(h, "picked") /\ state[Top(h).i] # "RUNNABLE")
    /\ SetTop(h, [Top(h) EXCEPT !.rt = "scan", !.op = "check", !.lk = Top(h).i,
                                !.i = @ + 1])
    /\ UNCHANGED <<lockvars, intr, proc, state, saved>>

SchedulerStep(h) ==
    \/ cpu_scheduler_top(h)
    \/ cpu_scheduler_lock(h)
    \/ cpu_scheduler_run(h)
    \/ cpu_scheduler_next(h)

-----------------------------------------------------------------------------
\* What scheduler() checks before it leaves the process.
MayLeave(h) == is_holding(h, proc[h]) /\ depth[h] = 1 /\ ~intr[h]

\* scheduler(), called with the process in a new state.
scheduler(h, new, point) ==
    /\ MayLeave(h)
    /\ state' = [state EXCEPT ![proc[h]] = new]
    /\ saved' = [saved EXCEPT ![proc[h]] = prev[h]]
    /\ proc' = [proc EXCEPT ![h] = None]
    /\ Go(h, point)
    /\ UNCHANGED <<lockvars, intr>>

\* Faulty variant: the flag of whoever had the hart before is used.
resume_unsaved(h, point) ==
    /\ saved' = [saved EXCEPT ![proc[h]] = FALSE]
    /\ Release(h, proc[h], point)
    /\ UNCHANGED <<locked, cpu, holders, depth, prev, intr, proc, state>>

\* scheduler() returns, and its caller releases the process lock.
resume(h, point) ==
    /\ prev' = [prev EXCEPT ![h] = saved[proc[h]]]
    /\ saved' = [saved EXCEPT ![proc[h]] = FALSE]
    /\ Release(h, proc[h], point)
    /\ UNCHANGED <<locked, cpu, holders, depth, intr, proc, state>>

forkret(h) ==
    /\ At(h, "forkret")
    /\ Release(h, proc[h], "ret")
    /\ UNCHANGED <<lockvars, intr, proc, state, saved>>

\* utrapret(): to user mode, with interrupts off until it gets there.
utrapret(h) ==
    /\ At(h, "ret")
    /\ intr' = [intr EXCEPT ![h] = FALSE]
    /\ Go(h, "user")
    /\ UNCHANGED <<lockvars, proc, state, saved>>

\* utrap() for a system call, which runs with interrupts on.
utrap_syscall(h) ==
    /\ At(h, "user")
    /\ intr' = [intr EXCEPT ![h] = TRUE]
    /\ Go(h, "call")
    /\ UNCHANGED <<lockvars, proc, state, saved>>

\* sys_uptime() and sys_sleep() take tickslock and release it in the end.
sys_uptime(h) ==
    /\ \/ At(h, "call") /\ Acquire(h, Tick, "ticks")
       \/ At(h, "ticks") /\ Release(h, Tick, "call")
       \/ At(h, "call") /\ Go(h, "ret")
    /\ UNCHANGED <<lockvars, intr, proc, state, saved>>

\* Faulty variant: sleep() takes the caller's lock back before it releases
\* the process lock.
sleep_relock_first(h) ==
    \/ /\ \/ At(h, "ticks") /\ Acquire(h, proc[h], "sleep")
          \/ At(h, "sleep") /\ Release(h, Tick, "asleep")
          \/ At(h, "sleep_resume") /\ Acquire(h, Tick, "relock")
          \/ At(h, "relock") /\ Release(h, proc[h], "ticks")
       /\ UNCHANGED <<lockvars, intr, proc, state, saved>>
    \/ At(h, "asleep") /\ scheduler(h, "SLEEPING", "sleep_resume")

\* sleep(&ticks, &tickslock)
sleep(h) ==
    \/ /\ \/ At(h, "ticks") /\ Acquire(h, proc[h], "sleep")
          \/ At(h, "sleep") /\ Release(h, Tick, "asleep")
          \/ At(h, "relock") /\ Acquire(h, Tick, "ticks")
       /\ UNCHANGED <<lockvars, intr, proc, state, saved>>
    \/ At(h, "asleep") /\ scheduler(h, "SLEEPING", "sleep_resume")
    \/ At(h, "sleep_resume") /\ resume(h, "relock")

CallStep(h) ==
    forkret(h) \/ utrapret(h) \/ utrap_syscall(h) \/ sys_uptime(h) \/ sleep(h)

-----------------------------------------------------------------------------
\* An interrupt of the timer in user mode, or on top of kernel code.
utrap_intr(h) ==
    /\ At(h, "user")
    /\ Go(h, "intr")
    /\ UNCHANGED <<lockvars, intr, proc, state, saved>>

ktrap(h) ==
    /\ intr[h]
    /\ intr' = [intr EXCEPT ![h] = FALSE]
    /\ stack' = [stack EXCEPT ![Cur(h)] = Append(@, Start("intr"))]
    /\ UNCHANGED <<lockvars, proc, state, saved>>

\* handle_device_intr(): timer_interrupt() on hart 0, with its wakeup().
timer_interrupt(h) ==
    /\ \/ At(h, "intr") /\ h # Timer /\ Go(h, "woken")
       \/ /\ At(h, "intr")
          /\ h = Timer
          /\ SetTop(h, [Top(h) EXCEPT !.rt = "wake", !.op = "read", !.lk = Tick,
                                      !.i = 1])
       \/ /\ At(h, "wake")
          /\ Top(h).i = proc[h]
          /\ SetTop(h, [Top(h) EXCEPT !.i = @ + 1])
       \/ /\ At(h, "wake")
          /\ Top(h).i \in Threads \ {proc[h]}
          /\ Acquire(h, Top(h).i, "wake_one")
       \/ /\ At(h, "wake")
          /\ Top(h).i > NPROC
          /\ SetTop(h, [Start("woken") EXCEPT !.op = "check", !.lk = Tick])
    /\ UNCHANGED <<lockvars, intr, proc, state, saved>>

wakeup(h) ==
    /\ At(h, "wake_one")
    /\ state' = [state EXCEPT ![Top(h).i] = IF @ = "SLEEPING" THEN "RUNNABLE" ELSE @]
    /\ SetTop(h, [Top(h) EXCEPT !.rt = "wake", !.op = "check", !.lk = Top(h).i,
                                !.i = @ + 1])
    /\ UNCHANGED <<lockvars, intr, proc, saved>>

\* yield_process(), when the hart runs a process.
yield_process(h) ==
    \/ /\ \/ At(h, "woken") /\ proc[h] # None /\ Acquire(h, proc[h], "yield")
          \/ At(h, "woken") /\ proc[h] = None /\ Go(h, "done")
       /\ UNCHANGED <<lockvars, intr, proc, state, saved>>
    \/ At(h, "yield") /\ scheduler(h, "RUNNABLE", "yield_resume")
    \/ At(h, "yield_resume") /\ resume(h, "done")

\* The end of utrap(), or of ktrap(): sret restores the interrupted code's
\* flag, which was on.
utrap_end(h) ==
    /\ At(h, "done")
    /\ Level(h) = 1
    /\ Go(h, "ret")
    /\ UNCHANGED <<lockvars, intr, proc, state, saved>>

ktrap_end(h) ==
    /\ At(h, "done")
    /\ Level(h) = 2
    /\ intr' = [intr EXCEPT ![h] = TRUE]
    /\ stack' = [stack EXCEPT ![Cur(h)] = <<@[1]>>]
    /\ UNCHANGED <<lockvars, proc, state, saved>>

TrapStep(h) ==
    \/ utrap_intr(h) \/ ktrap(h) \/ timer_interrupt(h) \/ wakeup(h)
    \/ yield_process(h) \/ utrap_end(h) \/ ktrap_end(h)

Next == \E h \in Harts : LockStep(h) \/ SchedulerStep(h) \/ CallStep(h) \/ TrapStep(h)

Spec == Init /\ [][Next]_vars

-----------------------------------------------------------------------------
\* Types of the locks, the harts and the contexts; no trap on top of a trap.
TypeOK ==
    /\ locked \in [Locks -> BOOLEAN]
    /\ cpu \in [Locks -> Harts \cup {None}]
    /\ intr \in [Harts -> BOOLEAN]
    /\ depth \in [Harts -> 0 .. 3]
    /\ prev \in [Harts -> BOOLEAN]
    /\ proc \in [Harts -> Threads \cup {None}]
    /\ state \in [Threads -> {"RUNNABLE", "RUNNING", "SLEEPING"}]
    /\ saved \in [Threads -> BOOLEAN]
    /\ \A c \in Contexts : /\ Len(stack[c]) \in {1, 2}
                           /\ \A k \in DOMAIN stack[c] : stack[c][k] \in Frame
    /\ holders \in [Locks -> SUBSET Harts]

\* A lock has one holder, and no process runs on two harts.
MutualExclusion ==
    /\ \A l \in Locks : \A g, h \in holders[l] : g = h
    /\ \A g, h \in Harts : proc[g] = proc[h] /\ proc[g] # None => g = h

\* None of the panics of acquire_lock(), release_lock(), lock_intr_enable()
\* and scheduler() is reached: is_holding() reads two fields that other harts
\* are writing and is right all the same, the depth counts the locks this
\* hart has, and a process leaves its hart with its own lock and no other.
NeverPanics ==
    \A h \in Harts :
        /\ Doing(h, "off") => ~is_holding(h, Top(h).lk)
        /\ Doing(h, "check") => is_holding(h, Top(h).lk)
        /\ Doing(h, "free") => ~intr[h] /\ depth[h] > 0
        /\ At(h, "asleep") \/ At(h, "yield") => MayLeave(h)

\* With no lock held, interrupts are as the running code had them before: on
\* in a system call, off in a handler and on the way to user mode, although
\* the flag is kept per hart and the process may have changed harts.
IntrRestored ==
    \A h \in Harts :
        depth[h] = 0 /\ proc[h] # None =>
            /\ Top(h).rt \in {"call", "ticks", "relock"} => intr[h]
            /\ Top(h).rt \in {"user", "intr", "wake", "woken", "yield", "done"} => ~intr[h]

\* Locks are taken in one order, tickslock before a process lock and never
\* two process locks, so that harts cannot wait for each other in a circle.
LockOrder ==
    \A h \in Harts :
        Doing(h, "spin") =>
            \A l \in Locks : h \in holders[l] => l = Tick /\ Top(h).lk # Tick

=============================================================================
