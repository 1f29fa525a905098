------------------------------ MODULE Process ------------------------------
(***************************************************************************)
(* The process table, the scheduler and the system calls that manage       *)
(* processes: kernel/process.c, the trap handlers of kernel/trap.c and the *)
(* process calls of kernel/sysproc.c.                                      *)
(*                                                                         *)
(* Only hart 0 leaves enter() for cpu_scheduler() (kernel.c starts no      *)
(* other hart), so a region that runs under a spinlock, hence with         *)
(* interrupts off, is atomic: one action is one such outermost region.     *)
(* Between two regions interrupts are on, the timer may fire and ktrap()   *)
(* yields, so every point between two regions is a program point here.     *)
(*                                                                         *)
(* pc[s] is where the context saved in slot s resumes; it belongs to the   *)
(* slot and not to the process because alloc_process() resets it there.    *)
(*   forkret  first activation        user    in user mode                 *)
(*   alloc    fork(): scanning for a slot     link   before wait_lock      *)
(*   ready    fork(): before np becomes RUNNABLE                           *)
(*   wait     wait(): before wait_lock        kill   kill(): scanning      *)
(*   sleep0   sys_sleep(): before tickslock   sleep  in its loop           *)
(*   exit     exit(): before wait_lock        dead   after exit's last     *)
(*   ret      call done, before the second killed test of utrap()          *)
(*   panic    spinning in panic() with interrupts on                       *)
(***************************************************************************)
EXTENDS Integers, FiniteSets

CONSTANTS
    MAXPROC,    \* slots of the process table
    MaxPid,     \* bound: process ids handed out in a behaviour
    MaxTicks,   \* bound: argument of sys_sleep
    KillIds     \* bound: arguments of kill

ASSUME ProcessAssumption ==
    /\ MAXPROC \in Nat \ {0}
    /\ MaxPid \in Nat \ {0}
    /\ MaxTicks \in Nat
    /\ KillIds \subseteq Nat

Slots == 0 .. MAXPROC - 1
Null == -1          \* the null pointer, as a parent, a channel or cpu->proc
TicksChan == -2     \* &ticks; the channel of wait() is the slot itself
initproc == 0       \* init_user() takes the first slot

ProcState == {"UNUSED", "SLEEPING", "RUNNABLE", "RUNNING", "ZOMBIE"}
Points == {"forkret", "user", "alloc", "link", "ready", "wait", "kill",
           "sleep0", "sleep", "exit", "dead", "ret", "panic"}

VARIABLES
    state, pid, parent, chan, killed,   \* struct process, per slot
    pc,         \* struct process.context, per slot
    loc,        \* the handler's local: scan index, np, or ticks left
    target,     \* kill()'s argument
    cpu_proc,   \* cpus[0].proc
    next,       \* the slot cpu_scheduler() looks at next
    nextpid,
    halted      \* panic() with interrupts off: nothing runs any more

table == <<state, pid, parent, chan, killed>>
locals == <<loc, target>>
vars == <<state, pid, parent, chan, killed, pc, loc, target,
          cpu_proc, next, nextpid, halted>>

-----------------------------------------------------------------------------
\* State after init_user(): slot 0 holds initcode, ready to run.
Init ==
    /\ state = [s \in Slots |-> IF s = initproc THEN "RUNNABLE" ELSE "UNUSED"]
    /\ pid = [s \in Slots |-> IF s = initproc THEN 1 ELSE 0]
    /\ parent = [s \in Slots |-> Null]
    /\ chan = [s \in Slots |-> Null]
    /\ killed = [s \in Slots |-> FALSE]
    /\ pc = [s \in Slots |-> "forkret"]
    /\ loc = [s \in Slots |-> 0]
    /\ target = [s \in Slots |-> 0]
    /\ cpu_proc = Null
    /\ next = 0
    /\ nextpid = 2
    /\ halted = FALSE

-----------------------------------------------------------------------------
\* The process in slot s is on the hart, at point p.
At(s, p) == ~halted /\ cpu_proc = s /\ pc[s] = p

Goto(s, p) == pc' = [pc EXCEPT ![s] = p]

\* wakeup(ch): every other process asleep on ch becomes RUNNABLE.
wakeup(st, ch) ==
    [x \in Slots |-> IF x # cpu_proc /\ st[x] = "SLEEPING" /\ chan[x] = ch
                     THEN "RUNNABLE" ELSE st[x]]

\* sleep(ch, lock) up to the switch: the caller's lock is dropped with the
\* process lock held, so no wakeup() falls between the test and the switch.
sleep(s, ch) ==
    /\ chan' = [chan EXCEPT ![s] = ch]
    /\ state' = [state EXCEPT ![s] = "SLEEPING"]
    /\ cpu_proc' = Null

\* exit() is entered; init may not exit. intr: interrupts are on, so the
\* panic loop is preemptible.
exit_enter(s, intr) ==
    \/ /\ s # initproc
       /\ Goto(s, "exit")
       /\ UNCHANGED halted
    \/ /\ s = initproc
       /\ Goto(s, "panic")
       /\ halted' = ~intr

-----------------------------------------------------------------------------
\* Faulty variant: the scan starts over after each process it has run.
cpu_scheduler_run_restart ==
    /\ ~halted
    /\ cpu_proc = Null
    /\ state[next] = "RUNNABLE"
    /\ state' = [state EXCEPT ![next] = "RUNNING"]
    /\ cpu_proc' = next
    /\ next' = 0
    /\ chan' = [chan EXCEPT ![next] = Null]
    /\ pc' = [pc EXCEPT ![next] = IF @ = "forkret" THEN "user" ELSE @]
    /\ halted' = (pc[next] = "dead")
    /\ UNCHANGED <<pid, parent, killed, loc, target, nextpid>>

\* cpu_scheduler(): look at one slot; run it if RUNNABLE. The process keeps
\* its lock until it is past forkret(), sleep() or yield_process(), which is
\* part of the same region; exit() panics if it is ever resumed.
cpu_scheduler_run ==
    /\ ~halted
    /\ cpu_proc = Null
    /\ state[next] = "RUNNABLE"
    /\ state' = [state EXCEPT ![next] = "RUNNING"]
    /\ cpu_proc' = next
    /\ next' = (next + 1) % MAXPROC
    /\ chan' = [chan EXCEPT ![next] = Null]
    /\ pc' = [pc EXCEPT ![next] = IF @ = "forkret" THEN "user" ELSE @]
    /\ halted' = (pc[next] = "dead")
    /\ UNCHANGED <<pid, parent, killed, loc, target, nextpid>>

cpu_scheduler_skip ==
    /\ ~halted
    /\ cpu_proc = Null
    /\ state[next] # "RUNNABLE"
    /\ next' = (next + 1) % MAXPROC
    /\ UNCHANGED <<state, pid, parent, chan, killed, pc, loc, target,
                   cpu_proc, nextpid, halted>>

\* ticks++ seen from the loop of sys_sleep(): one tick less to wait for.
TickDown == [x \in Slots |-> IF pc[x] = "sleep" /\ loc[x] > 0
                             THEN loc[x] - 1 ELSE loc[x]]

\* A timer interrupt while the scheduler runs: no process to preempt.
timer_idle ==
    /\ ~halted
    /\ cpu_proc = Null
    /\ state' = wakeup(state, TicksChan)
    /\ loc' = TickDown
    /\ UNCHANGED <<pid, parent, chan, killed, pc, target, cpu_proc, next,
                   nextpid, halted>>

\* Faulty variant: the interrupted process is left RUNNING.
timer_yield_keeps_state(s) ==
    /\ ~halted
    /\ cpu_proc = s
    /\ ~(pc[s] = "user" /\ killed[s])
    /\ state' = wakeup(state, TicksChan)
    /\ loc' = TickDown
    /\ cpu_proc' = Null
    /\ UNCHANGED <<pid, parent, chan, killed, pc, target, next, nextpid,
                   halted>>

\* A timer interrupt in process s, from user mode (utrap) or between two
\* regions of the kernel (ktrap): wake the sleepers, then yield_process().
timer_yield(s) ==
    /\ ~halted
    /\ cpu_proc = s
    /\ ~(pc[s] = "user" /\ killed[s])
    /\ state' = [wakeup(state, TicksChan) EXCEPT ![s] = "RUNNABLE"]
    /\ loc' = TickDown
    /\ cpu_proc' = Null
    /\ UNCHANGED <<pid, parent, chan, killed, pc, target, next, nextpid,
                   halted>>

\* The same interrupt from user mode when the process has been killed.
timer_killed(s) ==
    /\ At(s, "user")
    /\ killed[s]
    /\ state' = wakeup(state, TicksChan)
    /\ loc' = TickDown
    /\ exit_enter(s, FALSE)
    /\ UNCHANGED <<pid, parent, chan, killed, target, cpu_proc, next, nextpid>>

\* An exception in user mode that is neither a call nor an interrupt.
user_fault(s) ==
    /\ At(s, "user")
    /\ killed' = [killed EXCEPT ![s] = TRUE]
    /\ exit_enter(s, FALSE)
    /\ UNCHANGED <<state, pid, parent, chan, loc, target, cpu_proc, next,
                   nextpid>>

-----------------------------------------------------------------------------
\* Entry of a system call: handle_syscall() reached from utrap().
Enter(s, p) ==
    /\ At(s, "user")
    /\ ~killed[s]
    /\ Goto(s, p)
    /\ UNCHANGED <<table, cpu_proc, next, nextpid, halted>>

\* Ids not yet handed out, not counting forks under way.
PidsLeft == MaxPid + 1 - nextpid - Cardinality({s \in Slots : pc[s] = "alloc"})

sys_fork(s) ==
    /\ PidsLeft > 0
    /\ Enter(s, "alloc")
    /\ loc' = [loc EXCEPT ![s] = 0]
    /\ UNCHANGED target

sys_wait(s) == Enter(s, "wait") /\ UNCHANGED locals

sys_kill(s, id) ==
    /\ Enter(s, "kill")
    /\ loc' = [loc EXCEPT ![s] = 0]
    /\ target' = [target EXCEPT ![s] = id]

sys_sleep(s, n) ==
    /\ Enter(s, "sleep0")
    /\ loc' = [loc EXCEPT ![s] = n]
    /\ UNCHANGED target

\* getpid, uptime: nothing of this component changes.
sys_query(s) == Enter(s, "ret") /\ UNCHANGED locals

sys_exit(s) ==
    /\ At(s, "user")
    /\ ~killed[s]
    /\ exit_enter(s, TRUE)
    /\ UNCHANGED <<table, locals, cpu_proc, next, nextpid>>

\* utrap(): the first killed test, before interrupts are enabled.
syscall_killed(s) ==
    /\ At(s, "user")
    /\ killed[s]
    /\ exit_enter(s, FALSE)
    /\ UNCHANGED <<table, locals, cpu_proc, next, nextpid>>

\* utrap(): the second killed test, then utrapret().
syscall_return(s) ==
    /\ At(s, "ret")
    /\ \/ killed[s] /\ exit_enter(s, TRUE)
       \/ ~killed[s] /\ Goto(s, "user") /\ UNCHANGED halted
    /\ loc' = [loc EXCEPT ![s] = 0]
    /\ target' = [target EXCEPT ![s] = 0]
    /\ UNCHANGED <<table, cpu_proc, next, nextpid>>

-----------------------------------------------------------------------------
\* alloc_process(): one slot of the scan.
alloc_next(s) ==
    /\ At(s, "alloc")
    /\ loc[s] < MAXPROC
    /\ state[loc[s]] # "UNUSED"
    /\ loc' = [loc EXCEPT ![s] = @ + 1]
    /\ UNCHANGED <<table, pc, target, cpu_proc, next, nextpid, halted>>

\* The scan finds nothing: fork() returns -1.
alloc_fail(s) ==
    /\ At(s, "alloc")
    /\ loc[s] = MAXPROC
    /\ Goto(s, "ret")
    /\ UNCHANGED <<table, locals, cpu_proc, next, nextpid, halted>>

\* Faulty variant: alloc_pid() forgets to advance nextpid.
fork_alloc_same_pid(s) ==
    /\ At(s, "alloc")
    /\ loc[s] < MAXPROC
    /\ state[loc[s]] = "UNUSED"
    /\ pid' = [pid EXCEPT ![loc[s]] = nextpid]
    /\ pc' = [pc EXCEPT ![s] = "link", ![loc[s]] = "forkret"]
    /\ UNCHANGED <<state, parent, chan, killed, locals, cpu_proc, next, nextpid,
                   halted>>

\* The scan finds a slot; fork() fills it and drops its lock. The state is
\* still UNUSED. kalloc() panics rather than return 0, so the error returns
\* of this path are never taken.
fork_alloc(s) ==
    /\ At(s, "alloc")
    /\ loc[s] < MAXPROC
    /\ state[loc[s]] = "UNUSED"
    /\ pid' = [pid EXCEPT ![loc[s]] = nextpid]
    /\ nextpid' = nextpid + 1
    /\ pc' = [pc EXCEPT ![s] = "link", ![loc[s]] = "forkret"]
    /\ UNCHANGED <<state, parent, chan, killed, locals, cpu_proc, next, halted>>

\* fork(): np->parent = p under wait_lock.
fork_link(s) ==
    /\ At(s, "link")
    /\ parent' = [parent EXCEPT ![loc[s]] = s]
    /\ Goto(s, "ready")
    /\ UNCHANGED <<state, pid, chan, killed, locals, cpu_proc, next, nextpid,
                   halted>>

\* fork(): np->state = RUNNABLE under np->lock.
fork_ready(s) ==
    /\ At(s, "ready")
    /\ state' = [state EXCEPT ![loc[s]] = "RUNNABLE"]
    /\ Goto(s, "ret")
    /\ UNCHANGED <<pid, parent, chan, killed, locals, cpu_proc, next, nextpid,
                   halted>>

-----------------------------------------------------------------------------
\* Faulty variant: wait() takes any process that has a parent for a child.
Kids_any(s) == {c \in s .. MAXPROC - 1 : parent[c] # Null}

\* The children wait() sees: its scan starts at the caller's own slot.
Kids(s) == {c \in s .. MAXPROC - 1 : parent[c] = s}
DeadKids(s) == {c \in Kids(s) : state[c] = "ZOMBIE"}

\* wait(): the first dead child in scan order is freed (freeproc).
wait_reap(s) ==
    /\ At(s, "wait")
    /\ \E c \in DeadKids(s) :
         /\ \A d \in DeadKids(s) : c <= d
         /\ state' = [state EXCEPT ![c] = "UNUSED"]
         /\ pid' = [pid EXCEPT ![c] = 0]
         /\ parent' = [parent EXCEPT ![c] = Null]
         /\ chan' = [chan EXCEPT ![c] = Null]
         /\ killed' = [killed EXCEPT ![c] = FALSE]
    /\ Goto(s, "ret")
    /\ UNCHANGED <<locals, cpu_proc, next, nextpid, halted>>

\* wait(): copyout() of the status fails; the child stays a zombie.
wait_badaddr(s) ==
    /\ At(s, "wait")
    /\ DeadKids(s) # {}
    /\ Goto(s, "ret")
    /\ UNCHANGED <<table, locals, cpu_proc, next, nextpid, halted>>

\* wait(): no child in sight, or killed: return -1.
wait_none(s) ==
    /\ At(s, "wait")
    /\ DeadKids(s) = {}
    /\ Kids(s) = {} \/ killed[s]
    /\ Goto(s, "ret")
    /\ UNCHANGED <<table, locals, cpu_proc, next, nextpid, halted>>

\* wait(): wait for a child to exit. The scan runs as far past the table as
\* the caller's slot is from its start; memory there may look like a child
\* that has not exited (ghost).
wait_sleep(s) ==
    /\ At(s, "wait")
    /\ DeadKids(s) = {}
    /\ ~killed[s]
    /\ \E ghost \in BOOLEAN :
         /\ ghost => s # 0
         /\ Kids(s) # {} \/ ghost
    /\ sleep(s, s)
    /\ UNCHANGED <<pid, parent, killed, pc, locals, next, nextpid, halted>>

-----------------------------------------------------------------------------
\* kill(): one slot of the scan.
kill_next(s) ==
    /\ At(s, "kill")
    /\ loc[s] < MAXPROC
    /\ pid[loc[s]] # target[s]
    /\ loc' = [loc EXCEPT ![s] = @ + 1]
    /\ UNCHANGED <<table, pc, target, cpu_proc, next, nextpid, halted>>

kill_fail(s) ==
    /\ At(s, "kill")
    /\ loc[s] = MAXPROC
    /\ Goto(s, "ret")
    /\ UNCHANGED <<table, locals, cpu_proc, next, nextpid, halted>>

\* Faulty variant: the victim is marked but a sleeping one is not woken.
kill_found_no_wake(s) ==
    /\ At(s, "kill")
    /\ loc[s] < MAXPROC
    /\ pid[loc[s]] = target[s]
    /\ killed' = [killed EXCEPT ![loc[s]] = TRUE]
    /\ Goto(s, "ret")
    /\ UNCHANGED <<state, pid, parent, chan, locals, cpu_proc, next, nextpid,
                   halted>>

kill_found(s) ==
    /\ At(s, "kill")
    /\ loc[s] < MAXPROC
    /\ pid[loc[s]] = target[s]
    /\ killed' = [killed EXCEPT ![loc[s]] = TRUE]
    /\ state' = [state EXCEPT ![loc[s]] =
                   IF @ = "SLEEPING" THEN "RUNNABLE" ELSE @]
    /\ Goto(s, "ret")
    /\ UNCHANGED <<pid, parent, chan, locals, cpu_proc, next, nextpid, halted>>

-----------------------------------------------------------------------------
\* sys_sleep(): the loop under tickslock.
sleep_done(s) ==
    /\ At(s, "sleep0") \/ At(s, "sleep")
    /\ loc[s] = 0 \/ killed[s]
    /\ Goto(s, "ret")
    /\ UNCHANGED <<table, locals, cpu_proc, next, nextpid, halted>>

sleep_wait(s) ==
    /\ At(s, "sleep0") \/ At(s, "sleep")
    /\ loc[s] > 0
    /\ ~killed[s]
    /\ sleep(s, TicksChan)
    /\ Goto(s, "sleep")
    /\ UNCHANGED <<pid, parent, killed, locals, next, nextpid, halted>>

-----------------------------------------------------------------------------
\* reparent(p): the argument is the table itself, that is slot 0, not the
\* process that exits.
reparent_to_init == [c \in Slots |-> IF parent[c] = 0 THEN initproc ELSE parent[c]]
reparent_wakes(st) == IF \E c \in Slots : parent[c] = 0
                      THEN wakeup(st, initproc) ELSE st

\* Faulty variant: the parent is not told.
exit_zombie_silent(s) ==
    /\ At(s, "exit")
    /\ parent' = reparent_to_init
    /\ state' = [reparent_wakes(state) EXCEPT ![s] = "ZOMBIE"]
    /\ cpu_proc' = Null
    /\ Goto(s, "dead")
    /\ UNCHANGED <<pid, chan, killed, locals, next, nextpid, halted>>

\* exit() from wait_lock to the switch. Closing files and begin_op() come
\* before, may block, and leave the process table alone.
exit_zombie(s) ==
    /\ At(s, "exit")
    /\ parent' = reparent_to_init
    /\ state' = [wakeup(reparent_wakes(state), parent'[s])
                   EXCEPT ![s] = "ZOMBIE"]
    /\ cpu_proc' = Null
    /\ Goto(s, "dead")
    /\ UNCHANGED <<pid, chan, killed, locals, next, nextpid, halted>>

\* panic() with interrupts off: the hart spins in while (1).
panic == halted /\ UNCHANGED vars

-----------------------------------------------------------------------------
Scheduler == cpu_scheduler_run \/ cpu_scheduler_skip

Timer == timer_idle \/ \E s \in Slots : timer_yield(s) \/ timer_killed(s)

UserStep(s) ==
    \/ sys_fork(s) \/ sys_wait(s) \/ sys_query(s) \/ sys_exit(s)
    \/ \E id \in KillIds : sys_kill(s, id)
    \/ \E n \in 0 .. MaxTicks : sys_sleep(s, n)
    \/ syscall_killed(s)
    \/ user_fault(s)

KernelStep(s) ==
    \/ alloc_next(s) \/ alloc_fail(s) \/ fork_alloc(s)
    \/ fork_link(s) \/ fork_ready(s)
    \/ wait_reap(s) \/ wait_badaddr(s) \/ wait_none(s) \/ wait_sleep(s)
    \/ kill_next(s) \/ kill_fail(s) \/ kill_found(s)
    \/ sleep_done(s) \/ sleep_wait(s)
    \/ exit_zombie(s)
    \/ syscall_return(s)

Next ==
    \/ Scheduler
    \/ Timer
    \/ \E s \in Slots : UserStep(s) \/ KernelStep(s)
    \/ panic

Spec == Init /\ [][Next]_vars

\* The hart keeps executing and the timer keeps firing. A process that gets
\* the hart again and again completes its region: a timer interval is far
\* longer than any region.
Fairness ==
    /\ WF_vars(Scheduler)
    /\ WF_vars(Timer)
    /\ \A s \in Slots : SF_vars(KernelStep(s))

FairSpec == Spec /\ Fairness

-----------------------------------------------------------------------------
\* Types of the process table, the saved contexts and the scheduler's state.
TypeOK ==
    /\ state \in [Slots -> ProcState]
    /\ pid \in [Slots -> Nat]
    /\ parent \in [Slots -> Slots \cup {Null}]
    /\ chan \in [Slots -> Slots \cup {Null, TicksChan}]
    /\ killed \in [Slots -> BOOLEAN]
    /\ pc \in [Slots -> Points]
    /\ loc \in [Slots -> Nat]
    /\ target \in [Slots -> Nat]
    /\ cpu_proc \in Slots \cup {Null}
    /\ next \in Slots
    /\ nextpid \in Nat
    /\ halted \in BOOLEAN

\* What scheduler() asserts of its caller and cpu_scheduler() relies on, over
\* every interleaving of fork, exit, kill, wakeup and preemption: a slot is
\* RUNNING exactly while it is cpu->proc. In particular no late write of
\* RUNNABLE by fork(), kill() or wakeup() hits the process on the hart.
RunningIsCurrent == \A s \in Slots : state[s] = "RUNNING" <=> cpu_proc = s

\* Sleep and wakeup lose no event: whoever is asleep in wait() has no dead
\* child its scan would find, whoever is asleep in sys_sleep() still has
\* ticks to go, and neither has been killed.
NoLostWakeup ==
    \A s \in Slots : state[s] = "SLEEPING" =>
        /\ ~killed[s]
        /\ chan[s] = s => DeadKids(s) = {}
        /\ chan[s] = TicksChan => loc[s] > 0

\* kill() acts on at most one process: two slots never carry the same id.
PidsUnique ==
    \A s, t \in Slots : s # t /\ pid[s] # 0 => pid[s] # pid[t]

\* The slot a fork is filling is not the forking process's own.
ForkTarget ==
    \A s \in Slots : pc[s] \in {"link", "ready"} => loc[s] # s

\* Ids in use have been handed out.
PidsBelow == \A s \in Slots : pid[s] < nextpid

\* A process keeps its id from its first run until its parent reaps it:
\* alloc_process() never takes the slot of a live process, and only wait()
\* in the recorded parent gives a dead one's slot back.
IdentityStable ==
    [][\A s \in Slots : pid'[s] # pid[s] =>
          \/ state[s] = "UNUSED"
          \/ state[s] = "ZOMBIE" /\ cpu_proc = parent[s]]_vars

\* Round robin: a RUNNABLE process gets the hart, unless the kernel panics.
RunnableRuns ==
    \A s \in Slots : state[s] = "RUNNABLE" ~> (state[s] = "RUNNING" \/ halted)

\* A killed process comes out of wait(), sys_sleep() or user mode and exits.
KilledExits ==
    \A s \in Slots : (killed[s] /\ state[s] # "UNUSED") ~>
        (state[s] \in {"ZOMBIE", "UNUSED"} \/ pc[s] = "panic" \/ halted)

(***************************************************************************)
(* What comments of the code say and the code does not do: these three     *)
(* have counterexamples in the instance of MCProcess, given in README.md.  *)
(***************************************************************************)

\* "Jump into the scheduler, never to return." (exit): an exited process is
\* never resumed, so the panic behind that call is unreachable.
ExitNeverReturns == \A s \in Slots : pc[s] = "dead" => state[s] # "RUNNING"

\* "Give any children to init." (exit): no process is left with a parent
\* that has exited.
ChildrenGivenToInit ==
    \A s \in Slots : parent[s] # Null /\ state[s] # "UNUSED" =>
        state[parent[s]] \notin {"ZOMBIE", "UNUSED"}

\* "No point waiting if we don't have any children." (wait): it fails, for a
\* process nobody killed, only if there is no child.
WaitFailsOnlyIfChildless ==
    [][\A s \in Slots :
          (wait_none(s) /\ ~killed[s]) => \A c \in Slots : parent[c] # s]_vars

=============================================================================
