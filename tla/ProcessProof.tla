---------------------------- MODULE ProcessProof ----------------------------
(***************************************************************************)
(* Proofs about Process for every size of the process table.               *)
(***************************************************************************)
EXTENDS Process, TLAPS

\* The two Boolean parts of the state, apart from the rest of TypeOK: the
\* provers take them one at a time.
BoolOK == killed \in [Slots -> BOOLEAN] /\ halted \in BOOLEAN

TableOK ==
    /\ state \in [Slots -> ProcState]
    /\ pid \in [Slots -> Nat]
    /\ parent \in [Slots -> Slots \cup {Null}]
    /\ chan \in [Slots -> Slots \cup {Null, TicksChan}]
    /\ pc \in [Slots -> Points]
    /\ loc \in [Slots -> Nat]
    /\ target \in [Slots -> Nat]
    /\ cpu_proc \in Slots \cup {Null}
    /\ next \in Slots
    /\ nextpid \in Nat

\* TypeOK in a part for SMT and a Boolean part for Zenon.
LEMMA TypeParts == TypeOK <=> TableOK /\ BoolOK
  BY DEF TypeOK, TableOK, BoolOK

\* The steps of Next, one per region of the code.
LEMMA NextCases ==
    ASSUME Next
    PROVE  \/ cpu_scheduler_run \/ cpu_scheduler_skip \/ timer_idle \/ panic
           \/ \E s \in Slots :
                \/ timer_yield(s) \/ timer_killed(s)
                \/ UserStep(s) \/ KernelStep(s)
  BY DEF Next, Scheduler, Timer

\* The scans wrap around inside the table.
LEMMA NextSlot == ASSUME NEW x \in Slots PROVE (x + 1) % MAXPROC \in Slots
  BY ProcessAssumption DEF Slots

\* Every step keeps the types of the process table.
LEMMA TableStep == TableOK /\ [Next]_vars => TableOK'
<1> SUFFICES ASSUME TableOK, [Next]_vars PROVE TableOK'
  OBVIOUS
<1> USE ProcessAssumption DEF TableOK
<1>1. CASE cpu_scheduler_run
  BY <1>1, NextSlot DEF cpu_scheduler_run, ProcState, Points
<1>2. CASE cpu_scheduler_skip
  BY <1>2, NextSlot DEF cpu_scheduler_skip
<1>3. CASE timer_idle
  BY <1>3 DEF timer_idle, wakeup, TickDown, ProcState
<1>4. ASSUME NEW s \in Slots, timer_yield(s) PROVE TableOK'
  BY <1>4 DEF timer_yield, wakeup, TickDown, ProcState
<1>5. ASSUME NEW s \in Slots, timer_killed(s) PROVE TableOK'
  BY <1>5 DEF timer_killed, wakeup, TickDown, exit_enter, Goto, ProcState, Points
<1>6. ASSUME NEW s \in Slots, UserStep(s) PROVE TableOK'
  BY <1>6 DEF UserStep, sys_fork, sys_wait, sys_query, sys_exit, sys_kill,
              sys_sleep, syscall_killed, user_fault, exit_enter, Enter,
              table, locals, Goto, Points
<1>7. ASSUME NEW s \in Slots, KernelStep(s) PROVE TableOK'
  <2> USE DEF Goto, table, locals, ProcState, Points
  <2>1. CASE alloc_next(s) \/ alloc_fail(s) \/ fork_alloc(s) \/ fork_link(s)
             \/ fork_ready(s)
    BY <2>1 DEF alloc_next, alloc_fail, fork_alloc, fork_link, fork_ready
  <2>2. CASE wait_reap(s)
    <3>1. PICK c \in DeadKids(s) :
            /\ state' = [state EXCEPT ![c] = "UNUSED"]
            /\ pid' = [pid EXCEPT ![c] = 0]
            /\ parent' = [parent EXCEPT ![c] = Null]
            /\ chan' = [chan EXCEPT ![c] = Null]
      BY <2>2 DEF wait_reap
    <3>2. QED
      BY <2>2, <3>1 DEF wait_reap
  <2>3. CASE wait_badaddr(s) \/ wait_none(s) \/ wait_sleep(s)
    BY <2>3 DEF wait_badaddr, wait_none, wait_sleep, sleep
  <2>4. CASE kill_next(s) \/ kill_fail(s) \/ kill_found(s)
    BY <2>4 DEF kill_next, kill_fail, kill_found
  <2>5. CASE sleep_done(s) \/ sleep_wait(s)
    BY <2>5 DEF sleep_done, sleep_wait, sleep
  <2>6. CASE exit_zombie(s)
    <3>1. initproc \in Slots
      BY DEF initproc, Slots
    <3>2. parent' \in [Slots -> Slots \cup {Null}]
      BY <2>6, <3>1 DEF exit_zombie, reparent_to_init
    <3>3. reparent_wakes(state) \in [Slots -> ProcState]
      BY DEF reparent_wakes, wakeup
    <3>4. wakeup(reparent_wakes(state), parent'[s]) \in [Slots -> ProcState]
      BY <3>3 DEF wakeup
    <3>5. QED
      BY <2>6, <3>2, <3>4 DEF exit_zombie
  <2>7. CASE syscall_return(s)
    BY <2>7 DEF syscall_return, exit_enter
  <2>8. QED
    BY <1>7, <2>1, <2>2, <2>3, <2>4, <2>5, <2>6, <2>7 DEF KernelStep
<1>8. CASE panic
  BY <1>8 DEF panic, vars
<1>9. CASE UNCHANGED vars
  BY <1>9 DEF vars
<1>10. QED
  BY <1>1, <1>2, <1>3, <1>4, <1>5, <1>6, <1>7, <1>8, <1>9, NextCases

\* Every step keeps killed and halted Boolean.
LEMMA BoolStep == BoolOK /\ [Next]_vars => BoolOK'
<1> SUFFICES ASSUME BoolOK, [Next]_vars PROVE BoolOK'
  OBVIOUS
<1> USE DEF BoolOK
<1>1. CASE cpu_scheduler_run
  BY <1>1 DEF cpu_scheduler_run
<1>2. CASE cpu_scheduler_skip \/ timer_idle \/ panic
  BY <1>2 DEF cpu_scheduler_skip, timer_idle, panic, vars
<1>3. ASSUME NEW s \in Slots, timer_yield(s) \/ timer_killed(s) PROVE BoolOK'
  BY <1>3 DEF timer_yield, timer_killed, exit_enter
<1>4. ASSUME NEW s \in Slots, UserStep(s) PROVE BoolOK'
  <2>1. CASE user_fault(s)
    BY <2>1 DEF user_fault, exit_enter
  <2>2. CASE sys_exit(s) \/ syscall_killed(s)
    BY <2>2 DEF sys_exit, syscall_killed, exit_enter, table
  <2>3. ASSUME NEW q, Enter(s, q) PROVE BoolOK'
    BY <2>3 DEF Enter, table
  <2>4. QED
    BY <1>4, <2>1, <2>2, <2>3
       DEF UserStep, sys_fork, sys_wait, sys_query, sys_kill, sys_sleep
<1>5. ASSUME NEW s \in Slots, KernelStep(s) PROVE BoolOK'
  <2>1. CASE kill_found(s)
    BY <2>1 DEF kill_found
  <2>2. CASE wait_reap(s)
    BY <2>2 DEF wait_reap
  <2>3. CASE syscall_return(s)
    BY <2>3 DEF syscall_return, exit_enter, table
  <2>4. CASE UNCHANGED <<killed, halted>>
    BY <2>4
  <2>5. QED
    BY <1>5, <2>1, <2>2, <2>3, <2>4
       DEF KernelStep, alloc_next, alloc_fail, fork_alloc, fork_link,
           fork_ready, wait_badaddr, wait_none, wait_sleep, kill_next,
           kill_fail, sleep_done, sleep_wait, exit_zombie, table
<1>6. CASE UNCHANGED vars
  BY <1>6 DEF vars
<1>7. QED
  BY <1>1, <1>2, <1>3, <1>4, <1>5, <1>6, NextCases

\* The process table, the saved contexts and the scheduler's state keep their
\* types for any number of slots.
THEOREM TypeCorrect == Spec => []TypeOK
<1>1. Init => TableOK
  BY ProcessAssumption DEF Init, TableOK, Slots, Null, TicksChan, initproc,
     ProcState, Points
<1>2. Init => BoolOK
  BY DEF Init, BoolOK
<1>3. QED
  BY <1>1, <1>2, TableStep, BoolStep, TypeParts, PTL DEF Spec

-----------------------------------------------------------------------------
\* RunningIsCurrent is inductive together with ForkTarget: fork_ready() sets
\* the state of the slot in loc, which must not be the running one.
RunInv == RunningIsCurrent /\ ForkTarget

\* The channel and the null pointer are no slots; init's slot is one.
LEMMA SlotFacts == /\ Null \notin Slots
                   /\ TicksChan \notin Slots
                   /\ TicksChan # Null
                   /\ initproc \in Slots
  BY ProcessAssumption DEF Slots, Null, TicksChan, initproc

\* wakeup() makes sleepers RUNNABLE, all of those on the channel but the
\* caller, and changes nothing else.
LEMMA WakeupEffect ==
    ASSUME NEW st \in [Slots -> ProcState], NEW ch
    PROVE  /\ wakeup(st, ch) \in [Slots -> ProcState]
           /\ \A x \in Slots :
                /\ \/ wakeup(st, ch)[x] = st[x]
                   \/ st[x] = "SLEEPING" /\ wakeup(st, ch)[x] = "RUNNABLE"
                /\ x # cpu_proc /\ chan[x] = ch => wakeup(st, ch)[x] # "SLEEPING"
  BY DEF wakeup, ProcState

\* The wakeup(&ticks) of the timer interrupt.
LEMMA TimerEffect ==
    ASSUME TypeOK
    PROVE  /\ wakeup(state, TicksChan) \in [Slots -> ProcState]
           /\ \A x \in Slots :
                /\ \/ wakeup(state, TicksChan)[x] = state[x]
                   \/ /\ state[x] = "SLEEPING"
                      /\ wakeup(state, TicksChan)[x] = "RUNNABLE"
                /\ x # cpu_proc /\ chan[x] = TicksChan =>
                     wakeup(state, TicksChan)[x] # "SLEEPING"
  BY WakeupEffect DEF TypeOK

\* The two wakeups of exit() together.
LEMMA ExitEffect ==
    ASSUME state \in [Slots -> ProcState], NEW ch,
           NEW st, st = wakeup(reparent_wakes(state), ch)
    PROVE  /\ st \in [Slots -> ProcState]
           /\ \A x \in Slots :
                /\ st[x] = state[x] \/ (state[x] = "SLEEPING" /\ st[x] = "RUNNABLE")
                /\ x # cpu_proc /\ chan[x] = ch => st[x] # "SLEEPING"
<1>1. CASE \E c \in Slots : parent[c] = 0
  <2>1. reparent_wakes(state) = wakeup(state, initproc)
    BY <1>1 DEF reparent_wakes
  <2>2. /\ wakeup(state, initproc) \in [Slots -> ProcState]
        /\ \A x \in Slots :
             \/ wakeup(state, initproc)[x] = state[x]
             \/ state[x] = "SLEEPING" /\ wakeup(state, initproc)[x] = "RUNNABLE"
    BY WakeupEffect
  <2>3. QED
    BY <2>1, <2>2, WakeupEffect
<1>2. CASE ~ \E c \in Slots : parent[c] = 0
  BY <1>2, WakeupEffect DEF reparent_wakes
<1>3. QED
  BY <1>1, <1>2

\* Every step keeps RUNNING and cpu->proc together.
LEMMA RunStep == TypeOK /\ RunInv /\ [Next]_vars => RunInv'
<1> SUFFICES ASSUME TypeOK, RunInv, [Next]_vars PROVE RunInv'
  OBVIOUS
<1> USE SlotFacts DEF RunInv, RunningIsCurrent, ForkTarget
<1>0. TableOK
  BY TypeParts
<1>1. CASE cpu_scheduler_run
  BY <1>0, <1>1 DEF cpu_scheduler_run, TableOK, ProcState, Points
<1>2. CASE cpu_scheduler_skip
  BY <1>2 DEF cpu_scheduler_skip
<1>3. CASE timer_idle
  BY <1>0, <1>3, WakeupEffect DEF timer_idle, TickDown, TableOK
<1>4. ASSUME NEW s \in Slots, timer_yield(s) PROVE RunInv'
  BY <1>0, <1>4, WakeupEffect DEF timer_yield, TickDown, TableOK
<1>5. ASSUME NEW s \in Slots, timer_killed(s) PROVE RunInv'
  BY <1>0, <1>5, WakeupEffect DEF timer_killed, TickDown, exit_enter, Goto, TableOK
<1>6. ASSUME NEW s \in Slots, UserStep(s) PROVE RunInv'
  BY <1>0, <1>6, SMTT(20) DEF UserStep, sys_fork, sys_wait, sys_query, sys_exit, sys_kill,
              sys_sleep, syscall_killed, user_fault, exit_enter, Enter,
              table, locals, Goto, TableOK
<1>7. ASSUME NEW s \in Slots, KernelStep(s) PROVE RunInv'
  <2> USE <1>0 DEF At, Goto, table, locals, TableOK
  <2>1. CASE alloc_next(s) \/ alloc_fail(s)
    BY <2>1 DEF alloc_next, alloc_fail
  <2>2. CASE fork_alloc(s)
    BY <2>2 DEF fork_alloc
  <2>3. CASE fork_link(s) \/ fork_ready(s)
    BY <2>3 DEF fork_link, fork_ready
  <2>4. CASE wait_reap(s)
    <3>1. PICK c \in Slots : /\ state[c] = "ZOMBIE"
                             /\ state' = [state EXCEPT ![c] = "UNUSED"]
      <4>1. DeadKids(s) \subseteq {x \in Slots : state[x] = "ZOMBIE"}
        BY ProcessAssumption, SMTT(20) DEF DeadKids, Kids, Slots
      <4>2. QED
        BY <2>4, <4>1 DEF wait_reap
    <3>2. QED
      BY <2>4, <3>1 DEF wait_reap
  <2>5. CASE wait_badaddr(s) \/ wait_none(s) \/ wait_sleep(s)
    BY <2>5 DEF wait_badaddr, wait_none, wait_sleep, sleep
  <2>6. CASE kill_next(s) \/ kill_fail(s) \/ kill_found(s)
    BY <2>6 DEF kill_next, kill_fail, kill_found
  <2>7. CASE sleep_done(s) \/ sleep_wait(s)
    BY <2>7 DEF sleep_done, sleep_wait, sleep
  <2>8. CASE exit_zombie(s)
    <3> DEFINE st == wakeup(reparent_wakes(state), parent'[s])
    <3>1. /\ st \in [Slots -> ProcState]
          /\ \A x \in Slots :
               st[x] = state[x] \/ (state[x] = "SLEEPING" /\ st[x] = "RUNNABLE")
      BY ExitEffect
    <3>2. /\ state' = [st EXCEPT ![s] = "ZOMBIE"]
          /\ cpu_proc = s
          /\ cpu_proc' = Null
          /\ pc' = [pc EXCEPT ![s] = "dead"]
          /\ loc' = loc
      BY <2>8 DEF exit_zombie
    <3>3. QED
      BY <3>1, <3>2
  <2>9. CASE syscall_return(s)
    BY <2>9 DEF syscall_return, exit_enter
  <2>10. QED
    BY <1>7, <2>1, <2>2, <2>3, <2>4, <2>5, <2>6, <2>7, <2>8, <2>9 DEF KernelStep
<1>8. CASE panic \/ UNCHANGED vars
  BY <1>8 DEF panic, vars
<1>9. QED
  BY <1>1, <1>2, <1>3, <1>4, <1>5, <1>6, <1>7, <1>8, NextCases

\* On the single hart the kernel uses, a slot is RUNNING exactly while it is
\* cpu->proc, whatever fork, exit, kill, wakeup and the timer do.
THEOREM RunningCorrect == Spec => []RunningIsCurrent
<1>1. Init => RunInv
  BY SlotFacts DEF Init, RunInv, RunningIsCurrent, ForkTarget
<1>2. QED
  BY <1>1, TypeCorrect, RunStep, PTL DEF Spec, RunInv

-----------------------------------------------------------------------------
\* The steps that touch ids: fork_alloc() and the freeproc() of wait().
LEMMA PidSteps ==
    ASSUME [Next]_vars
    PROVE  \/ UNCHANGED <<pid, nextpid>>
           \/ \E s \in Slots : fork_alloc(s) \/ wait_reap(s)
<1>1. ASSUME NEW s \in Slots, UserStep(s) PROVE UNCHANGED <<pid, nextpid>>
  BY <1>1 DEF UserStep, sys_fork, sys_wait, sys_query, sys_exit, sys_kill,
              sys_sleep, syscall_killed, user_fault, Enter, table
<1>2. ASSUME NEW s \in Slots, KernelStep(s), ~fork_alloc(s), ~wait_reap(s)
      PROVE  UNCHANGED <<pid, nextpid>>
  BY <1>2 DEF KernelStep, alloc_next, alloc_fail, fork_link, fork_ready,
              wait_badaddr, wait_none, wait_sleep, kill_next, kill_fail,
              kill_found, sleep_done, sleep_wait, exit_zombie, syscall_return,
              table
<1>3. ASSUME \/ cpu_scheduler_run \/ cpu_scheduler_skip \/ timer_idle \/ panic
             \/ UNCHANGED vars
             \/ \E s \in Slots : timer_yield(s) \/ timer_killed(s)
      PROVE  UNCHANGED <<pid, nextpid>>
  BY <1>3 DEF cpu_scheduler_run, cpu_scheduler_skip, timer_idle, panic, vars,
              timer_yield, timer_killed
<1>4. QED
  BY <1>1, <1>2, <1>3, NextCases

\* A child that wait() frees is a ZOMBIE slot of the table.
LEMMA DeadKidsFacts ==
    ASSUME NEW s \in Slots, NEW c \in DeadKids(s)
    PROVE  c \in Slots /\ parent[c] = s /\ state[c] = "ZOMBIE"
  BY ProcessAssumption DEF DeadKids, Kids, Slots

\* Ids are unique because a new one is above all that were handed out.
LEMMA PidStep ==
    TypeOK /\ PidsBelow /\ PidsUnique /\ [Next]_vars => PidsBelow' /\ PidsUnique'
<1> SUFFICES ASSUME TypeOK, PidsBelow, PidsUnique, [Next]_vars
             PROVE  PidsBelow' /\ PidsUnique'
  OBVIOUS
<1>0. /\ pid \in [Slots -> Nat]
      /\ nextpid \in Nat
      /\ loc \in [Slots -> Nat]
  BY DEF TypeOK
<1> USE <1>0 DEF PidsBelow, PidsUnique
<1>1. CASE UNCHANGED <<pid, nextpid>>
  BY <1>1
<1>2. ASSUME NEW s \in Slots, fork_alloc(s) PROVE PidsBelow' /\ PidsUnique'
  <2>1. /\ pid' = [pid EXCEPT ![loc[s]] = nextpid]
        /\ nextpid' = nextpid + 1
    BY <1>2 DEF fork_alloc
  <2>2. QED
    BY <2>1
<1>3. ASSUME NEW s \in Slots, wait_reap(s) PROVE PidsBelow' /\ PidsUnique'
  <2>1. PICK c \in DeadKids(s) : pid' = [pid EXCEPT ![c] = 0]
    BY <1>3 DEF wait_reap
  <2>2. nextpid' = nextpid
    BY <1>3 DEF wait_reap
  <2>3. QED
    BY <2>1, <2>2, DeadKidsFacts
<1>4. QED
  BY <1>1, <1>2, <1>3, PidSteps

\* No two slots ever carry the same process id, so kill() has one victim.
THEOREM PidsCorrect == Spec => []PidsUnique
<1>1. Init => PidsBelow /\ PidsUnique
  BY DEF Init, PidsBelow, PidsUnique
<1>2. QED
  BY <1>1, TypeCorrect, PidStep, PTL DEF Spec

\* A slot's id changes only while the slot is UNUSED, or when the recorded
\* parent of the zombie in it, being on the hart, reaps it.
THEOREM IdentityCorrect == Spec => IdentityStable
<1> DEFINE A == \A s \in Slots : pid'[s] # pid[s] =>
                   \/ state[s] = "UNUSED"
                   \/ state[s] = "ZOMBIE" /\ cpu_proc = parent[s]
<1>1. ASSUME TypeOK, [Next]_vars PROVE A
  <2>0. pid \in [Slots -> Nat]
    BY <1>1 DEF TypeOK
  <2>1. CASE UNCHANGED <<pid, nextpid>>
    BY <2>1
  <2>2. ASSUME NEW s \in Slots, fork_alloc(s) PROVE A
    BY <2>0, <2>2 DEF fork_alloc
  <2>3. ASSUME NEW s \in Slots, wait_reap(s) PROVE A
    <3>1. PICK c \in DeadKids(s) : pid' = [pid EXCEPT ![c] = 0]
      BY <2>3 DEF wait_reap
    <3>2. cpu_proc = s
      BY <2>3 DEF wait_reap, At
    <3>3. QED
      BY <2>0, <3>1, <3>2, DeadKidsFacts
  <2>4. QED
    BY <1>1, <2>1, <2>2, <2>3, PidSteps
<1>2. TypeOK /\ [Next]_vars => [A]_vars
  BY <1>1
<1>3. QED
  BY <1>2, TypeCorrect, PTL DEF Spec, IdentityStable

-----------------------------------------------------------------------------
\* NoLostWakeup in three parts, each inductive with RunningIsCurrent: whoever
\* executes a step is RUNNING, so only others can be asleep.
SleeperAlive == \A s \in Slots : state[s] = "SLEEPING" => ~killed[s]
SleeperWaits == \A s \in Slots :
                   state[s] = "SLEEPING" /\ chan[s] = s => DeadKids(s) = {}
SleeperTicks == \A s \in Slots :
                   state[s] = "SLEEPING" /\ chan[s] = TicksChan => loc[s] > 0

\* NoLostWakeup by cause: killed, a dead child, the time is up.
LEMMA WakeupParts == NoLostWakeup <=> SleeperAlive /\ SleeperWaits /\ SleeperTicks
  BY DEF NoLostWakeup, SleeperAlive, SleeperWaits, SleeperTicks

\* What the effect of a step on the sleepers is: a process asleep after it was
\* asleep before, on the same channel, unless it has just called sleep().
LEMMA SleepersStep ==
    ASSUME TypeOK, RunningIsCurrent, [Next]_vars,
           NEW t \in Slots, state'[t] = "SLEEPING"
    PROVE  \/ wait_sleep(t)
           \/ sleep_wait(t)
           \/ state[t] = "SLEEPING" /\ chan'[t] = chan[t]
<1>0. TableOK
  BY TypeParts
<1> USE <1>0, SlotFacts DEF TableOK, RunningIsCurrent
<1>1. CASE cpu_scheduler_run
  <2>1. /\ state' = [state EXCEPT ![next] = "RUNNING"]
        /\ chan' = [chan EXCEPT ![next] = Null]
    BY <1>1 DEF cpu_scheduler_run
  <2>2. QED
    BY <2>1
<1>2. CASE cpu_scheduler_skip \/ timer_idle
  BY <1>2, WakeupEffect DEF cpu_scheduler_skip, timer_idle
<1>3. ASSUME NEW s \in Slots, timer_yield(s) \/ timer_killed(s)
      PROVE  state[t] = "SLEEPING" /\ chan'[t] = chan[t]
  <2>1. /\ \/ state' = [wakeup(state, TicksChan) EXCEPT ![s] = "RUNNABLE"]
           \/ state' = wakeup(state, TicksChan)
        /\ chan' = chan
    BY <1>3 DEF timer_yield, timer_killed
  <2>2. QED
    BY <2>1, TimerEffect
<1>4. ASSUME NEW s \in Slots, UserStep(s)
      PROVE  state[t] = "SLEEPING" /\ chan'[t] = chan[t]
  BY <1>4 DEF UserStep, sys_fork, sys_wait, sys_query, sys_exit, sys_kill,
              sys_sleep, syscall_killed, user_fault, Enter, table
<1>5. ASSUME NEW s \in Slots, KernelStep(s), ~wait_sleep(t), ~sleep_wait(t)
      PROVE  state[t] = "SLEEPING" /\ chan'[t] = chan[t]
  <2> USE DEF table
  <2>1. CASE alloc_next(s) \/ alloc_fail(s) \/ fork_alloc(s) \/ fork_link(s)
             \/ fork_ready(s)
    BY <2>1 DEF alloc_next, alloc_fail, fork_alloc, fork_link, fork_ready
  <2>2. CASE wait_reap(s)
    <3>1. PICK c \in DeadKids(s) : /\ state' = [state EXCEPT ![c] = "UNUSED"]
                                   /\ chan' = [chan EXCEPT ![c] = Null]
      BY <2>2 DEF wait_reap
    <3>2. QED
      BY <3>1, DeadKidsFacts
  <2>3. CASE wait_badaddr(s) \/ wait_none(s) \/ wait_sleep(s)
    BY <1>5, <2>3 DEF wait_badaddr, wait_none, wait_sleep, sleep
  <2>4. CASE kill_next(s) \/ kill_fail(s) \/ kill_found(s)
    BY <2>4 DEF kill_next, kill_fail, kill_found
  <2>5. CASE sleep_done(s) \/ sleep_wait(s)
    BY <1>5, <2>5 DEF sleep_done, sleep_wait, sleep
  <2>6. CASE exit_zombie(s)
    <3> DEFINE st == wakeup(reparent_wakes(state), parent'[s])
    <3>1. \A x \in Slots :
             st[x] = state[x] \/ (state[x] = "SLEEPING" /\ st[x] = "RUNNABLE")
      BY ExitEffect
    <3>2. st \in [Slots -> ProcState]
      BY ExitEffect
    <3>3. /\ state' = [st EXCEPT ![s] = "ZOMBIE"]
          /\ chan' = chan
      BY <2>6 DEF exit_zombie
    <3>4. QED
      BY <3>1, <3>2, <3>3
  <2>7. CASE syscall_return(s)
    BY <2>7 DEF syscall_return
  <2>8. QED
    BY <1>5, <2>1, <2>2, <2>3, <2>4, <2>5, <2>6, <2>7 DEF KernelStep
<1>6. CASE panic \/ UNCHANGED vars
  BY <1>6 DEF panic, vars
<1>7. QED
  BY <1>1, <1>2, <1>3, <1>4, <1>5, <1>6, NextCases

\* kill() and a fault mark a process that is RUNNABLE or RUNNING afterwards.
LEMMA AliveStep ==
    TypeOK /\ RunningIsCurrent /\ SleeperAlive /\ [Next]_vars => SleeperAlive'
<1> SUFFICES ASSUME TypeOK, RunningIsCurrent, SleeperAlive, [Next]_vars,
                    NEW t \in Slots, state'[t] = "SLEEPING"
             PROVE  ~killed'[t]
  BY DEF SleeperAlive
<1>1. killed \in [Slots -> BOOLEAN] /\ state \in [Slots -> ProcState]
  BY DEF TypeOK
<1>2. \/ killed' = killed
      \/ \E s \in Slots : user_fault(s) \/ wait_reap(s) \/ kill_found(s)
  <2>1. ASSUME NEW s \in Slots, UserStep(s), ~user_fault(s) PROVE killed' = killed
    BY <2>1 DEF UserStep, sys_fork, sys_wait, sys_query, sys_exit, sys_kill,
                sys_sleep, syscall_killed, Enter, table
  <2>2. ASSUME NEW s \in Slots, KernelStep(s), ~wait_reap(s), ~kill_found(s)
        PROVE  killed' = killed
    BY <2>2 DEF KernelStep, alloc_next, alloc_fail, fork_alloc, fork_link,
                fork_ready, wait_badaddr, wait_none, wait_sleep, kill_next,
                kill_fail, sleep_done, sleep_wait, exit_zombie, syscall_return,
                table
  <2>3. ASSUME \/ cpu_scheduler_run \/ cpu_scheduler_skip \/ timer_idle \/ panic
               \/ UNCHANGED vars
               \/ \E s \in Slots : timer_yield(s) \/ timer_killed(s)
        PROVE  killed' = killed
    BY <2>3 DEF cpu_scheduler_run, cpu_scheduler_skip, timer_idle, panic, vars,
                timer_yield, timer_killed
  <2>4. QED
    BY <2>1, <2>2, <2>3, NextCases, SMTT(20)
<1>3. CASE killed' = killed
  <2>1. wait_sleep(t) \/ sleep_wait(t) \/ state[t] = "SLEEPING"
    BY SleepersStep
  <2>2. QED
    BY <1>3, <2>1 DEF SleeperAlive, wait_sleep, sleep_wait
<1>4. ASSUME NEW s \in Slots, user_fault(s) PROVE ~killed'[t]
  BY <1>1, <1>4 DEF user_fault, At, RunningIsCurrent, SleeperAlive
<1>5. ASSUME NEW s \in Slots, wait_reap(s) PROVE ~killed'[t]
  <2>1. PICK c \in DeadKids(s) : /\ state' = [state EXCEPT ![c] = "UNUSED"]
                                 /\ killed' = [killed EXCEPT ![c] = FALSE]
    BY <1>5 DEF wait_reap
  <2>2. QED
    BY <1>1, <2>1, DeadKidsFacts DEF SleeperAlive
<1>6. ASSUME NEW s \in Slots, kill_found(s) PROVE ~killed'[t]
  BY <1>1, <1>6 DEF kill_found, SleeperAlive
<1>7. QED
  BY <1>2, <1>3, <1>4, <1>5, <1>6

\* Ticks are counted down by the same interrupt that wakes the sleepers.
LEMMA TicksStep ==
    TypeOK /\ RunningIsCurrent /\ SleeperTicks /\ [Next]_vars => SleeperTicks'
<1> SUFFICES ASSUME TypeOK, RunningIsCurrent, SleeperTicks, [Next]_vars,
                    NEW t \in Slots, state'[t] = "SLEEPING", chan'[t] = TicksChan
             PROVE  loc'[t] > 0
  BY DEF SleeperTicks
<1>0. TableOK
  BY TypeParts
<1> USE <1>0, SlotFacts DEF TableOK, RunningIsCurrent
<1>1. CASE wait_sleep(t)
  BY <1>1 DEF wait_sleep, sleep
<1>2. CASE sleep_wait(t)
  BY <1>2 DEF sleep_wait, locals
<1>3. CASE state[t] = "SLEEPING" /\ chan'[t] = chan[t]
  <2>1. loc[t] > 0 /\ t # cpu_proc
    BY <1>3 DEF SleeperTicks
  <2>2. state' # wakeup(state, TicksChan)
    BY <1>3, <2>1, WakeupEffect
  <2>3. \A s \in Slots : ~timer_yield(s)
    <3>1. ASSUME NEW s \in Slots, timer_yield(s) PROVE FALSE
      <4>1. /\ state' = [wakeup(state, TicksChan) EXCEPT ![s] = "RUNNABLE"]
            /\ cpu_proc = s
        BY <3>1 DEF timer_yield
      <4>2. QED
        BY <1>3, <2>1, <4>1, TimerEffect
    <3>2. QED
      BY <3>1
  <2>4. ASSUME NEW s \in Slots, UserStep(s) PROVE loc'[t] = loc[t]
    BY <1>3, <2>4 DEF UserStep, sys_fork, sys_wait, sys_query, sys_exit, sys_kill,
              sys_sleep, syscall_killed, user_fault, Enter, At, locals
  <2>5. ASSUME NEW s \in Slots, KernelStep(s) PROVE loc'[t] = loc[t]
    <3>1. loc' = loc \/ \E y : loc' = [loc EXCEPT ![s] = y]
      BY <2>5 DEF KernelStep, alloc_next, alloc_fail, fork_alloc, fork_link,
              fork_ready, wait_reap, wait_badaddr, wait_none, wait_sleep,
              kill_next, kill_fail, kill_found, sleep_done, sleep_wait,
              exit_zombie, syscall_return, locals
    <3>2. cpu_proc = s
      BY <2>5 DEF KernelStep, alloc_next, alloc_fail, fork_alloc, fork_link,
              fork_ready, wait_reap, wait_badaddr, wait_none, wait_sleep,
              kill_next, kill_fail, kill_found, sleep_done, sleep_wait,
              exit_zombie, syscall_return, At
    <3>3. QED
      BY <2>1, <3>1, <3>2, SMTT(20)
  <2>6. ASSUME cpu_scheduler_run \/ cpu_scheduler_skip \/ panic \/ UNCHANGED vars
        PROVE  loc' = loc
    BY <2>6 DEF cpu_scheduler_run, cpu_scheduler_skip, panic, vars
  <2>7. ~timer_idle /\ \A s \in Slots : ~timer_killed(s)
    BY <2>2 DEF timer_idle, timer_killed
  <2>8. QED
    BY <2>1, <2>3, <2>4, <2>5, <2>6, <2>7, NextCases
<1>4. QED
  BY <1>1, <1>2, <1>3, SleepersStep

\* If no zombie gains t as its parent, t still has no dead child.
LEMMA KidsKept ==
    ASSUME NEW t \in Slots, DeadKids(t) = {},
           \A c \in Slots : parent'[c] = t /\ state'[c] = "ZOMBIE" =>
                            parent[c] = t /\ state[c] = "ZOMBIE"
    PROVE  DeadKids(t)' = {}
<1>1. \A c \in Slots : c \in Kids(t)' <=> c >= t /\ parent'[c] = t
  BY ProcessAssumption DEF Kids, Slots
<1>2. \A c \in Slots : c \in Kids(t) <=> c >= t /\ parent[c] = t
  BY ProcessAssumption DEF Kids, Slots
<1>3. Kids(t)' \subseteq Slots
  BY ProcessAssumption DEF Kids, Slots
<1>4. QED
  BY <1>1, <1>2, <1>3 DEF DeadKids

\* A child that dies wakes the parent it has at that moment; nobody is made
\* the parent of a zombie later, because reparent() changes nothing.
LEMMA WaitsStep ==
    TypeOK /\ RunningIsCurrent /\ SleeperWaits /\ [Next]_vars => SleeperWaits'
<1> SUFFICES ASSUME TypeOK, RunningIsCurrent, SleeperWaits, [Next]_vars,
                    NEW t \in Slots, state'[t] = "SLEEPING", chan'[t] = t
             PROVE  DeadKids(t)' = {}
  BY DEF SleeperWaits
<1>0. TableOK
  BY TypeParts
<1> USE <1>0, SlotFacts DEF TableOK, RunningIsCurrent
<1>1. CASE sleep_wait(t)
  BY <1>1 DEF sleep_wait, sleep
<1>2. CASE wait_sleep(t)
  <2>1. /\ DeadKids(t) = {}
        /\ state' = [state EXCEPT ![t] = "SLEEPING"]
        /\ parent' = parent
    BY <1>2 DEF wait_sleep, sleep
  <2>2. QED
    BY <2>1, KidsKept
<1>3. CASE state[t] = "SLEEPING" /\ chan'[t] = chan[t]
  <2>1. DeadKids(t) = {} /\ t # cpu_proc
    BY <1>3 DEF SleeperWaits
  <2> DEFINE Kept == \A c \in Slots : parent'[c] = t /\ state'[c] = "ZOMBIE" =>
                                      parent[c] = t /\ state[c] = "ZOMBIE"
  <2>2. ASSUME NEW s \in Slots, UserStep(s) PROVE Kept
    BY <2>2 DEF UserStep, sys_fork, sys_wait, sys_query, sys_exit, sys_kill,
              sys_sleep, syscall_killed, user_fault, Enter, table
  <2>3. ASSUME NEW s \in Slots, exit_zombie(s) PROVE Kept
    <3> DEFINE st == wakeup(reparent_wakes(state), parent'[s])
    <3>1. /\ st \in [Slots -> ProcState]
          /\ \A x \in Slots :
               /\ st[x] = state[x] \/ (state[x] = "SLEEPING" /\ st[x] = "RUNNABLE")
               /\ x # cpu_proc /\ chan[x] = parent'[s] => st[x] # "SLEEPING"
      BY ExitEffect
    <3>2. parent' = parent
      BY <2>3 DEF exit_zombie, reparent_to_init, initproc
    <3>3. /\ state' = [st EXCEPT ![s] = "ZOMBIE"]
          /\ chan' = chan
      BY <2>3 DEF exit_zombie
    <3>4. parent[s] # t
      BY <1>3, <2>1, <3>1, <3>2, <3>3
    <3>5. QED
      BY <3>1, <3>2, <3>3, <3>4
  <2>4. ASSUME NEW s \in Slots, fork_link(s) PROVE Kept
    <3>1. /\ parent' = [parent EXCEPT ![loc[s]] = s]
          /\ state' = state
          /\ cpu_proc = s
      BY <2>4 DEF fork_link, At
    <3>2. QED
      BY <2>1, <3>1
  <2>5. ASSUME NEW s \in Slots, wait_reap(s) PROVE Kept
    <3>1. PICK c \in DeadKids(s) : /\ state' = [state EXCEPT ![c] = "UNUSED"]
                                   /\ parent' = [parent EXCEPT ![c] = Null]
      BY <2>5 DEF wait_reap
    <3>2. QED
      BY <3>1, DeadKidsFacts
  <2>6. ASSUME NEW s \in Slots, KernelStep(s), ~exit_zombie(s), ~fork_link(s),
               ~wait_reap(s)
        PROVE  Kept
    BY <2>6 DEF KernelStep, alloc_next, alloc_fail, fork_alloc, fork_ready,
              wait_badaddr, wait_none, wait_sleep, sleep, kill_next, kill_fail,
              kill_found, sleep_done, sleep_wait, syscall_return, table
  <2>7. ASSUME \/ cpu_scheduler_run \/ cpu_scheduler_skip \/ panic
               \/ UNCHANGED vars
        PROVE  Kept
    BY <2>7 DEF cpu_scheduler_run, cpu_scheduler_skip, panic, vars
  <2>8. ASSUME timer_idle \/ \E s \in Slots : timer_yield(s) \/ timer_killed(s)
        PROVE  Kept
    <3>1. parent' = parent
      BY <2>8 DEF timer_idle, timer_yield, timer_killed
    <3>2. \/ state' = wakeup(state, TicksChan)
          \/ \E s \in Slots :
               state' = [wakeup(state, TicksChan) EXCEPT ![s] = "RUNNABLE"]
      BY <2>8 DEF timer_idle, timer_yield, timer_killed
    <3>3. QED
      BY <3>1, <3>2, TimerEffect, SMTT(20)
  <2>9. Kept
    BY <2>2, <2>3, <2>4, <2>5, <2>6, <2>7, <2>8, NextCases
  <2>10. QED
    BY <2>1, <2>9, KidsKept
<1>4. QED
  BY <1>1, <1>2, <1>3, SleepersStep

\* No wakeup is lost, for any number of processes: nobody sleeps in wait()
\* beside a dead child it would find, in sys_sleep() with its time over, or
\* anywhere after having been killed.
THEOREM WakeupCorrect == Spec => []NoLostWakeup
<1>1. Init => SleeperAlive /\ SleeperWaits /\ SleeperTicks
  BY DEF Init, SleeperAlive, SleeperWaits, SleeperTicks
<1>2. QED
  BY <1>1, TypeCorrect, RunningCorrect, AliveStep, WaitsStep, TicksStep,
     WakeupParts, PTL DEF Spec

=============================================================================
