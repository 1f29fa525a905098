----------------------------- MODULE LocksProof -----------------------------
(***************************************************************************)
(* Proofs about module Locks, for every number of harts and of processes:  *)
(* the spinlocks exclude, their checks never fire, interrupts are restored *)
(* across traps and changes of hart, and harts never wait in a circle.     *)
(*                                                                         *)
(* The invariant says, for each hart, what the context it runs has by the  *)
(* place its last frame is at: which locks, how many are counted, and what *)
(* the interrupt flag is or will be restored to. A context that no hart    *)
(* runs is parked in scheduler(), with its own lock to be taken over by    *)
(* the hart that resumes it.                                               *)
(***************************************************************************)
EXTENDS Locks, TLAPS

-----------------------------------------------------------------------------
\* Where each kind of context can be, in its own code and in a handler.
Handler == {"intr", "wake", "wake_one", "woken", "yield", "yield_resume", "done"}
Loop == {"scan", "picked", "back"}
Body(c) == IF c \in Threads THEN Points \ Loop ELSE Loop
OnTop(c) == IF c \in Threads THEN Handler ELSE Handler \ {"yield", "yield_resume"}

Acquiring == {"read", "off", "spin", "own"}
Releasing == {"check", "free"}

\* The lock that frame f of context c is taking, or giving up, on its way to
\* f.rt.
Takes(c, f) ==
    \/ f.rt \in {"ticks", "wake"} /\ f.lk = Tick
    \/ f.rt \in {"sleep", "yield"} /\ f.lk = c
    \/ f.rt \in {"wake_one", "picked"} /\ f.lk = f.i
GivesUp(c, f) ==
    \/ f.rt \in {"call", "asleep", "woken"} /\ f.lk = Tick
    \/ f.rt \in {"ret", "relock", "done"} /\ f.lk = c
    \/ f.rt \in {"wake", "scan"} /\ f.lk = f.i - 1

\* A frame is at a place its code can be.
FrameOK(c, f) ==
    /\ f.op \in Acquiring => Takes(c, f)
    /\ f.op \in Releasing => GivesUp(c, f)
    /\ f.rt \in {"wake", "scan"} => f.i >= 1
    /\ f.rt = "wake_one" => f.i # c
    /\ f.rt \in {"wake_one", "picked", "back"} => f.i \in Threads
    /\ f.rt \in {"wake", "scan"} /\ f.op \in Releasing => f.i >= 2

\* Code that was interrupted had interrupts on, and no lock.
Interrupted(f) ==
    \/ f.op = "none" /\ f.rt \in {"ret", "call", "relock", "scan"}
    \/ f.op \in {"read", "off"} /\ f.rt \in {"ticks", "picked"} /\ (f.op = "off" => f.saw)

\* A context has its own frame and, while it is interrupted, a handler's.
StackOK(c) ==
    /\ stack[c] \in Seq(Frame)
    /\ Len(stack[c]) \in {1, 2}
    /\ \A k \in 1 .. Len(stack[c]) : FrameOK(c, stack[c][k])
    /\ stack[c][1].rt \in Body(c)
    /\ Len(stack[c]) = 2 => stack[c][2].rt \in OnTop(c) /\ Interrupted(stack[c][1])

\* Whether a context whose last frame is f has lock l, and how many it has
\* or has counted.
Keeps(c, f, l) ==
    \/ l = Tick /\ f.rt \in {"ticks", "sleep", "wake", "wake_one"}
    \/ l = c /\ f.rt \in {"forkret", "sleep", "asleep", "sleep_resume", "yield", "yield_resume"}
    \/ l = f.i /\ f.rt \in {"wake_one", "picked", "back"}
Has(c, f, l) ==
    \/ Keeps(c, f, l) /\ (f.op \in {"read", "off", "spin"} => l # f.lk)
    \/ f.op \in Releasing /\ l = f.lk
Weight(f) ==
    IF f.rt \in {"sleep", "wake_one"} THEN 2
    ELSE IF f.rt \in {"ret", "user", "call", "relock", "intr", "woken", "done", "scan"} THEN 0
    ELSE 1
Counted(f) ==
    IF f.op \in {"read", "off"} THEN Weight(f) - 1
    ELSE IF f.op \in Releasing THEN Weight(f) + 1
    ELSE Weight(f)

\* The points of code that runs with interrupts on, and off, without locks.
On == {"call", "ticks", "sleep", "asleep", "relock"}
Off == {"user", "intr", "wake", "wake_one", "woken", "yield", "done"}

\* Hart h runs context c, whose last frame is f.
HartOK(h, c, f) ==
    /\ \A l \in Locks : h \in holders[l] <=> Has(c, f, l)
    /\ \A l \in Locks : cpu[l] = h <=> Has(c, f, l) /\ ~(f.op \in {"own", "free"} /\ f.lk = l)
    /\ depth[h] = Counted(f)
    /\ depth[h] > 0 => ~intr[h]
    /\ f.op = "off" => f.saw = intr[h]
    /\ depth[h] = 0 => (f.rt \in On => intr[h]) /\ (f.rt \in Off => ~intr[h])
    /\ depth[h] > 0 => (f.rt \in On => prev[h]) /\ (f.rt \in Off => ~prev[h])

\* The types of the variables.
Types ==
    /\ locked \in [Locks -> BOOLEAN]
    /\ cpu \in [Locks -> Harts \cup {None}]
    /\ intr \in [Harts -> BOOLEAN]
    /\ depth \in [Harts -> 0 .. 3]
    /\ prev \in [Harts -> BOOLEAN]
    /\ proc \in [Harts -> Threads \cup {None}]
    /\ state \in [Threads -> {"RUNNABLE", "RUNNING", "SLEEPING"}]
    /\ saved \in [Threads -> BOOLEAN]
    /\ stack \in [Contexts -> Seq(Frame)]
    /\ holders \in [Locks -> SUBSET Harts]

\* A lock is taken when a hart has it, and then one has it.
Table ==
    \A l \in Locks :
        /\ \A g, h \in holders[l] : g = h
        /\ locked[l] <=> holders[l] # {}

\* A hart that runs a process has left its loop in transfer().
Running ==
    \A h \in Harts :
        proc[h] # None =>
            /\ state[proc[h]] = "RUNNING"
            /\ Len(stack[h]) = 1
            /\ stack[h][1].rt = "back"
            /\ stack[h][1].op = "none"
            /\ stack[h][1].i = proc[h]

\* A process that no hart runs is in scheduler() or has not started; and the
\* flag it saved there is that of its code.
Parked ==
    \A t \in Threads :
        LET f == stack[t][Len(stack[t])]
        IN  /\ (\A h \in Harts : proc[h] # t) =>
                 f.op = "none" /\ f.rt \in {"forkret", "sleep_resume", "yield_resume"}
            /\ f.rt = "sleep_resume" => saved[t]
            /\ f.rt = "yield_resume" => ~saved[t]

\* No process is on two harts.
OneHart == \A g, h \in Harts : proc[g] = proc[h] /\ proc[g] # None => g = h

Inv ==
    /\ Types
    /\ Table
    /\ Running
    /\ Parked
    /\ OneHart
    /\ \A c \in Contexts : StackOK(c)
    /\ \A h \in Harts : HartOK(h, Cur(h), Top(h))

-----------------------------------------------------------------------------
\* What hart h runs: context c, n frames of it, the last of which is t.
View(h, c, t, n) == c = Cur(h) /\ t = Top(h) /\ n = Level(h)

\* Frame f may take the place of the n-th frame of context c.
Legal(c, f, n) ==
    /\ f \in Frame
    /\ FrameOK(c, f)
    /\ f.rt \in (IF n = 1 THEN Body(c) ELSE OnTop(c))
    /\ f.rt \notin {"sleep_resume", "yield_resume"}

\* A step leaves alone what the other harts have.
Quiet(h) ==
    \A g \in Harts \ {h} :
        /\ intr'[g] = intr[g] /\ depth'[g] = depth[g] /\ prev'[g] = prev[g]
        /\ \A l \in Locks : /\ g \in holders'[l] <=> g \in holders[l]
                            /\ cpu'[l] = g <=> cpu[l] = g

\* Harts, processes and locks are named apart.
LEMMA Kinds ==
    /\ Threads \subseteq Int /\ NPROC \in Nat
    /\ None \notin Threads /\ None \notin Harts /\ None \notin Locks
    /\ \A h \in Harts : h \notin Threads /\ h \notin Locks
    /\ Harts \subseteq Contexts /\ Threads \subseteq Contexts
BY LocksAssumption DEF Threads, Contexts, Locks

\* The last of one or two frames is a frame.
LEMMA LastFrame ==
    ASSUME NEW S, NEW s \in Seq(S), NEW n \in {1, 2}, n = Len(s)
    PROVE  s[n] \in S
BY SMTT(30)

\* The context a hart runs, and its frames.
LEMMA Viewed ==
    ASSUME Inv, NEW h \in Harts, NEW c, NEW t, NEW n, View(h, c, t, n)
    PROVE  /\ c \in Contexts
           /\ c = IF proc[h] = None THEN h ELSE proc[h]
           /\ n \in {1, 2} /\ n = Len(stack[c])
           /\ stack[c] \in Seq(Frame) /\ t = stack[c][n]
           /\ t \in Frame
           /\ FrameOK(c, t)
           /\ t.rt \in (IF n = 1 THEN Body(c) ELSE OnTop(c))
           /\ n = 2 => Interrupted(stack[c][1])
           /\ HartOK(h, c, t)
<1>1. c \in Contexts /\ c = (IF proc[h] = None THEN h ELSE proc[h])
  BY Kinds, Zenon DEF View, Cur, Inv, Types
<1>2. /\ n = Len(stack[c]) /\ t = stack[c][n]
  BY Zenon DEF View, Level, Top
<1>3. StackOK(c)
  BY <1>1, Zenon DEF Inv
<1>4. stack[c] \in Seq(Frame) /\ n \in {1, 2}
  BY <1>2, <1>3, Zenon DEF StackOK
<1>5. t \in Frame
  BY <1>2, <1>4, LastFrame, Zenon
<1>6. FrameOK(c, t) /\ t.rt \in (IF n = 1 THEN Body(c) ELSE OnTop(c))
  BY <1>2, <1>3, <1>4 DEF StackOK
<1>7. n = 2 => Interrupted(stack[c][1])
  BY <1>2, <1>3, Zenon DEF StackOK
<1>8. HartOK(h, c, t)
  BY Zenon DEF Inv, View
<1> QED BY <1>1, <1>2, <1>4, <1>5, <1>6, <1>7, <1>8, Zenon

\* Two harts never run the same context.
LEMMA Apart ==
    ASSUME Inv, NEW g \in Harts, NEW h \in Harts, g # h
    PROVE  Cur(g) # Cur(h)
BY Kinds DEF Inv, OneHart, Types, Cur

\* SetTop() replaces one frame.
LEMMA SetTopStack ==
    ASSUME Inv, NEW h \in Harts, NEW c, NEW t, NEW n, View(h, c, t, n),
           NEW f \in Frame, SetTop(h, f)
    PROVE  /\ stack' \in [Contexts -> Seq(Frame)]
           /\ Len(stack'[c]) = n /\ stack'[c][n] = f
           /\ n = 2 => stack'[c][1] = stack[c][1]
           /\ \A d \in Contexts \ {c} : stack'[d] = stack[d]
<1>1. c \in Contexts /\ n \in {1, 2} /\ n = Len(stack[c]) /\ stack[c] \in Seq(Frame)
  BY Viewed
<1>2. stack \in [Contexts -> Seq(Frame)]
  BY Zenon DEF Inv, Types
<1>3. stack' = [stack EXCEPT ![c] = [stack[c] EXCEPT ![n] = f]]
  BY Zenon DEF SetTop, View
<1>4. [stack[c] EXCEPT ![n] = f] \in Seq(Frame) /\ Len([stack[c] EXCEPT ![n] = f]) = n
  BY <1>1, SMTT(20)
<1>5. stack'[c] = [stack[c] EXCEPT ![n] = f]
  BY <1>1, <1>2, <1>3, Zenon
<1>6. stack'[c][n] = f /\ (n = 2 => stack'[c][1] = stack[c][1])
  BY <1>1, <1>5
<1> QED BY <1>1, <1>2, <1>3, <1>4, <1>5, <1>6, Zenon

\* A step of hart h that stays in the context it runs.
LEMMA SameContext ==
    ASSUME Inv, NEW h \in Harts, NEW c, NEW t, NEW n, View(h, c, t, n),
           NEW f, Legal(c, f, n), SetTop(h, f), UNCHANGED proc,
           Types', Table', Quiet(h), HartOK(h, c, f)',
           \A u \in Threads : state[u] = "RUNNING" => state'[u] = "RUNNING",
           \A u \in Threads \ {c} : saved'[u] = saved[u]
    PROVE  Inv'
<1> USE DEF Legal
<1>1. /\ c \in Contexts /\ n \in {1, 2} /\ n = Len(stack[c])
      /\ c = IF proc[h] = None THEN h ELSE proc[h]
      /\ n = 2 => Interrupted(stack[c][1])
  BY Viewed, Zenon
<1>2. /\ Len(stack'[c]) = n /\ stack'[c][n] = f
      /\ n = 2 => stack'[c][1] = stack[c][1]
      /\ \A d \in Contexts \ {c} : stack'[d] = stack[d]
      /\ stack' \in [Contexts -> Seq(Frame)]
  BY SetTopStack
<1>3. \A d \in Contexts : StackOK(d)'
  <2> TAKE d \in Contexts
  <2>1. StackOK(d)
    BY Zenon DEF Inv
  <2>2. CASE d # c
    BY <1>2, <2>1, <2>2, Zenon DEF StackOK
  <2>3. CASE d = c
    BY <1>1, <1>2, <2>1, <2>3 DEF StackOK
  <2> QED BY <2>2, <2>3, Zenon
<1>4. OneHart'
  BY Zenon DEF OneHart, Inv
<1>5. Running'
  <2> SUFFICES ASSUME NEW g \in Harts, proc[g] # None
               PROVE  /\ state'[proc[g]] = "RUNNING"
                      /\ stack'[g] = stack[g]
    BY DEF Running, Inv
  <2>1. state'[proc[g]] = "RUNNING"
    BY DEF Inv, Running, Types
  <2>2. g # c /\ g \in Contexts
    BY <1>1, Kinds DEF Inv, Types
  <2> QED BY <1>2, <2>1, <2>2, Zenon
<1>6. Parked'
  <2> SUFFICES ASSUME NEW u \in Threads
               PROVE  LET k == stack'[u][Len(stack'[u])]
                      IN  /\ (\A g \in Harts : proc[g] # u) =>
                               k.op = "none" /\ k.rt \in {"forkret", "sleep_resume", "yield_resume"}
                          /\ k.rt = "sleep_resume" => saved'[u]
                          /\ k.rt = "yield_resume" => ~saved'[u]
    BY Zenon DEF Parked
  <2>1. CASE u = c
    <3>1. proc[h] = u
      BY <1>1, <2>1, Kinds, Zenon
    <3> QED BY <1>2, <2>1, <3>1, Zenon
  <2>2. CASE u # c
    <3>1. stack'[u] = stack[u] /\ saved'[u] = saved[u]
      BY <1>2, <2>2, Kinds, Zenon
    <3> QED BY <3>1, Zenon DEF Inv, Parked
  <2> QED BY <2>1, <2>2, Zenon
<1>7. \A g \in Harts : HartOK(g, Cur(g), Top(g))'
  <2> TAKE g \in Harts
  <2>0. proc[g] \in Threads \cup {None}
    BY Zenon DEF Inv, Types
  <2>1. Cur(g)' = Cur(g) /\ Cur(g) \in Contexts
    BY <2>0, Kinds, Zenon DEF Cur
  <2>2. CASE g = h
    <3>1. Cur(h)' = c /\ Top(h)' = f
      BY <1>2, <2>1, <2>2, Zenon DEF Top, Level, View
    <3> QED BY <2>2, <3>1, Zenon DEF HartOK
  <2>3. CASE g # h
    <3>1. Cur(g) # c
      BY <2>3, Apart, Zenon DEF View
    <3>2. Top(g)' = Top(g)
      BY <1>2, <2>1, <3>1, Zenon DEF Top, Level
    <3>3. HartOK(g, Cur(g), Top(g))
      BY Zenon DEF Inv
    <3> QED BY <2>1, <2>3, <3>2, <3>3 DEF HartOK, Quiet
  <2> QED BY <2>2, <2>3, Zenon
<1> QED BY <1>3, <1>4, <1>5, <1>6, <1>7, Zenon DEF Inv

\* A step that changes nothing but the last frame.
LEMMA OnlyFrame ==
    ASSUME Inv, NEW h \in Harts, NEW c, NEW t, NEW n, View(h, c, t, n),
           NEW f, Legal(c, f, n), SetTop(h, f), HartOK(h, c, f),
           UNCHANGED <<lockvars, intr, proc, state, saved>>
    PROVE  Inv'
<1>1. f \in Frame
  BY Zenon DEF Legal
<1>2. stack' \in [Contexts -> Seq(Frame)]
  BY <1>1, SetTopStack, Zenon
<1>3. Types'
  BY <1>2, Zenon DEF Types, Inv, lockvars
<1>4. Table'
  BY Zenon DEF Table, Inv, lockvars
<1>5. HartOK(h, c, f)'
  BY Zenon DEF HartOK, lockvars
<1>6. Quiet(h)
  BY Zenon DEF Quiet, lockvars
<1> QED BY <1>3, <1>4, <1>5, <1>6, SameContext, Zenon

\* A change of frame that takes no lock and gives none up.
LEMMA SameLocks ==
    ASSUME NEW h \in Harts, NEW c, NEW t, NEW f, HartOK(h, c, t),
           \A l \in Locks : Has(c, f, l) <=> Has(c, t, l),
           f.op \notin {"own", "free"}, t.op \notin {"own", "free"},
           Counted(f) = Counted(t),
           f.op = "off" => f.saw = intr[h],
           f.rt \in On => t.rt \in On,
           f.rt \in Off => t.rt \in Off
    PROVE  HartOK(h, c, f)
BY Zenon DEF HartOK

\* lock_intr_disable() reads the flag: nothing else changes.
LEMMA intr_readInv ==
    ASSUME Inv, NEW h \in Harts, NEW c, NEW t, NEW n, View(h, c, t, n), intr_read(h)
    PROVE  Inv'
<1> DEFINE f == [t EXCEPT !.op = "off", !.saw = intr[h]]
<1>1. t.op = "read" /\ SetTop(h, f) /\ UNCHANGED <<lockvars, intr, proc, state, saved>>
  BY Zenon DEF intr_read, Doing, View
<1>2. /\ t \in Frame /\ FrameOK(c, t) /\ t.rt \in (IF n = 1 THEN Body(c) ELSE OnTop(c))
      /\ HartOK(h, c, t) /\ intr[h] \in BOOLEAN
  BY Viewed DEF Inv, Types
<1>3. f \in Frame /\ f.rt = t.rt /\ f.op = "off" /\ f.lk = t.lk /\ f.i = t.i /\ f.saw = intr[h]
  BY <1>2, Zenon DEF Frame, Ops
<1> HIDE DEF f
<1>4. Takes(c, t)
  BY <1>1, <1>2, Zenon DEF FrameOK, Acquiring
<1>5. Takes(c, f)
  BY <1>3, <1>4, Zenon DEF Takes
<1>6. Legal(c, f, n)
  BY <1>1, <1>2, <1>3, <1>5, Zenon DEF Legal, FrameOK, Takes, Acquiring, Releasing
<1>7. HartOK(h, c, f)
  <2>1. \A l \in Locks : Has(c, f, l) <=> Has(c, t, l)
    BY <1>1, <1>3, Zenon DEF Has, Keeps, Releasing
  <2>2. Counted(f) = Counted(t)
    BY <1>1, <1>3, Zenon DEF Counted, Weight
  <2> QED BY <1>1, <1>2, <1>3, <2>1, <2>2, SameLocks, Zenon
<1> QED BY <1>1, <1>6, <1>7, OnlyFrame, Zenon

\* Code that has its locks, or none, goes on to a point that needs the same,
\* or starts to take one more or to give one up.
LEMMA Move ==
    ASSUME Inv, NEW h \in Harts, NEW c, NEW t, NEW n, View(h, c, t, n),
           t.op = "none", NEW f, Legal(c, f, n), SetTop(h, f),
           UNCHANGED <<lockvars, intr, proc, state, saved>>,
           f.op \in {"none", "read", "check"},
           \A l \in Locks : Has(c, f, l) <=> Has(c, t, l),
           Counted(f) = Counted(t),
           f.rt \in On => t.rt \in On,
           f.rt \in Off => t.rt \in Off
    PROVE  Inv'
<1>1. HartOK(h, c, t)
  BY Viewed, Zenon
<1>2. HartOK(h, c, f)
  BY <1>1, SameLocks, Zenon
<1> QED BY <1>2, OnlyFrame, Zenon

\* Only a process runs the code of system calls, and leaves its hart.
LEMMA InProcess ==
    ASSUME Inv, NEW h \in Harts, NEW c, NEW t, NEW n, View(h, c, t, n)
    PROVE  /\ t.rt \in Points \ (Loop \cup Handler) => n = 1
           /\ t.rt \in (Points \ (Loop \cup Handler)) \cup {"yield", "yield_resume"} =>
                c \in Threads /\ proc[h] = c /\ c # Tick /\ c \in Locks
           /\ t.rt \in Loop => n = 1 /\ c \notin Threads /\ c = h /\ proc[h] = None
<1>1. /\ c \in Contexts /\ c = (IF proc[h] = None THEN h ELSE proc[h])
      /\ n \in {1, 2} /\ t.rt \in (IF n = 1 THEN Body(c) ELSE OnTop(c))
      /\ proc[h] \in Threads \cup {None}
  BY Viewed DEF Inv, Types
<1>2. c \in Threads => proc[h] = c /\ c # Tick /\ c \in Locks
  BY <1>1, Kinds, LocksAssumption DEF Threads, Tick, Locks
<1>3. t.rt \in Loop => n = 1 /\ c \notin Threads
  BY <1>1, Zenon DEF Body, OnTop, Handler, Points, Loop
<1>4. t.rt \in Points \ (Loop \cup Handler) => n = 1 /\ c \in Threads
  BY <1>1, Zenon DEF Body, OnTop, Handler, Points, Loop
<1>5. t.rt \in {"yield", "yield_resume"} => c \in Threads
  BY <1>1, Zenon DEF Body, OnTop, Handler, Points, Loop
<1> QED BY <1>1, <1>2, <1>3, <1>4, <1>5, Zenon

\* The scheduler loop takes the lock of the next process ...
LEMMA cpu_scheduler_lockInv ==
    ASSUME Inv, NEW h \in Harts, NEW c, NEW t, NEW n, View(h, c, t, n), cpu_scheduler_lock(h)
    PROVE  Inv'
<1> DEFINE f == [t EXCEPT !.rt = "picked", !.op = "read", !.lk = t.i]
<1>1. /\ t.op = "none" /\ t.rt = "scan" /\ t.i <= NPROC /\ SetTop(h, f)
      /\ UNCHANGED <<lockvars, intr, proc, state, saved>>
  BY Zenon DEF cpu_scheduler_lock, At, Doing, Acquire, View
<1>2. t \in Frame /\ FrameOK(c, t)
  BY Viewed, Zenon
<1>3. t.i \in Threads /\ t.i \in Locks
  BY <1>1, <1>2, LocksAssumption DEF FrameOK, Threads, Locks, Frame
<1>4. f \in Frame /\ f.rt = "picked" /\ f.op = "read" /\ f.lk = t.i /\ f.i = t.i
  BY <1>2, <1>3, Zenon DEF Frame, Ops, Points
<1> HIDE DEF f
<1>5. n = 1 /\ "picked" \in Body(c)
  BY <1>1, InProcess DEF Body, Loop
<1>6. Legal(c, f, n)
  BY <1>3, <1>4, <1>5, Zenon DEF Legal, FrameOK, Takes, Acquiring, Releasing
<1>7. \A l \in Locks : Has(c, f, l) <=> Has(c, t, l)
  BY <1>1, <1>4, Zenon DEF Has, Keeps, Releasing
<1>8. Counted(f) = Counted(t) /\ f.rt \notin On /\ f.rt \notin Off
  BY <1>1, <1>4 DEF Counted, Weight, Releasing, On, Off
<1> QED BY <1>1, <1>4, <1>6, <1>7, <1>8, Move, Zenon

\* ... and gives it back, when it does not run the process or the process
\* has come back.
LEMMA cpu_scheduler_nextInv ==
    ASSUME Inv, NEW h \in Harts, NEW c, NEW t, NEW n, View(h, c, t, n), cpu_scheduler_next(h)
    PROVE  Inv'
<1> DEFINE f == [t EXCEPT !.rt = "scan", !.op = "check", !.lk = t.i, !.i = t.i + 1]
<1>1. /\ t.op = "none" /\ t.rt \in {"back", "picked"} /\ SetTop(h, f)
      /\ UNCHANGED <<lockvars, intr, proc, state, saved>>
  BY Zenon DEF cpu_scheduler_next, At, Doing, View
<1>2. t \in Frame /\ FrameOK(c, t)
  BY Viewed, Zenon
<1>3. t.i \in Threads /\ t.i \in Locks /\ t.i + 1 \in 0 .. NPROC + 1 /\ t.i >= 1 /\ t.i \in Int
  BY <1>1, <1>2, LocksAssumption DEF FrameOK, Threads, Locks
<1>4. f \in Frame /\ f.rt = "scan" /\ f.op = "check" /\ f.lk = t.i /\ f.i = t.i + 1
  BY <1>2, <1>3, Zenon DEF Frame, Ops, Points
<1> HIDE DEF f
<1>5. n = 1 /\ "scan" \in Body(c)
  BY <1>1, InProcess DEF Body, Loop
<1>6. Legal(c, f, n)
  BY <1>3, <1>4, <1>5 DEF Legal, FrameOK, GivesUp, Acquiring, Releasing
<1>7. \A l \in Locks : Has(c, f, l) <=> Has(c, t, l)
  BY <1>1, <1>4, Zenon DEF Has, Keeps, Releasing
<1>8. Counted(f) = Counted(t) /\ f.rt \notin On /\ f.rt \notin Off
  BY <1>1, <1>4 DEF Counted, Weight, Releasing, On, Off
<1> QED BY <1>1, <1>4, <1>6, <1>7, <1>8, Move, Zenon

\* A process that starts releases its lock, which the scheduler took.
LEMMA forkretInv ==
    ASSUME Inv, NEW h \in Harts, NEW c, NEW t, NEW n, View(h, c, t, n), forkret(h)
    PROVE  Inv'
<1> DEFINE f == [t EXCEPT !.rt = "ret", !.op = "check", !.lk = c]
<1>0. t.op = "none" /\ t.rt = "forkret"
  BY Zenon DEF forkret, At, Doing, View
<1>1. n = 1 /\ c \in Threads /\ proc[h] = c /\ c # Tick /\ c \in Locks /\ "ret" \in Body(c)
  BY <1>0, InProcess DEF Points, Loop, Handler, Body
<1>2. SetTop(h, f) /\ UNCHANGED <<lockvars, intr, proc, state, saved>>
  BY <1>1, Zenon DEF forkret, Release, View
<1>3. t \in Frame /\ FrameOK(c, t)
  BY Viewed, Zenon
<1>4. f \in Frame /\ f.rt = "ret" /\ f.op = "check" /\ f.lk = c /\ f.i = t.i
  BY <1>1, <1>3, Zenon DEF Frame, Ops, Points
<1> HIDE DEF f
<1>5. Legal(c, f, n)
  BY <1>1, <1>4, Zenon DEF Legal, FrameOK, GivesUp, Acquiring, Releasing
<1>6. \A l \in Locks : Has(c, f, l) <=> Has(c, t, l)
  BY <1>0, <1>4, Zenon DEF Has, Keeps, Releasing
<1>7. Counted(f) = Counted(t) /\ f.rt \notin On /\ f.rt \notin Off
  BY <1>0, <1>4 DEF Counted, Weight, Releasing, On, Off
<1> QED BY <1>0, <1>2, <1>4, <1>5, <1>6, <1>7, Move, Zenon

\* What sys_uptime() and sleep() do with tickslock and the process lock.
LEMMA CallMove ==
    ASSUME Inv, NEW h \in Harts, NEW c, NEW t, NEW n, View(h, c, t, n),
           t.op = "none", NEW f \in Frame, f.i = t.i, SetTop(h, f),
           UNCHANGED <<lockvars, intr, proc, state, saved>>,
           \/ t.rt = "call" /\ f.rt = "ticks" /\ f.op = "read" /\ f.lk = Tick
           \/ t.rt = "ticks" /\ f.rt = "call" /\ f.op = "check" /\ f.lk = Tick
           \/ t.rt = "call" /\ f.rt = "ret" /\ f.op = "none"
           \/ t.rt = "ticks" /\ f.rt = "sleep" /\ f.op = "read" /\ f.lk = c
           \/ t.rt = "sleep" /\ f.rt = "asleep" /\ f.op = "check" /\ f.lk = Tick
           \/ t.rt = "relock" /\ f.rt = "ticks" /\ f.op = "read" /\ f.lk = Tick
    PROVE  Inv'
<1>1. t.rt \in {"call", "ticks", "sleep", "relock"}
  BY Zenon
<1>2. n = 1 /\ c \in Threads /\ c # Tick
  BY <1>1, InProcess DEF Points, Loop, Handler
<1>3. {"call", "ticks", "ret", "sleep", "asleep"} \subseteq Body(c)
  BY <1>2, Zenon DEF Body, Points, Loop
<1>4. Legal(c, f, n)
  BY <1>2, <1>3, Zenon DEF Legal, FrameOK, Takes, GivesUp, Acquiring, Releasing
<1>5. \A l \in Locks : Has(c, f, l) <=> Has(c, t, l)
  BY <1>2, Zenon DEF Has, Keeps, Releasing
<1>6. Counted(f) = Counted(t)
  BY DEF Counted, Weight, Releasing
<1>7. (f.rt \in On => t.rt \in On) /\ f.rt \notin Off
  BY Zenon DEF On, Off
<1> QED BY <1>4, <1>5, <1>6, <1>7, Move, Zenon

\* sys_uptime() and sys_sleep().
LEMMA sys_uptimeInv ==
    ASSUME Inv, NEW h \in Harts, NEW c, NEW t, NEW n, View(h, c, t, n), sys_uptime(h)
    PROVE  Inv'
<1>1. t \in Frame /\ Tick \in Locks
  BY Viewed, LocksAssumption DEF Tick, Locks
<1>2. UNCHANGED <<lockvars, intr, proc, state, saved>>
  BY Zenon DEF sys_uptime
<1>3. CASE At(h, "call") /\ Acquire(h, Tick, "ticks")
  <2> DEFINE f == [t EXCEPT !.rt = "ticks", !.op = "read", !.lk = Tick]
  <2>1. t.op = "none" /\ t.rt = "call" /\ SetTop(h, f)
    BY <1>3, Zenon DEF At, Doing, Acquire, View
  <2>2. f \in Frame /\ f.rt = "ticks" /\ f.op = "read" /\ f.lk = Tick /\ f.i = t.i
    BY <1>1, Zenon DEF Frame, Ops, Points
  <2> QED BY <1>2, <2>1, <2>2, CallMove, Zenon
<1>4. CASE At(h, "ticks") /\ Release(h, Tick, "call")
  <2> DEFINE f == [t EXCEPT !.rt = "call", !.op = "check", !.lk = Tick]
  <2>1. t.op = "none" /\ t.rt = "ticks" /\ SetTop(h, f)
    BY <1>4, Zenon DEF At, Doing, Release, View
  <2>2. f \in Frame /\ f.rt = "call" /\ f.op = "check" /\ f.lk = Tick /\ f.i = t.i
    BY <1>1, Zenon DEF Frame, Ops, Points
  <2> QED BY <1>2, <2>1, <2>2, CallMove, Zenon
<1>5. CASE At(h, "call") /\ Go(h, "ret")
  <2> DEFINE f == [t EXCEPT !.rt = "ret"]
  <2>1. t.op = "none" /\ t.rt = "call" /\ SetTop(h, f)
    BY <1>5, Zenon DEF At, Doing, Go, View
  <2>2. f \in Frame /\ f.rt = "ret" /\ f.op = t.op /\ f.i = t.i
    BY <1>1, Zenon DEF Frame, Ops, Points
  <2> QED BY <1>2, <2>1, <2>2, CallMove, Zenon
<1> QED BY <1>3, <1>4, <1>5, Zenon DEF sys_uptime

\* sleep() up to scheduler(), and after it.
LEMMA sleepInv ==
    ASSUME Inv, NEW h \in Harts, NEW c, NEW t, NEW n, View(h, c, t, n),
           UNCHANGED <<lockvars, intr, proc, state, saved>>,
           \/ At(h, "ticks") /\ Acquire(h, proc[h], "sleep")
           \/ At(h, "sleep") /\ Release(h, Tick, "asleep")
           \/ At(h, "relock") /\ Acquire(h, Tick, "ticks")
    PROVE  Inv'
<1>1. t \in Frame /\ Tick \in Locks
  BY Viewed, LocksAssumption DEF Tick, Locks
<1>2. CASE At(h, "ticks") /\ Acquire(h, proc[h], "sleep")
  <2> DEFINE f == [t EXCEPT !.rt = "sleep", !.op = "read", !.lk = c]
  <2>1. t.op = "none" /\ t.rt = "ticks"
    BY <1>2, Zenon DEF At, Doing, View
  <2>2. proc[h] = c /\ c \in Locks
    BY <2>1, InProcess, Zenon DEF Points, Loop, Handler
  <2>3. SetTop(h, f)
    BY <1>2, <2>2, Zenon DEF Acquire, View
  <2>4. f \in Frame /\ f.rt = "sleep" /\ f.op = "read" /\ f.lk = c /\ f.i = t.i
    BY <1>1, <2>2, Zenon DEF Frame, Ops, Points
  <2> QED BY <2>1, <2>3, <2>4, CallMove, Zenon
<1>3. CASE At(h, "sleep") /\ Release(h, Tick, "asleep")
  <2> DEFINE f == [t EXCEPT !.rt = "asleep", !.op = "check", !.lk = Tick]
  <2>1. t.op = "none" /\ t.rt = "sleep" /\ SetTop(h, f)
    BY <1>3, Zenon DEF At, Doing, Release, View
  <2>2. f \in Frame /\ f.rt = "asleep" /\ f.op = "check" /\ f.lk = Tick /\ f.i = t.i
    BY <1>1, Zenon DEF Frame, Ops, Points
  <2> QED BY <2>1, <2>2, CallMove, Zenon
<1>4. CASE At(h, "relock") /\ Acquire(h, Tick, "ticks")
  <2> DEFINE f == [t EXCEPT !.rt = "ticks", !.op = "read", !.lk = Tick]
  <2>1. t.op = "none" /\ t.rt = "relock" /\ SetTop(h, f)
    BY <1>4, Zenon DEF At, Doing, Acquire, View
  <2>2. f \in Frame /\ f.rt = "ticks" /\ f.op = "read" /\ f.lk = Tick /\ f.i = t.i
    BY <1>1, Zenon DEF Frame, Ops, Points
  <2> QED BY <2>1, <2>2, CallMove, Zenon
<1> QED BY <1>2, <1>3, <1>4, Zenon

\* What a handler does with tickslock and the locks of processes.
TrapPath(c, t, f, n) ==
    \/ t.rt = "user" /\ f.rt = "intr" /\ f.op = "none"
    \/ t.rt = "intr" /\ f.rt = "woken" /\ f.op = "none"
    \/ t.rt = "intr" /\ f.rt = "wake" /\ f.op = "read" /\ f.lk = Tick /\ f.i = 1
    \/ t.rt = "wake" /\ f.rt = "wake" /\ f.op = "none" /\ f.i = t.i + 1
    \/ t.rt = "wake" /\ f.rt = "wake_one" /\ f.op = "read" /\ f.lk = f.i /\ f.i = t.i
         /\ t.i \in Threads /\ t.i # c
    \/ t.rt = "wake" /\ f.rt = "woken" /\ f.op = "check" /\ f.lk = Tick
    \/ t.rt = "woken" /\ f.rt = "yield" /\ f.op = "read" /\ f.lk = c /\ c \in Threads
    \/ t.rt = "woken" /\ f.rt = "done" /\ f.op = "none"
    \/ t.rt = "done" /\ f.rt = "ret" /\ f.op = "none" /\ n = 1

\* A step of a handler from one of its places to the next.
LEMMA TrapMove ==
    ASSUME Inv, NEW h \in Harts, NEW c, NEW t, NEW n, View(h, c, t, n),
           t.op = "none", NEW f \in Frame, SetTop(h, f),
           UNCHANGED <<lockvars, intr, proc, state, saved>>,
           TrapPath(c, t, f, n)
    PROVE  Inv'
<1> USE DEF TrapPath
<1>1. /\ n \in {1, 2} /\ t.rt \in (IF n = 1 THEN Body(c) ELSE OnTop(c))
      /\ t \in Frame /\ FrameOK(c, t)
  BY Viewed, Zenon
<1>2. n = 1 => c \in Threads
  BY <1>1, Zenon DEF Body, Loop
<1>3. t.rt = "user" => n = 1
  BY <1>1, Zenon DEF OnTop, Handler
<1>4. f.rt \in (IF n = 1 THEN Body(c) ELSE OnTop(c))
  BY <1>1, <1>2, <1>3, Zenon DEF Body, OnTop, Handler, Points, Loop
<1>5. t.rt = "wake" => t.i \in Int /\ t.i >= 1
  BY <1>1, LocksAssumption DEF FrameOK, Frame
<1>6. FrameOK(c, f)
  BY <1>5 DEF FrameOK, Takes, GivesUp, Acquiring, Releasing
<1>7. Legal(c, f, n)
  BY <1>4, <1>6, Zenon DEF Legal
<1>8. \A l \in Locks : Has(c, f, l) <=> Has(c, t, l)
  <2>1. c \in Threads => c # Tick
    BY LocksAssumption DEF Threads, Tick
  <2>2. t.i \in Threads => t.i # Tick
    BY LocksAssumption DEF Threads, Tick
  <2> QED BY <2>1, <2>2, Zenon DEF Has, Keeps, Releasing
<1>9. Counted(f) = Counted(t)
  BY DEF Counted, Weight, Releasing
<1>10. f.rt \notin On /\ (f.rt \in Off => t.rt \in Off)
  BY Zenon DEF On, Off
<1> QED BY <1>7, <1>8, <1>9, <1>10, Move, Zenon

\* A trap from user mode.
LEMMA utrap_intrInv ==
    ASSUME Inv, NEW h \in Harts, NEW c, NEW t, NEW n, View(h, c, t, n), utrap_intr(h)
    PROVE  Inv'
<1> DEFINE f == [t EXCEPT !.rt = "intr"]
<1>1. /\ t.op = "none" /\ t.rt = "user" /\ SetTop(h, f)
      /\ UNCHANGED <<lockvars, intr, proc, state, saved>>
  BY Zenon DEF utrap_intr, At, Doing, Go, View
<1>2. t \in Frame
  BY Viewed, Zenon
<1>3. f \in Frame /\ f.rt = "intr" /\ f.op = t.op
  BY <1>2, Zenon DEF Frame, Ops, Points
<1> HIDE DEF f
<1>9. TrapPath(c, t, f, n)
  BY <1>1, <1>3, Zenon DEF TrapPath
<1> QED BY <1>1, <1>3, <1>9, TrapMove, Zenon

\* The way back to user mode.
LEMMA utrap_endInv ==
    ASSUME Inv, NEW h \in Harts, NEW c, NEW t, NEW n, View(h, c, t, n), utrap_end(h)
    PROVE  Inv'
<1> DEFINE f == [t EXCEPT !.rt = "ret"]
<1>1. /\ t.op = "none" /\ t.rt = "done" /\ SetTop(h, f) /\ n = 1
      /\ UNCHANGED <<lockvars, intr, proc, state, saved>>
  BY Zenon DEF utrap_end, At, Doing, Go, View
<1>2. t \in Frame
  BY Viewed, Zenon
<1>3. f \in Frame /\ f.rt = "ret" /\ f.op = t.op
  BY <1>2, Zenon DEF Frame, Ops, Points
<1> HIDE DEF f
<1>9. TrapPath(c, t, f, n)
  BY <1>1, <1>3, Zenon DEF TrapPath
<1> QED BY <1>1, <1>3, <1>9, TrapMove, Zenon

\* timer_interrupt(): tickslock, and inside it each process lock but the one
\* of the process that was interrupted.
LEMMA timer_interruptInv ==
    ASSUME Inv, NEW h \in Harts, NEW c, NEW t, NEW n, View(h, c, t, n), timer_interrupt(h)
    PROVE  Inv'
<1>1. t \in Frame /\ FrameOK(c, t) /\ Tick \in Locks /\ NPROC \in Nat
  BY Viewed, LocksAssumption DEF Tick, Locks
<1>0. 0 \in 0 .. NPROC + 1 /\ 1 \in 0 .. NPROC + 1
  BY <1>1
<1>2. UNCHANGED <<lockvars, intr, proc, state, saved>>
  BY Zenon DEF timer_interrupt
<1>3. CASE At(h, "intr") /\ Go(h, "woken")
  <2> DEFINE f == [t EXCEPT !.rt = "woken"]
  <2>1. t.op = "none" /\ t.rt = "intr" /\ SetTop(h, f)
    BY <1>3, Zenon DEF At, Doing, Go, View
  <2>2. f \in Frame /\ f.rt = "woken" /\ f.op = t.op
    BY <1>0, <1>1, Zenon DEF Frame, Ops, Points
  <2> HIDE DEF f
  <2>9. TrapPath(c, t, f, n)
    BY <1>2, <2>1, <2>2, Zenon DEF TrapPath
  <2> QED BY <1>2, <2>1, <2>2, <2>9, TrapMove, Zenon
<1>4. CASE /\ At(h, "intr")
           /\ SetTop(h, [Top(h) EXCEPT !.rt = "wake", !.op = "read", !.lk = Tick, !.i = 1])
  <2> DEFINE f == [t EXCEPT !.rt = "wake", !.op = "read", !.lk = Tick, !.i = 1]
  <2>1. t.op = "none" /\ t.rt = "intr" /\ SetTop(h, f)
    BY <1>4, Zenon DEF At, Doing, View
  <2>2. f \in Frame /\ f.rt = "wake" /\ f.op = "read" /\ f.lk = Tick /\ f.i = 1
    BY <1>0, <1>1, Zenon DEF Frame, Ops, Points
  <2> HIDE DEF f
  <2>9. TrapPath(c, t, f, n)
    BY <1>2, <2>1, <2>2, Zenon DEF TrapPath
  <2> QED BY <1>2, <2>1, <2>2, <2>9, TrapMove, Zenon
<1>5. CASE At(h, "wake") /\ Top(h).i = proc[h] /\ SetTop(h, [Top(h) EXCEPT !.i = @ + 1])
  <2> DEFINE f == [t EXCEPT !.i = t.i + 1]
  <2>1. t.op = "none" /\ t.rt = "wake" /\ t.i = proc[h] /\ SetTop(h, f)
    BY <1>5, Zenon DEF At, Doing, View
  <2>2. proc[h] \in Threads \cup {None} /\ t.i \in Int
    BY <1>1 DEF Inv, Types, Frame
  <2>3. t.i + 1 \in 0 .. NPROC + 1
    BY <1>1, <2>1, <2>2, LocksAssumption DEF Threads
  <2>4. f \in Frame /\ f.rt = "wake" /\ f.op = "none" /\ f.i = t.i + 1
    BY <1>1, <2>1, <2>3, Zenon DEF Frame, Ops, Points
  <2> HIDE DEF f
  <2>9. TrapPath(c, t, f, n)
    BY <1>2, <2>1, <2>4, Zenon DEF TrapPath
  <2> QED BY <1>2, <2>1, <2>4, <2>9, TrapMove, Zenon
<1>6. CASE /\ At(h, "wake") /\ Top(h).i \in Threads \ {proc[h]}
           /\ Acquire(h, Top(h).i, "wake_one")
  <2> DEFINE f == [t EXCEPT !.rt = "wake_one", !.op = "read", !.lk = t.i]
  <2>1. t.op = "none" /\ t.rt = "wake" /\ t.i \in Threads /\ t.i # proc[h] /\ SetTop(h, f)
    BY <1>6, Zenon DEF At, Doing, Acquire, View
  <2>2. t.i # c /\ t.i \in Locks
    BY <2>1, Viewed, Kinds, LocksAssumption DEF Threads, Locks
  <2>3. f \in Frame /\ f.rt = "wake_one" /\ f.op = "read" /\ f.lk = t.i /\ f.i = t.i
    BY <1>1, <2>2, Zenon DEF Frame, Ops, Points
  <2> HIDE DEF f
  <2>9. TrapPath(c, t, f, n)
    BY <1>2, <2>1, <2>2, <2>3, Zenon DEF TrapPath
  <2> QED BY <1>2, <2>1, <2>2, <2>3, <2>9, TrapMove, Zenon
<1>7. CASE /\ At(h, "wake")
           /\ SetTop(h, [Start("woken") EXCEPT !.op = "check", !.lk = Tick])
  <2> DEFINE f == [Start("woken") EXCEPT !.op = "check", !.lk = Tick]
  <2>1. t.op = "none" /\ t.rt = "wake" /\ SetTop(h, f)
    BY <1>7, Zenon DEF At, Doing, View
  <2>2. f \in Frame /\ f.rt = "woken" /\ f.op = "check" /\ f.lk = Tick
    BY <1>0, <1>1, Zenon DEF Frame, Ops, Points, Start
  <2> HIDE DEF f
  <2>9. TrapPath(c, t, f, n)
    BY <1>2, <2>1, <2>2, Zenon DEF TrapPath
  <2> QED BY <1>2, <2>1, <2>2, <2>9, TrapMove, Zenon
<1> QED BY <1>3, <1>4, <1>5, <1>6, <1>7, Zenon DEF timer_interrupt

\* yield_process() up to scheduler(); the scheduler loop itself does not
\* yield.
LEMMA yield_processInv ==
    ASSUME Inv, NEW h \in Harts, NEW c, NEW t, NEW n, View(h, c, t, n),
           UNCHANGED <<lockvars, intr, proc, state, saved>>,
           \/ At(h, "woken") /\ proc[h] # None /\ Acquire(h, proc[h], "yield")
           \/ At(h, "woken") /\ proc[h] = None /\ Go(h, "done")
    PROVE  Inv'
<1>1. /\ t \in Frame /\ proc[h] \in Threads \cup {None}
      /\ c = IF proc[h] = None THEN h ELSE proc[h]
  BY Viewed, Zenon DEF Inv, Types
<1>2. CASE At(h, "woken") /\ proc[h] # None /\ Acquire(h, proc[h], "yield")
  <2> DEFINE f == [t EXCEPT !.rt = "yield", !.op = "read", !.lk = c]
  <2>1. c = proc[h] /\ c \in Threads /\ c \in Locks
    BY <1>1, <1>2, LocksAssumption DEF Threads, Locks
  <2>2. t.op = "none" /\ t.rt = "woken" /\ SetTop(h, f)
    BY <1>2, <2>1, Zenon DEF At, Doing, Acquire, View
  <2>3. f \in Frame /\ f.rt = "yield" /\ f.op = "read" /\ f.lk = c
    BY <1>1, <2>1, Zenon DEF Frame, Ops, Points
  <2> HIDE DEF f
  <2>9. TrapPath(c, t, f, n)
    BY <2>1, <2>2, <2>3, Zenon DEF TrapPath
  <2> QED BY <2>1, <2>2, <2>3, <2>9, TrapMove, Zenon
<1>3. CASE At(h, "woken") /\ proc[h] = None /\ Go(h, "done")
  <2> DEFINE f == [t EXCEPT !.rt = "done"]
  <2>1. t.op = "none" /\ t.rt = "woken" /\ SetTop(h, f)
    BY <1>3, Zenon DEF At, Doing, Go, View
  <2>2. f \in Frame /\ f.rt = "done" /\ f.op = t.op
    BY <1>1, Zenon DEF Frame, Ops, Points
  <2> HIDE DEF f
  <2>9. TrapPath(c, t, f, n)
    BY <2>1, <2>2, Zenon DEF TrapPath
  <2> QED BY <2>1, <2>2, <2>9, TrapMove, Zenon
<1> QED BY <1>2, <1>3, Zenon

-----------------------------------------------------------------------------
\* acquire_lock() turns interrupts off and counts the lock it will take.
LEMMA intr_offInv ==
    ASSUME Inv, NEW h \in Harts, NEW c, NEW t, NEW n, View(h, c, t, n), intr_off(h)
    PROVE  Inv'
<1> DEFINE f == [t EXCEPT !.op = "spin", !.saw = FALSE]
<1>1. /\ t.op = "off" /\ SetTop(h, f)
      /\ intr' = [intr EXCEPT ![h] = FALSE]
      /\ prev' = [prev EXCEPT ![h] = IF depth[h] = 0 THEN t.saw ELSE @]
      /\ depth' = [depth EXCEPT ![h] = @ + 1]
      /\ UNCHANGED <<locked, cpu, holders, proc, state, saved>>
  BY Zenon DEF intr_off, Doing, View
<1>2. /\ t \in Frame /\ FrameOK(c, t) /\ t.rt \in (IF n = 1 THEN Body(c) ELSE OnTop(c))
      /\ HartOK(h, c, t) /\ Types /\ Table
  BY Viewed DEF Inv
<1>3. f \in Frame /\ f.rt = t.rt /\ f.op = "spin" /\ f.lk = t.lk /\ f.i = t.i
  BY <1>2, Zenon DEF Frame, Ops
<1> HIDE DEF f
<1>4. Takes(c, t) /\ Takes(c, f)
  BY <1>1, <1>2, <1>3, Zenon DEF FrameOK, Acquiring, Takes
<1>5. Legal(c, f, n)
  BY <1>1, <1>2, <1>3, <1>4, Zenon DEF Legal, FrameOK, Takes, Acquiring, Releasing
<1>6. depth[h] \in Nat /\ depth[h] = Weight(t) - 1 /\ depth[h] \in 0 .. 1
  BY <1>1, <1>2 DEF HartOK, Counted, Types, Weight
<1>7. /\ intr'[h] = FALSE /\ depth'[h] = depth[h] + 1
      /\ prev'[h] = IF depth[h] = 0 THEN t.saw ELSE prev[h]
      /\ \A g \in Harts \ {h} : intr'[g] = intr[g] /\ depth'[g] = depth[g] /\ prev'[g] = prev[g]
  BY <1>1, <1>2, Zenon DEF Types
<1>8. stack' \in [Contexts -> Seq(Frame)]
  BY <1>1, <1>3, SetTopStack, Zenon
<1>9. Types'
  <2>1. t.saw \in BOOLEAN /\ depth[h] + 1 \in 0 .. 3
    BY <1>2, <1>6 DEF Frame
  <2>2. intr' \in [Harts -> BOOLEAN] /\ prev' \in [Harts -> BOOLEAN] /\ depth' \in [Harts -> 0 .. 3]
    BY <1>1, <1>2, <2>1, Zenon DEF Types
  <2> QED BY <1>1, <1>2, <1>8, <2>2, Zenon DEF Types
<1>10. HartOK(h, c, f)'
  <2>1. \A l \in Locks : Has(c, f, l) <=> Has(c, t, l)
    BY <1>1, <1>3, Zenon DEF Has, Keeps, Releasing
  <2>2. \A l \in Locks : /\ h \in holders'[l] <=> Has(c, f, l)
                         /\ cpu'[l] = h <=> Has(c, f, l)
    BY <1>1, <1>2, <2>1, Zenon DEF HartOK
  <2>3. Counted(f) = depth[h] + 1
    BY <1>3, <1>6 DEF Counted, Weight, Releasing
  <2>4. (f.rt \in On => prev'[h]) /\ (f.rt \in Off => ~prev'[h])
    BY <1>1, <1>2, <1>3, <1>6, <1>7 DEF HartOK
  <2> QED BY <1>3, <1>6, <1>7, <2>2, <2>3, <2>4 DEF HartOK
<1>11. Table' /\ Quiet(h)
  BY <1>1, <1>2, <1>7, Zenon DEF Table, Quiet
<1> QED BY <1>1, <1>5, <1>9, <1>10, <1>11, SameContext, Zenon

\* The exchange gives the lock to the one hart that found it free.
LEMMA test_and_setInv ==
    ASSUME Inv, NEW h \in Harts, NEW c, NEW t, NEW n, View(h, c, t, n), test_and_set(h)
    PROVE  Inv'
<1> DEFINE f == [t EXCEPT !.op = "own"]
<1>1. /\ t.op = "spin" /\ ~locked[t.lk] /\ SetTop(h, f)
      /\ locked' = [locked EXCEPT ![t.lk] = TRUE]
      /\ holders' = [holders EXCEPT ![t.lk] = @ \cup {h}]
      /\ UNCHANGED <<cpu, intr, depth, prev, proc, state, saved>>
  BY Zenon DEF test_and_set, Doing, View
<1>2. /\ t \in Frame /\ FrameOK(c, t) /\ t.rt \in (IF n = 1 THEN Body(c) ELSE OnTop(c))
      /\ HartOK(h, c, t) /\ Types /\ Table
  BY Viewed DEF Inv
<1>3. f \in Frame /\ f.rt = t.rt /\ f.op = "own" /\ f.lk = t.lk /\ f.i = t.i /\ t.lk \in Locks
  BY <1>2, Zenon DEF Frame, Ops
<1> HIDE DEF f
<1>4. Takes(c, t) /\ Takes(c, f)
  BY <1>1, <1>2, <1>3, Zenon DEF FrameOK, Acquiring, Takes
<1>5. Legal(c, f, n)
  BY <1>1, <1>2, <1>3, <1>4, Zenon DEF Legal, FrameOK, Takes, Acquiring, Releasing
<1>6. holders[t.lk] = {}
  BY <1>1, <1>2, <1>3, Zenon DEF Table
<1>7. /\ holders'[t.lk] = {h} /\ locked'[t.lk]
      /\ \A l \in Locks \ {t.lk} : holders'[l] = holders[l] /\ locked'[l] = locked[l]
  BY <1>1, <1>2, <1>3, <1>6, Zenon DEF Types
<1>8. stack' \in [Contexts -> Seq(Frame)]
  BY <1>1, <1>3, SetTopStack, Zenon
<1>9. Types'
  <2>1. locked' \in [Locks -> BOOLEAN] /\ holders' \in [Locks -> SUBSET Harts]
    BY <1>1, <1>2, Zenon DEF Types
  <2> QED BY <1>1, <1>2, <1>8, <2>1, Zenon DEF Types
<1>10. HartOK(h, c, f)'
  <2>1. \A l \in Locks : Has(c, f, l) <=> Has(c, t, l) \/ l = t.lk
    BY <1>1, <1>3, <1>4, Zenon DEF Has, Keeps, Releasing, Takes
  <2>2. ~Has(c, t, t.lk)
    BY <1>1, Zenon DEF Has, Releasing
  <2>3. \A l \in Locks : h \in holders'[l] <=> Has(c, f, l)
    BY <1>2, <1>7, <2>1, Zenon DEF HartOK
  <2>4. \A l \in Locks : cpu'[l] = h <=> Has(c, f, l) /\ l # t.lk
    BY <1>1, <1>2, <2>1, <2>2, Zenon DEF HartOK
  <2>5. Counted(f) = Counted(t)
    BY <1>1, <1>3, Zenon DEF Counted, Weight, Releasing
  <2> QED BY <1>1, <1>2, <1>3, <2>3, <2>4, <2>5, Zenon DEF HartOK
<1>11. Table'
  BY <1>2, <1>7 DEF Table
<1>12. Quiet(h)
  <2>1. \A g \in Harts \ {h}, l \in Locks : g \in holders'[l] <=> g \in holders[l]
    BY <1>6, <1>7, Zenon
  <2> QED BY <1>1, <2>1, Zenon DEF Quiet
<1> QED BY <1>1, <1>5, <1>9, <1>10, <1>11, <1>12, SameContext, Zenon

\* The holder's name is written to the lock ...
LEMMA set_cpuInv ==
    ASSUME Inv, NEW h \in Harts, NEW c, NEW t, NEW n, View(h, c, t, n), set_cpu(h)
    PROVE  Inv'
<1> DEFINE f == [t EXCEPT !.op = "none"]
<1>1. /\ t.op = "own" /\ SetTop(h, f)
      /\ cpu' = [cpu EXCEPT ![t.lk] = h]
      /\ UNCHANGED <<locked, holders, intr, depth, prev, proc, state, saved>>
  BY Zenon DEF set_cpu, Doing, View
<1>2. /\ t \in Frame /\ FrameOK(c, t) /\ t.rt \in (IF n = 1 THEN Body(c) ELSE OnTop(c))
      /\ HartOK(h, c, t) /\ Types /\ Table
  BY Viewed DEF Inv
<1>3. f \in Frame /\ f.rt = t.rt /\ f.op = "none" /\ f.lk = t.lk /\ f.i = t.i /\ t.lk \in Locks
  BY <1>2, Zenon DEF Frame, Ops
<1> HIDE DEF f
<1>4. Takes(c, t)
  BY <1>1, <1>2, Zenon DEF FrameOK, Acquiring
<1>5. Legal(c, f, n)
  BY <1>1, <1>2, <1>3, <1>4, Zenon DEF Legal, FrameOK, Takes, Acquiring, Releasing
<1>6. Has(c, t, t.lk) /\ h \in holders[t.lk]
  BY <1>1, <1>2, <1>3, <1>4, Zenon DEF Has, Keeps, Takes, HartOK
<1>7. cpu'[t.lk] = h /\ \A l \in Locks \ {t.lk} : cpu'[l] = cpu[l]
  BY <1>1, <1>2, <1>3, Zenon DEF Types
<1>8. stack' \in [Contexts -> Seq(Frame)]
  BY <1>1, <1>3, SetTopStack, Zenon
<1>9. Types'
  <2>1. cpu' \in [Locks -> Harts \cup {None}]
    BY <1>1, <1>2, Zenon DEF Types
  <2> QED BY <1>1, <1>2, <1>8, <2>1, Zenon DEF Types
<1>10. HartOK(h, c, f)'
  <2>1. \A l \in Locks : Has(c, f, l) <=> Has(c, t, l)
    BY <1>1, <1>3, Zenon DEF Has, Releasing, Keeps
  <2>2. \A l \in Locks : /\ h \in holders'[l] <=> Has(c, f, l)
                         /\ cpu'[l] = h <=> Has(c, f, l)
    BY <1>1, <1>2, <1>6, <1>7, <2>1, Zenon DEF HartOK
  <2>3. Counted(f) = Counted(t)
    BY <1>1, <1>3, Zenon DEF Counted, Weight, Releasing
  <2> QED BY <1>1, <1>2, <1>3, <2>2, <2>3, Zenon DEF HartOK
<1>11. Table'
  BY <1>1, <1>2, Zenon DEF Table
<1>12. \A g \in Harts \ {h} : cpu[t.lk] # g
  <2> TAKE g \in Harts \ {h}
  <2>1. HartOK(g, Cur(g), Top(g)) /\ g \notin holders[t.lk]
    BY <1>2, <1>3, <1>6 DEF Inv, Table
  <2> QED BY <1>3, <2>1, Zenon DEF HartOK
<1>13. Quiet(h)
  <2>1. \A g \in Harts \ {h}, l \in Locks : cpu'[l] = g <=> cpu[l] = g
    BY <1>7, <1>12, Zenon
  <2> QED BY <1>1, <2>1, Zenon DEF Quiet
<1> QED BY <1>1, <1>5, <1>9, <1>10, <1>11, <1>13, SameContext, Zenon

\* ... and taken from it before it is free again.
LEMMA clear_cpuInv ==
    ASSUME Inv, NEW h \in Harts, NEW c, NEW t, NEW n, View(h, c, t, n), clear_cpu(h)
    PROVE  Inv'
<1> DEFINE f == [t EXCEPT !.op = "free"]
<1>1. /\ t.op = "check" /\ cpu[t.lk] = h /\ SetTop(h, f)
      /\ cpu' = [cpu EXCEPT ![t.lk] = None]
      /\ UNCHANGED <<locked, holders, intr, depth, prev, proc, state, saved>>
  BY Zenon DEF clear_cpu, is_holding, Doing, View
<1>2. /\ t \in Frame /\ FrameOK(c, t) /\ t.rt \in (IF n = 1 THEN Body(c) ELSE OnTop(c))
      /\ HartOK(h, c, t) /\ Types /\ Table
  BY Viewed DEF Inv
<1>3. f \in Frame /\ f.rt = t.rt /\ f.op = "free" /\ f.lk = t.lk /\ f.i = t.i /\ t.lk \in Locks
  BY <1>2, Zenon DEF Frame, Ops
<1> HIDE DEF f
<1>4. GivesUp(c, t) /\ GivesUp(c, f)
  BY <1>1, <1>2, <1>3, Zenon DEF FrameOK, Releasing, GivesUp
<1>5. Legal(c, f, n)
  BY <1>1, <1>2, <1>3, <1>4, Zenon DEF Legal, FrameOK, GivesUp, Acquiring, Releasing
<1>6. cpu'[t.lk] = None /\ \A l \in Locks \ {t.lk} : cpu'[l] = cpu[l]
  BY <1>1, <1>2, <1>3, Zenon DEF Types
<1>7. stack' \in [Contexts -> Seq(Frame)]
  BY <1>1, <1>3, SetTopStack, Zenon
<1>8. Types'
  <2>1. cpu' \in [Locks -> Harts \cup {None}]
    BY <1>1, <1>2, Zenon DEF Types
  <2> QED BY <1>1, <1>2, <1>7, <2>1, Zenon DEF Types
<1>9. HartOK(h, c, f)'
  <2>1. \A l \in Locks : Has(c, f, l) <=> Has(c, t, l)
    BY <1>1, <1>3, Zenon DEF Has, Releasing, Keeps
  <2>2. \A l \in Locks : h \in holders'[l] <=> Has(c, f, l)
    BY <1>1, <1>2, <2>1, Zenon DEF HartOK
  <2>3. \A l \in Locks : cpu'[l] = h <=> Has(c, f, l) /\ l # t.lk
    BY <1>1, <1>2, <1>6, <2>1, Kinds, Zenon DEF HartOK
  <2>4. Counted(f) = Counted(t)
    BY <1>1, <1>3, Zenon DEF Counted, Weight, Releasing
  <2> QED BY <1>1, <1>2, <1>3, <2>2, <2>3, <2>4, Zenon DEF HartOK
<1>10. Table'
  BY <1>1, <1>2, Zenon DEF Table
<1>11. Quiet(h)
  <2>1. \A g \in Harts \ {h}, l \in Locks : cpu'[l] = g <=> cpu[l] = g
    BY <1>1, <1>6, Kinds, Zenon
  <2> QED BY <1>1, <2>1, Zenon DEF Quiet
<1> QED BY <1>1, <1>5, <1>8, <1>9, <1>10, <1>11, SameContext, Zenon

\* release_lock() frees the lock, and puts interrupts back when it was the
\* last one.
LEMMA unlockInv ==
    ASSUME Inv, NEW h \in Harts, NEW c, NEW t, NEW n, View(h, c, t, n), unlock(h)
    PROVE  Inv'
<1> DEFINE f == [t EXCEPT !.op = "none", !.lk = Tick]
<1>1. /\ t.op = "free" /\ SetTop(h, f)
      /\ locked' = [locked EXCEPT ![t.lk] = FALSE]
      /\ holders' = [holders EXCEPT ![t.lk] = @ \ {h}]
      /\ depth' = [depth EXCEPT ![h] = @ - 1]
      /\ intr' = [intr EXCEPT ![h] = depth[h] = 1 /\ prev[h]]
      /\ prev' = [prev EXCEPT ![h] = @ /\ depth[h] > 1]
      /\ UNCHANGED <<cpu, proc, state, saved>>
  BY Zenon DEF unlock, lock_intr_enable, Doing, View
<1>2. /\ t \in Frame /\ FrameOK(c, t) /\ t.rt \in (IF n = 1 THEN Body(c) ELSE OnTop(c))
      /\ HartOK(h, c, t) /\ Types /\ Table
  BY Viewed DEF Inv
<1>3. f \in Frame /\ f.rt = t.rt /\ f.op = "none" /\ f.i = t.i /\ t.lk \in Locks /\ t.i \in Int
  <2>1. Tick \in Locks /\ 0 .. NPROC + 1 \subseteq Int
    BY LocksAssumption DEF Tick, Locks
  <2> QED BY <1>2, <2>1, Zenon DEF Frame, Ops
<1> HIDE DEF f
<1>4. GivesUp(c, t)
  BY <1>1, <1>2, Zenon DEF FrameOK, Releasing
<1>5. Legal(c, f, n)
  BY <1>1, <1>2, <1>3, <1>4, Zenon DEF Legal, FrameOK, GivesUp, Acquiring, Releasing
<1>6. depth[h] = Weight(t) + 1 /\ depth[h] \in 1 .. 3 /\ ~intr[h] /\ prev[h] \in BOOLEAN
  BY <1>1, <1>2 DEF HartOK, Counted, Releasing, Types, Weight
<1>7. Has(c, t, t.lk) /\ h \in holders[t.lk] /\ holders[t.lk] = {h}
  <2>1. Has(c, t, t.lk)
    BY <1>1, Zenon DEF Has, Releasing
  <2>2. h \in holders[t.lk]
    BY <1>2, <1>3, <2>1, Zenon DEF HartOK
  <2> QED BY <1>2, <1>3, <2>1, <2>2 DEF Table
<1>8. /\ holders'[t.lk] = {} /\ ~locked'[t.lk]
      /\ \A l \in Locks \ {t.lk} : holders'[l] = holders[l] /\ locked'[l] = locked[l]
  BY <1>1, <1>2, <1>3, <1>7, Zenon DEF Types
<1>9. /\ intr'[h] = (depth[h] = 1 /\ prev[h])
      /\ depth'[h] = depth[h] - 1
      /\ prev'[h] = (prev[h] /\ depth[h] > 1)
      /\ \A g \in Harts \ {h} : intr'[g] = intr[g] /\ depth'[g] = depth[g] /\ prev'[g] = prev[g]
  BY <1>1, <1>2, Zenon DEF Types
<1>10. stack' \in [Contexts -> Seq(Frame)]
  BY <1>1, <1>3, SetTopStack, Zenon
<1>11. Types'
  <2>1. locked' \in [Locks -> BOOLEAN] /\ holders' \in [Locks -> SUBSET Harts]
    BY <1>1, <1>2, Zenon DEF Types
  <2>2. intr' \in [Harts -> BOOLEAN] /\ prev' \in [Harts -> BOOLEAN]
    BY <1>1, <1>2, Zenon DEF Types
  <2>3. depth' \in [Harts -> 0 .. 3]
    BY <1>1, <1>2, <1>6 DEF Types
  <2> QED BY <1>1, <1>2, <1>10, <2>1, <2>2, <2>3, Zenon DEF Types
<1>12. HartOK(h, c, f)'
  <2>1. \A l \in Locks : Has(c, f, l) <=> Keeps(c, t, l)
    BY <1>3, Zenon DEF Has, Releasing, Keeps
  <2>2. ~Keeps(c, t, t.lk)
    <3>1. c \in Threads => c # Tick
      BY LocksAssumption DEF Threads, Tick
    <3>2. t.rt \in {"wake", "scan"} => t.i - 1 # Tick
      BY <1>1, <1>2, <1>3 DEF FrameOK, Releasing, Tick
    <3>3. t.rt = "asleep" => c \in Threads
      BY <1>1, <1>2, InProcess, Zenon DEF Points, Loop, Handler
    <3> QED BY <1>4, <3>1, <3>2, <3>3, Zenon DEF GivesUp, Keeps
  <2>3. \A l \in Locks : Has(c, f, l) <=> Has(c, t, l) /\ l # t.lk
    BY <1>1, <2>1, <2>2, Zenon DEF Has, Releasing
  <2>4. \A l \in Locks : h \in holders'[l] <=> Has(c, f, l)
    BY <1>2, <1>8, <2>3, Zenon DEF HartOK
  <2>5. \A l \in Locks : cpu'[l] = h <=> Has(c, f, l)
    BY <1>1, <1>2, <2>3, Zenon DEF HartOK
  <2>6. Counted(f) = depth[h] - 1
    BY <1>3, <1>6 DEF Counted, Weight, Releasing
  <2>7. (t.rt \in On => prev[h]) /\ (t.rt \in Off => ~prev[h])
    BY <1>2, <1>6 DEF HartOK
  <2>8. depth'[h] > 0 => ~intr'[h] /\ (prev'[h] <=> prev[h])
    <3>1. depth'[h] > 0 => depth[h] > 1 /\ depth[h] # 1
      BY <1>6, <1>9
    <3>2. depth[h] # 1 => ~intr'[h]
      BY <1>9, Zenon
    <3>3. depth[h] > 1 => (prev'[h] <=> prev[h])
      BY <1>9, Zenon
    <3> QED BY <3>1, <3>2, <3>3, Zenon
  <2>9. depth'[h] = 0 => (intr'[h] <=> prev[h])
    BY <1>6, <1>9
  <2> QED BY <1>3, <1>9, <2>4, <2>5, <2>6, <2>7, <2>8, <2>9, Zenon DEF HartOK
<1>13. Table'
  BY <1>2, <1>8 DEF Table
<1>14. Quiet(h)
  <2>1. \A g \in Harts \ {h}, l \in Locks : g \in holders'[l] <=> g \in holders[l]
    BY <1>7, <1>8, Zenon
  <2> QED BY <1>1, <1>9, <2>1, Zenon DEF Quiet
<1> QED BY <1>1, <1>5, <1>11, <1>12, <1>13, <1>14, SameContext, Zenon

-----------------------------------------------------------------------------
\* A step that changes the last frame and turns interrupts on or off, with no
\* lock held.
LEMMA SetIntr ==
    ASSUME Inv, NEW h \in Harts, NEW c, NEW t, NEW n, View(h, c, t, n),
           t.op = "none", Weight(t) = 0, NEW f, Legal(c, f, n), SetTop(h, f),
           NEW v \in BOOLEAN, intr' = [intr EXCEPT ![h] = v],
           UNCHANGED <<lockvars, proc, state, saved>>,
           f.op = "none", Weight(f) = 0,
           f.rt \in On => v, f.rt \in Off => ~v
    PROVE  Inv'
<1>1. f \in Frame
  BY Zenon DEF Legal
<1>2. t \in Frame /\ HartOK(h, c, t) /\ Types /\ Table
  BY Viewed, Zenon DEF Inv
<1>3. stack' \in [Contexts -> Seq(Frame)]
  BY <1>1, SetTopStack, Zenon
<1>4. intr'[h] = v /\ (\A g \in Harts \ {h} : intr'[g] = intr[g]) /\ intr' \in [Harts -> BOOLEAN]
  BY <1>2, Zenon DEF Types
<1>5. Types'
  BY <1>2, <1>3, <1>4, Zenon DEF Types, lockvars
<1>6. \A l \in Locks : ~Has(c, t, l) /\ ~Has(c, f, l)
  BY DEF Weight, Has, Keeps, Releasing
<1>7. HartOK(h, c, f)'
  <2>1. \A l \in Locks : h \notin holders'[l] /\ cpu'[l] # h
    BY <1>2, <1>6, Zenon DEF HartOK, lockvars
  <2>2. depth'[h] = 0 /\ Counted(f) = 0
    BY <1>2, Zenon DEF HartOK, Counted, Releasing, lockvars
  <2> QED BY <1>4, <1>6, <2>1, <2>2 DEF HartOK
<1>8. Table' /\ Quiet(h)
  BY <1>2, <1>4, Zenon DEF Table, Quiet, lockvars
<1> QED BY <1>5, <1>7, <1>8, SameContext, Zenon DEF lockvars

\* The top of the scheduler loop.
LEMMA cpu_scheduler_topInv ==
    ASSUME Inv, NEW h \in Harts, NEW c, NEW t, NEW n, View(h, c, t, n), cpu_scheduler_top(h)
    PROVE  Inv'
<1> DEFINE f == [t EXCEPT !.i = 1]
<1>1. /\ t.op = "none" /\ t.rt = "scan" /\ SetTop(h, f)
      /\ intr' = [intr EXCEPT ![h] = TRUE]
      /\ UNCHANGED <<lockvars, proc, state, saved>>
  BY Zenon DEF cpu_scheduler_top, At, Doing, View
<1>2. t \in Frame /\ 1 \in 0 .. NPROC + 1
  BY Viewed, LocksAssumption
<1>3. f \in Frame /\ f.rt = "scan" /\ f.op = "none" /\ f.i = 1
  BY <1>1, <1>2, Zenon DEF Frame
<1> HIDE DEF f
<1>4. n = 1 /\ "scan" \in Body(c)
  BY <1>1, InProcess DEF Body, Loop
<1>5. Legal(c, f, n)
  BY <1>3, <1>4 DEF Legal, FrameOK, Acquiring, Releasing
<1>6. Weight(t) = 0 /\ Weight(f) = 0 /\ f.rt \notin On /\ f.rt \notin Off
  BY <1>1, <1>3, Zenon DEF Weight, On, Off
<1> QED BY <1>1, <1>3, <1>5, <1>6, SetIntr, Zenon

\* To user mode and back.
LEMMA utrapretInv ==
    ASSUME Inv, NEW h \in Harts, NEW c, NEW t, NEW n, View(h, c, t, n), utrapret(h)
    PROVE  Inv'
<1> DEFINE f == [t EXCEPT !.rt = "user"]
<1>1. /\ t.op = "none" /\ t.rt = "ret" /\ SetTop(h, f)
      /\ intr' = [intr EXCEPT ![h] = FALSE]
      /\ UNCHANGED <<lockvars, proc, state, saved>>
  BY Zenon DEF utrapret, At, Doing, Go, View
<1>2. t \in Frame
  BY Viewed, Zenon
<1>3. f \in Frame /\ f.rt = "user" /\ f.op = "none"
  BY <1>1, <1>2, Zenon DEF Frame, Points
<1> HIDE DEF f
<1>4. n = 1 /\ "user" \in Body(c)
  BY <1>1, InProcess DEF Body, Loop, Points, Handler
<1>5. Legal(c, f, n)
  BY <1>3, <1>4, Zenon DEF Legal, FrameOK, Acquiring, Releasing
<1>6. Weight(t) = 0 /\ Weight(f) = 0 /\ f.rt \notin On
  BY <1>1, <1>3, Zenon DEF Weight, On
<1> QED BY <1>1, <1>3, <1>5, <1>6, SetIntr, Zenon

\* utrap() turns interrupts on for a system call, with no lock counted.
LEMMA utrap_syscallInv ==
    ASSUME Inv, NEW h \in Harts, NEW c, NEW t, NEW n, View(h, c, t, n), utrap_syscall(h)
    PROVE  Inv'
<1> DEFINE f == [t EXCEPT !.rt = "call"]
<1>1. /\ t.op = "none" /\ t.rt = "user" /\ SetTop(h, f)
      /\ intr' = [intr EXCEPT ![h] = TRUE]
      /\ UNCHANGED <<lockvars, proc, state, saved>>
  BY Zenon DEF utrap_syscall, At, Doing, Go, View
<1>2. t \in Frame
  BY Viewed, Zenon
<1>3. f \in Frame /\ f.rt = "call" /\ f.op = "none"
  BY <1>1, <1>2, Zenon DEF Frame, Points
<1> HIDE DEF f
<1>4. n = 1 /\ "call" \in Body(c)
  BY <1>1, InProcess DEF Body, Loop, Points, Handler
<1>5. Legal(c, f, n)
  BY <1>3, <1>4, Zenon DEF Legal, FrameOK, Acquiring, Releasing
<1>6. Weight(t) = 0 /\ Weight(f) = 0 /\ f.rt \notin Off
  BY <1>1, <1>3, Zenon DEF Weight, Off
<1> QED BY <1>1, <1>3, <1>5, <1>6, SetIntr, Zenon

-----------------------------------------------------------------------------
\* wakeup() changes the state of a process under that process's lock.
LEMMA wakeupInv ==
    ASSUME Inv, NEW h \in Harts, NEW c, NEW t, NEW n, View(h, c, t, n), wakeup(h)
    PROVE  Inv'
<1> DEFINE f == [t EXCEPT !.rt = "wake", !.op = "check", !.lk = t.i, !.i = t.i + 1]
<1>1. /\ t.op = "none" /\ t.rt = "wake_one" /\ SetTop(h, f)
      /\ state' = [state EXCEPT ![t.i] = IF @ = "SLEEPING" THEN "RUNNABLE" ELSE @]
      /\ UNCHANGED <<lockvars, intr, proc, saved>>
  BY Zenon DEF wakeup, At, Doing, View
<1>2. /\ t \in Frame /\ FrameOK(c, t) /\ t.rt \in (IF n = 1 THEN Body(c) ELSE OnTop(c))
      /\ HartOK(h, c, t) /\ Types /\ Table
  BY Viewed DEF Inv
<1>3. t.i \in Threads /\ t.i \in Locks /\ t.i + 1 \in 0 .. NPROC + 1 /\ t.i >= 1 /\ t.i \in Int
  BY <1>1, <1>2, LocksAssumption DEF FrameOK, Threads, Locks
<1>4. f \in Frame /\ f.rt = "wake" /\ f.op = "check" /\ f.lk = t.i /\ f.i = t.i + 1
  BY <1>2, <1>3, Zenon DEF Frame, Ops, Points
<1> HIDE DEF f
<1>5. f.rt \in (IF n = 1 THEN Body(c) ELSE OnTop(c))
  BY <1>1, <1>2, <1>4, Zenon DEF Body, OnTop, Handler, Loop, Points
<1>6. Legal(c, f, n)
  BY <1>3, <1>4, <1>5 DEF Legal, FrameOK, GivesUp, Acquiring, Releasing
<1>7. HartOK(h, c, f)'
  <2>1. \A l \in Locks : Has(c, f, l) <=> Has(c, t, l)
    BY <1>1, <1>4, Zenon DEF Has, Keeps, Releasing
  <2>2. Counted(f) = Counted(t) /\ f.rt \notin On /\ t.rt \in Off
    BY <1>1, <1>4 DEF Counted, Weight, Releasing, On, Off
  <2>3. HartOK(h, c, f)
    BY <1>1, <1>2, <1>4, <2>1, <2>2, SameLocks, Zenon
  <2> QED BY <1>1, <2>3, Zenon DEF HartOK, lockvars
<1>8. stack' \in [Contexts -> Seq(Frame)]
  BY <1>1, <1>4, SetTopStack, Zenon
<1>9. state' \in [Threads -> {"RUNNABLE", "RUNNING", "SLEEPING"}]
  BY <1>1, <1>2, Zenon DEF Types
<1>10. Types' /\ Table' /\ Quiet(h)
  BY <1>1, <1>2, <1>8, <1>9, Zenon DEF Types, Table, Quiet, lockvars
<1>11. \A u \in Threads : state[u] = "RUNNING" => state'[u] = "RUNNING"
  BY <1>1, <1>2, Zenon DEF Types
<1> QED BY <1>1, <1>6, <1>7, <1>10, <1>11, SameContext, Zenon

\* A process comes back from scheduler() with the flag it left with, on
\* whatever hart runs it now.
LEMMA resumeInv ==
    ASSUME Inv, NEW h \in Harts, NEW c, NEW t, NEW n, View(h, c, t, n), NEW point,
           \/ At(h, "sleep_resume") /\ point = "relock"
           \/ At(h, "yield_resume") /\ point = "done",
           resume(h, point)
    PROVE  Inv'
<1> DEFINE f == [t EXCEPT !.rt = point, !.op = "check", !.lk = c]
<1>0. /\ t.op = "none"
      /\ \/ t.rt = "sleep_resume" /\ point = "relock"
         \/ t.rt = "yield_resume" /\ point = "done"
  BY Zenon DEF At, Doing, View
<1>1. c \in Threads /\ proc[h] = c /\ c \in Locks /\ c # Tick
  BY <1>0, InProcess DEF Points, Loop, Handler
<1>2. /\ SetTop(h, f)
      /\ prev' = [prev EXCEPT ![h] = saved[c]]
      /\ saved' = [saved EXCEPT ![c] = FALSE]
      /\ UNCHANGED <<locked, cpu, holders, depth, intr, proc, state>>
  BY <1>1, Zenon DEF resume, Release, View
<1>3. /\ t \in Frame /\ FrameOK(c, t) /\ t.rt \in (IF n = 1 THEN Body(c) ELSE OnTop(c))
      /\ HartOK(h, c, t) /\ Types /\ Table /\ t = stack[c][Len(stack[c])]
  BY Viewed DEF Inv
<1>4. f \in Frame /\ f.rt = point /\ f.op = "check" /\ f.lk = c /\ f.i = t.i
  BY <1>0, <1>1, <1>3, Zenon DEF Frame, Ops, Points
<1> HIDE DEF f
<1>5. f.rt \in (IF n = 1 THEN Body(c) ELSE OnTop(c))
  BY <1>0, <1>1, <1>3, <1>4, Zenon DEF Body, OnTop, Handler, Loop, Points
<1>6. Legal(c, f, n)
  BY <1>0, <1>4, <1>5, Zenon DEF Legal, FrameOK, GivesUp, Acquiring, Releasing
<1>7. (point = "relock" => saved[c]) /\ (point = "done" => ~saved[c])
  BY <1>0, <1>1, <1>3, Zenon DEF Inv, Parked
<1>8. prev'[h] = saved[c] /\ \A g \in Harts \ {h} : prev'[g] = prev[g]
  BY <1>2, <1>3, Zenon DEF Types
<1>9. HartOK(h, c, f)'
  <2>1. \A l \in Locks : Has(c, f, l) <=> Has(c, t, l)
    BY <1>0, <1>4, Zenon DEF Has, Keeps, Releasing
  <2>2. \A l \in Locks : /\ h \in holders'[l] <=> Has(c, f, l)
                         /\ cpu'[l] = h <=> Has(c, f, l)
    BY <1>0, <1>2, <1>3, <2>1, Zenon DEF HartOK
  <2>3. Counted(f) = 1 /\ Counted(t) = 1
    BY <1>0, <1>4 DEF Counted, Weight, Releasing
  <2>4. depth'[h] = 1 /\ ~intr'[h]
    BY <1>2, <1>3, <2>3 DEF HartOK
  <2>5. (f.rt \in On => prev'[h]) /\ (f.rt \in Off => ~prev'[h])
    BY <1>0, <1>4, <1>7, <1>8, Zenon DEF On, Off
  <2> QED BY <1>4, <2>2, <2>3, <2>4, <2>5 DEF HartOK
<1>10. stack' \in [Contexts -> Seq(Frame)]
  BY <1>2, <1>4, SetTopStack, Zenon
<1>11. Types'
  <2>1. prev' \in [Harts -> BOOLEAN] /\ saved' \in [Threads -> BOOLEAN]
    BY <1>1, <1>2, <1>3, Zenon DEF Types
  <2> QED BY <1>2, <1>3, <1>10, <2>1, Zenon DEF Types
<1>12. Table' /\ Quiet(h)
  BY <1>2, <1>3, <1>8, Zenon DEF Table, Quiet
<1>13. \A u \in Threads \ {c} : saved'[u] = saved[u]
  BY <1>2, <1>3, Zenon DEF Types
<1> QED BY <1>2, <1>6, <1>9, <1>11, <1>12, <1>13, SameContext, Zenon

\* scheduler(): the process leaves its hart, and its lock stays with the hart,
\* whose scheduler loop will release it.
LEMMA schedulerInv ==
    ASSUME Inv, NEW h \in Harts, NEW c, NEW t, NEW n, View(h, c, t, n), NEW point, NEW new,
           \/ At(h, "asleep") /\ point = "sleep_resume" /\ new = "SLEEPING"
           \/ At(h, "yield") /\ point = "yield_resume" /\ new = "RUNNABLE",
           scheduler(h, new, point)
    PROVE  Inv'
<1> DEFINE f == [t EXCEPT !.rt = point]
<1>0. /\ t.op = "none"
      /\ \/ t.rt = "asleep" /\ point = "sleep_resume" /\ new = "SLEEPING"
         \/ t.rt = "yield" /\ point = "yield_resume" /\ new = "RUNNABLE"
  BY Zenon DEF At, Doing, View
<1>1. c \in Threads /\ proc[h] = c /\ c \in Locks /\ c # Tick /\ c # None /\ c # h
  BY <1>0, InProcess, Kinds DEF Points, Loop, Handler
<1>2. /\ SetTop(h, f)
      /\ state' = [state EXCEPT ![c] = new]
      /\ saved' = [saved EXCEPT ![c] = prev[h]]
      /\ proc' = [proc EXCEPT ![h] = None]
      /\ UNCHANGED <<lockvars, intr>>
  BY <1>1, Zenon DEF scheduler, Go, View
<1>3. /\ t \in Frame /\ FrameOK(c, t) /\ t.rt \in (IF n = 1 THEN Body(c) ELSE OnTop(c))
      /\ HartOK(h, c, t) /\ Types /\ Table /\ n = Len(stack[c]) /\ n \in {1, 2}
      /\ n = 2 => Interrupted(stack[c][1])
  BY Viewed, Zenon DEF Inv
<1>4. f \in Frame /\ f.rt = point /\ f.op = "none"
  BY <1>0, <1>3, Zenon DEF Frame, Ops, Points
<1> HIDE DEF f
<1>5. /\ stack' \in [Contexts -> Seq(Frame)]
      /\ Len(stack'[c]) = n /\ stack'[c][n] = f
      /\ n = 2 => stack'[c][1] = stack[c][1]
      /\ \A d \in Contexts \ {c} : stack'[d] = stack[d]
  BY <1>2, <1>4, SetTopStack, Zenon
<1>6. proc'[h] = None /\ \A g \in Harts \ {h} : proc'[g] = proc[g]
  BY <1>2, <1>3, Zenon DEF Types
<1>7. \A g \in Harts \ {h} : proc[g] # c
  BY <1>1, Zenon DEF Inv, OneHart
<1>8. /\ saved'[c] = prev[h] /\ \A u \in Threads \ {c} : saved'[u] = saved[u] /\ state'[u] = state[u]
  BY <1>1, <1>2, <1>3, Zenon DEF Types
<1>9. Types'
  <2>1. /\ state' \in [Threads -> {"RUNNABLE", "RUNNING", "SLEEPING"}]
        /\ saved' \in [Threads -> BOOLEAN]
        /\ proc' \in [Harts -> Threads \cup {None}]
    BY <1>0, <1>1, <1>2, <1>3, Zenon DEF Types
  <2> QED BY <1>2, <1>3, <1>5, <2>1, Zenon DEF Types, lockvars
<1>10. \A d \in Contexts : StackOK(d)'
  <2> TAKE d \in Contexts
  <2>1. StackOK(d)
    BY Zenon DEF Inv
  <2>2. CASE d # c
    BY <1>5, <2>1, <2>2, Zenon DEF StackOK
  <2>3. CASE d = c
    <3>1. FrameOK(c, f)
      BY <1>0, <1>4, Zenon DEF FrameOK, Acquiring, Releasing
    <3>2. f.rt \in (IF n = 1 THEN Body(c) ELSE OnTop(c))
      BY <1>0, <1>1, <1>3, <1>4, Zenon DEF Body, OnTop, Handler, Loop, Points
    <3> QED BY <1>3, <1>5, <2>1, <2>3, <3>1, <3>2 DEF StackOK
  <2> QED BY <2>2, <2>3, Zenon
<1>11. OneHart'
  BY <1>6, Zenon DEF OneHart, Inv
<1>12. Running'
  <2> SUFFICES ASSUME NEW g \in Harts, proc'[g] # None
               PROVE  /\ state'[proc'[g]] = "RUNNING"
                      /\ stack'[g] = stack[g] /\ proc'[g] = proc[g] /\ proc[g] # None
    BY DEF Running, Inv
  <2>1. g # h /\ proc'[g] = proc[g] /\ proc[g] # c /\ proc[g] \in Threads
    BY <1>3, <1>6, <1>7, Zenon DEF Types
  <2>2. g # c /\ g \in Contexts
    BY <1>1, Kinds, Zenon
  <2> QED BY <1>5, <1>8, <2>1, <2>2, SMTT(20) DEF Inv, Running
<1>13. Parked'
  <2> SUFFICES ASSUME NEW u \in Threads
               PROVE  LET k == stack'[u][Len(stack'[u])]
                      IN  /\ (\A g \in Harts : proc'[g] # u) =>
                               k.op = "none" /\ k.rt \in {"forkret", "sleep_resume", "yield_resume"}
                          /\ k.rt = "sleep_resume" => saved'[u]
                          /\ k.rt = "yield_resume" => ~saved'[u]
    BY Zenon DEF Parked
  <2>1. CASE u = c
    <3>1. depth[h] = 1
      BY <1>0, <1>3, Zenon DEF HartOK, Counted, Weight, Releasing
    <3>2. (t.rt = "asleep" => prev[h]) /\ (t.rt = "yield" => ~prev[h])
      BY <1>3, <3>1 DEF HartOK, On, Off
    <3> QED BY <1>0, <1>4, <1>5, <1>8, <2>1, <3>2, Zenon
  <2>2. CASE u # c
    <3>1. stack'[u] = stack[u] /\ saved'[u] = saved[u]
      BY <1>5, <1>8, <2>2, Kinds, Zenon
    <3>2. (\A g \in Harts : proc'[g] # u) => (\A g \in Harts : proc[g] # u)
      BY <1>1, <1>6, <2>2, Zenon
    <3> QED BY <3>1, <3>2, Zenon DEF Inv, Parked
  <2> QED BY <2>1, <2>2, Zenon
<1>14. \A g \in Harts : HartOK(g, Cur(g), Top(g))'
  <2> TAKE g \in Harts
  <2>1. CASE g = h
    <3>1. Len(stack[h]) = 1 /\ stack[h][1].rt = "back" /\ stack[h][1].op = "none" /\ stack[h][1].i = c
      BY <1>1, Zenon DEF Inv, Running
    <3>2. stack'[h] = stack[h] /\ Cur(h)' = h
      BY <1>1, <1>5, <1>6, Kinds, Zenon DEF Cur
    <3>3. PICK k : k = Top(h)' /\ k.rt = "back" /\ k.op = "none" /\ k.i = c
      BY <3>1, <3>2, Zenon DEF Top, Level
    <3>4. \A l \in Locks : Has(h, k, l) <=> Has(c, t, l)
      BY <1>0, <3>3, Zenon DEF Has, Keeps, Releasing
    <3>5. Counted(k) = Counted(t) /\ Counted(t) = 1 /\ k.rt \notin On /\ k.rt \notin Off
      BY <1>0, <3>3, Zenon DEF Counted, Weight, Releasing, On, Off
    <3>6. HartOK(h, h, k)
      BY <1>0, <1>3, <3>3, <3>4, <3>5, Zenon DEF HartOK
    <3> QED BY <1>2, <2>1, <3>2, <3>3, <3>6, Zenon DEF HartOK, lockvars
  <2>2. CASE g # h
    <3>1. Cur(g)' = Cur(g) /\ Cur(g) # c /\ Cur(g) \in Contexts
      BY <1>1, <1>3, <1>6, <1>7, <2>2, Kinds, Zenon DEF Cur, Types
    <3>2. Top(g)' = Top(g)
      BY <1>5, <3>1, Zenon DEF Top, Level
    <3>3. HartOK(g, Cur(g), Top(g))
      BY Zenon DEF Inv
    <3> QED BY <1>2, <3>1, <3>2, <3>3, Zenon DEF HartOK, lockvars
  <2> QED BY <2>1, <2>2, Zenon
<1>15. Table'
  BY <1>2, <1>3, Zenon DEF Table, lockvars
<1> QED BY <1>9, <1>10, <1>11, <1>12, <1>13, <1>14, <1>15, Zenon DEF Inv

\* cpu_scheduler() runs a process: it is runnable, so no hart runs it, and the
\* lock the loop took is the one the process will release.
LEMMA cpu_scheduler_runInv ==
    ASSUME Inv, NEW h \in Harts, NEW c, NEW t, NEW n, View(h, c, t, n), cpu_scheduler_run(h)
    PROVE  Inv'
<1> DEFINE f == [t EXCEPT !.rt = "back"]
<1>0. t.op = "none" /\ t.rt = "picked"
  BY Zenon DEF cpu_scheduler_run, At, Doing, View
<1>1. n = 1 /\ c = h /\ proc[h] = None /\ c \notin Threads
  BY <1>0, InProcess DEF Loop
<1>2. /\ SetTop(h, f) /\ state[t.i] = "RUNNABLE"
      /\ state' = [state EXCEPT ![t.i] = "RUNNING"]
      /\ proc' = [proc EXCEPT ![h] = t.i]
      /\ UNCHANGED <<lockvars, intr, saved>>
  BY Zenon DEF cpu_scheduler_run, Go, View
<1>3. /\ t \in Frame /\ FrameOK(c, t) /\ HartOK(h, c, t) /\ Types /\ Table
      /\ n = Len(stack[c])
  BY Viewed DEF Inv
<1>4. PICK u \in Threads : u = t.i
  BY <1>0, <1>3, Zenon DEF FrameOK
<1>5. f \in Frame /\ f.rt = "back" /\ f.op = "none" /\ f.i = u
  BY <1>0, <1>3, <1>4, Zenon DEF Frame, Ops, Points
<1> HIDE DEF f
<1>6. /\ stack' \in [Contexts -> Seq(Frame)]
      /\ Len(stack'[h]) = 1 /\ stack'[h][1] = f
      /\ \A d \in Contexts \ {h} : stack'[d] = stack[d]
  <2>1. /\ stack' \in [Contexts -> Seq(Frame)]
        /\ Len(stack'[c]) = n /\ stack'[c][n] = f
        /\ \A d \in Contexts \ {c} : stack'[d] = stack[d]
    BY <1>2, <1>5, SetTopStack
  <2> QED BY <1>1, <2>1, Zenon
<1>7. proc'[h] = u /\ \A g \in Harts \ {h} : proc'[g] = proc[g]
  BY <1>2, <1>3, <1>4, Zenon DEF Types
<1>8. \A g \in Harts : proc[g] # u
  BY <1>2, <1>4, Kinds, Zenon DEF Inv, Running
<1>9. state'[u] = "RUNNING" /\ \A v \in Threads \ {u} : state'[v] = state[v]
  BY <1>2, <1>3, <1>4, Zenon DEF Types
<1>10. Types'
  <2>1. /\ state' \in [Threads -> {"RUNNABLE", "RUNNING", "SLEEPING"}]
        /\ proc' \in [Harts -> Threads \cup {None}]
    BY <1>2, <1>3, <1>4, Zenon DEF Types
  <2> QED BY <1>2, <1>3, <1>6, <2>1, Zenon DEF Types, lockvars
<1>11. \A d \in Contexts : StackOK(d)'
  <2> TAKE d \in Contexts
  <2>1. StackOK(d)
    BY Zenon DEF Inv
  <2>2. CASE d # h
    BY <1>6, <2>1, <2>2, Zenon DEF StackOK
  <2>3. CASE d = h
    <3>1. FrameOK(h, f) /\ f.rt \in Body(h)
      BY <1>1, <1>5, Zenon DEF FrameOK, Acquiring, Releasing, Body, Loop
    <3>2. stack'[h] \in Seq(Frame)
      BY <1>6, <2>3, Zenon
    <3>3. \A k \in 1 .. Len(stack'[h]) : FrameOK(h, stack'[h][k])
      BY <1>6, <3>1
    <3>4. stack'[h][1].rt \in Body(h)
      BY <1>6, <3>1, Zenon
    <3>5. StackOK(h)'
      BY <1>6, <3>2, <3>3, <3>4 DEF StackOK
    <3> QED BY <2>3, <3>5, Zenon
  <2> QED BY <2>2, <2>3, Zenon
<1>12. OneHart'
  BY <1>7, <1>8, Zenon DEF OneHart, Inv
<1>13. Running'
  <2> SUFFICES ASSUME NEW g \in Harts, proc'[g] # None
               PROVE  /\ state'[proc'[g]] = "RUNNING"
                      /\ Len(stack'[g]) = 1 /\ stack'[g][1].rt = "back"
                      /\ stack'[g][1].op = "none" /\ stack'[g][1].i = proc'[g]
    BY Zenon DEF Running
  <2>1. CASE g = h
    BY <1>5, <1>6, <1>7, <1>9, <2>1, Zenon
  <2>2. CASE g # h
    <3>1. proc'[g] = proc[g] /\ proc[g] # u /\ proc[g] \in Threads /\ stack'[g] = stack[g]
      BY <1>3, <1>6, <1>7, <1>8, <2>2, Kinds DEF Types
    <3> QED BY <1>9, <3>1 DEF Inv, Running
  <2> QED BY <2>1, <2>2, Zenon
<1>14. Parked'
  <2> SUFFICES ASSUME NEW v \in Threads
               PROVE  LET k == stack'[v][Len(stack'[v])]
                      IN  /\ (\A g \in Harts : proc'[g] # v) =>
                               k.op = "none" /\ k.rt \in {"forkret", "sleep_resume", "yield_resume"}
                          /\ k.rt = "sleep_resume" => saved'[v]
                          /\ k.rt = "yield_resume" => ~saved'[v]
    BY Zenon DEF Parked
  <2>1. stack'[v] = stack[v] /\ saved'[v] = saved[v]
    BY <1>1, <1>2, <1>6, Kinds, Zenon
  <2>2. (\A g \in Harts : proc'[g] # v) => (\A g \in Harts : proc[g] # v)
    BY <1>1, <1>7, Kinds, Zenon
  <2> QED BY <2>1, <2>2, Zenon DEF Inv, Parked
<1>15. \A g \in Harts : HartOK(g, Cur(g), Top(g))'
  <2> TAKE g \in Harts
  <2>1. CASE g = h
    <3>1. stack'[u] = stack[u] /\ Cur(h)' = u
      BY <1>1, <1>4, <1>6, <1>7, Kinds, Zenon DEF Cur
    <3>2. PICK k : k = Top(h)' /\ k.op = "none" /\ k.rt \in {"forkret", "sleep_resume", "yield_resume"}
      BY <1>8, <3>1, Zenon DEF Top, Level, Inv, Parked
    <3>3. \A l \in Locks : Has(u, k, l) <=> Has(c, t, l)
      BY <1>0, <1>1, <1>4, <3>2, Zenon DEF Has, Keeps, Releasing
    <3>4. Counted(k) = Counted(t) /\ Counted(t) = 1 /\ k.rt \notin On /\ k.rt \notin Off
      BY <1>0, <3>2, Zenon DEF Counted, Weight, Releasing, On, Off
    <3>5. HartOK(h, u, k)
      BY <1>0, <1>3, <3>2, <3>3, <3>4, Zenon DEF HartOK
    <3> QED BY <1>2, <2>1, <3>1, <3>2, <3>5, Zenon DEF HartOK, lockvars
  <2>2. CASE g # h
    <3>0. proc'[g] = proc[g] /\ (proc[g] = None \/ proc[g] \in Threads)
      BY <1>3, <1>7, <2>2, Zenon DEF Types
    <3>1. Cur(g)' = Cur(g) /\ Cur(g) # h /\ Cur(g) \in Contexts
      <4>1. CASE proc[g] = None
        BY <2>2, <3>0, <4>1, Kinds, Zenon DEF Cur
      <4>2. CASE proc[g] \in Threads
        BY <3>0, <4>2, Kinds, Zenon DEF Cur
      <4> QED BY <3>0, <4>1, <4>2, Zenon
    <3>2. Top(g)' = Top(g)
      BY <1>6, <3>1, Zenon DEF Top, Level
    <3>3. HartOK(g, Cur(g), Top(g))
      BY Zenon DEF Inv
    <3> QED BY <1>2, <3>1, <3>2, <3>3, Zenon DEF HartOK, lockvars
  <2> QED BY <2>1, <2>2, Zenon
<1>16. Table'
  BY <1>2, <1>3, Zenon DEF Table, lockvars
<1> QED BY <1>10, <1>11, <1>12, <1>13, <1>14, <1>15, <1>16, Zenon DEF Inv

-----------------------------------------------------------------------------
\* Interrupted code has no lock and has not counted one.
LEMMA InterruptedFree ==
    ASSUME NEW c, NEW k, Interrupted(k), FrameOK(c, k)
    PROVE  /\ \A l \in Locks : ~Has(c, k, l)
           /\ Counted(k) = 0
           /\ k.rt \notin Off /\ k.op \notin {"own", "free"}
BY DEF Interrupted, FrameOK, Takes, Acquiring, Releasing, Has, Keeps, Counted, Weight, Off

\* A step that pushes or pops the frame of a handler.
LEMMA SameProcess ==
    ASSUME Inv, NEW h \in Harts, NEW c, NEW t, NEW n, View(h, c, t, n),
           stack' \in [Contexts -> Seq(Frame)],
           \A d \in Contexts \ {c} : stack'[d] = stack[d], StackOK(c)',
           NEW k, k = stack'[c][Len(stack'[c])],
           k.rt \notin {"sleep_resume", "yield_resume"},
           NEW v \in BOOLEAN, intr' = [intr EXCEPT ![h] = v],
           UNCHANGED <<lockvars, proc, state, saved>>, HartOK(h, c, k)'
    PROVE  Inv'
<1>1. c \in Contexts /\ c = (IF proc[h] = None THEN h ELSE proc[h]) /\ Types /\ Table
  BY Viewed, Zenon DEF Inv
<1>2. intr' \in [Harts -> BOOLEAN] /\ \A g \in Harts \ {h} : intr'[g] = intr[g]
  BY <1>1, Zenon DEF Types
<1>3. Types' /\ Table'
  BY <1>1, <1>2 DEF Types, Table, lockvars
<1>4. OneHart'
  BY Zenon DEF OneHart, Inv
<1>5. \A d \in Contexts : StackOK(d)'
  <2> SUFFICES ASSUME NEW d \in Contexts, d # c
               PROVE  StackOK(d)'
    BY Zenon
  <2> QED BY Zenon DEF StackOK, Inv
<1>6. Running'
  <2> SUFFICES ASSUME NEW g \in Harts, proc[g] # None
               PROVE  stack'[g] = stack[g]
    BY DEF Running, Inv
  <2>1. g # c /\ g \in Contexts
    BY <1>1, Kinds DEF Types
  <2> QED BY <2>1, Zenon
<1>7. Parked'
  <2> SUFFICES ASSUME NEW u \in Threads
               PROVE  LET j == stack'[u][Len(stack'[u])]
                      IN  /\ (\A g \in Harts : proc[g] # u) =>
                               j.op = "none" /\ j.rt \in {"forkret", "sleep_resume", "yield_resume"}
                          /\ j.rt = "sleep_resume" => saved[u]
                          /\ j.rt = "yield_resume" => ~saved[u]
    BY Zenon DEF Parked
  <2>1. CASE u = c
    <3>1. proc[h] = u
      BY <1>1, <2>1, Kinds, Zenon
    <3> QED BY <2>1, <3>1, Zenon
  <2>2. CASE u # c
    <3>1. stack'[u] = stack[u]
      BY <2>2, Kinds, Zenon
    <3> QED BY <3>1, Zenon DEF Inv, Parked
  <2> QED BY <2>1, <2>2, Zenon
<1>8. \A g \in Harts : HartOK(g, Cur(g), Top(g))'
  <2> TAKE g \in Harts
  <2>1. CASE g = h
    <3>1. Cur(h)' = c /\ Top(h)' = k
      BY <1>1, Zenon DEF Cur, Top, Level
    <3> QED BY <2>1, <3>1, Zenon DEF HartOK
  <2>2. CASE g # h
    <3>1. Cur(g) # c /\ proc[g] \in Threads \cup {None}
      BY <1>1, <2>2, Apart, Zenon DEF View, Types
    <3>2. Cur(g)' = Cur(g) /\ Cur(g) \in Contexts
      BY <3>1, Kinds, Zenon DEF Cur
    <3>3. Top(g)' = Top(g)
      BY <3>1, <3>2, Zenon DEF Top, Level
    <3>4. HartOK(g, Cur(g), Top(g))
      BY Zenon DEF Inv
    <3> QED BY <1>2, <2>2, <3>2, <3>3, <3>4 DEF HartOK, lockvars
  <2> QED BY <2>1, <2>2, Zenon
<1> QED BY <1>3, <1>4, <1>5, <1>6, <1>7, <1>8, Zenon DEF Inv

\* A handler's frame on top of the only frame.
LEMMA Pushed ==
    ASSUME NEW S, NEW s \in Seq(S), NEW x \in S
    PROVE  Len(s) = 1 =>
           /\ Append(s, x) \in Seq(S) /\ Len(Append(s, x)) = 2
           /\ Append(s, x)[1] = s[1] /\ Append(s, x)[2] = x
<1>1. Append(s, x) \in Seq(S) /\ Len(Append(s, x)) = Len(s) + 1
  OBVIOUS
<1>2. \A i \in 1 .. Len(s) : Append(s, x)[i] = s[i]
  OBVIOUS
<1>3. Append(s, x)[Len(s) + 1] = x
  OBVIOUS
<1> DEFINE a == Append(s, x)
           n == Len(s)
<1>4. a \in Seq(S) /\ Len(a) = n + 1 /\ (\A i \in 1 .. n : a[i] = s[i]) /\ a[n + 1] = x
  BY <1>1, <1>2, <1>3, Zenon
<1> HIDE DEF a, n
<1>5. n = 1 => a \in Seq(S) /\ Len(a) = 2 /\ a[1] = s[1] /\ a[2] = x
  BY <1>4
<1> QED BY <1>5, Zenon DEF a, n

\* A trap comes only when interrupts are on: no handler is running, and the
\* interrupted code has no lock.
LEMMA ktrapInv ==
    ASSUME Inv, NEW h \in Harts, NEW c, NEW t, NEW n, View(h, c, t, n), ktrap(h)
    PROVE  Inv'
<1> DEFINE k == Start("intr")
<1>1. /\ intr[h] /\ intr' = [intr EXCEPT ![h] = FALSE]
      /\ stack' = [stack EXCEPT ![c] = Append(@, k)]
      /\ UNCHANGED <<lockvars, proc, state, saved>>
  BY Zenon DEF ktrap, View
<1>2. /\ c \in Contexts /\ n \in {1, 2} /\ n = Len(stack[c]) /\ t = stack[c][n]
      /\ stack[c] \in Seq(Frame) /\ t \in Frame /\ FrameOK(c, t)
      /\ t.rt \in (IF n = 1 THEN Body(c) ELSE OnTop(c)) /\ HartOK(h, c, t)
      /\ Types
  BY Viewed DEF Inv
<1>3. depth[h] = 0 /\ Counted(t) = 0 /\ t.rt \notin Off
  <2>1. depth[h] \in 0 .. 3 /\ ~(depth[h] > 0)
    BY <1>1, <1>2, Zenon DEF HartOK, Types
  <2>2. depth[h] = 0
    BY <2>1
  <2> QED BY <1>1, <1>2, <2>2, Zenon DEF HartOK
<1>4. t.rt \in {"yield_resume", "sleep_resume", "asleep", "forkret", "back", "sleep"} => FALSE
  BY <1>2, <1>3 DEF FrameOK, Takes, GivesUp, Acquiring, Releasing, Counted, Weight
<1>5. n = 1
  BY <1>2, <1>3, <1>4, Zenon DEF OnTop, Handler, Off
<1>6. Interrupted(t)
  <2>1. t.rt \in {"ret", "call", "relock", "scan", "ticks", "picked"}
    BY <1>2, <1>3, <1>4, Zenon DEF Frame, Points, Off
  <2>2. t.op = "off" => t.saw
    BY <1>1, <1>2, Zenon DEF HartOK
  <2>3. t.op \in Ops
    BY <1>2, Zenon DEF Frame
  <2> QED BY <1>2, <1>3, <2>1, <2>2, <2>3
        DEF Interrupted, Counted, Weight, Ops, Releasing, FrameOK, Takes, GivesUp, Acquiring
<1>7. k \in Frame /\ k.rt = "intr" /\ k.op = "none"
  <2>1. Tick \in Locks /\ 0 \in 0 .. NPROC + 1
    BY LocksAssumption DEF Tick, Locks
  <2> QED BY <2>1, Zenon DEF Start, Frame, Points, Ops
<1> HIDE DEF k
<1>8. /\ stack' \in [Contexts -> Seq(Frame)]
      /\ Len(stack'[c]) = 2 /\ stack'[c][1] = t /\ stack'[c][2] = k
      /\ \A d \in Contexts \ {c} : stack'[d] = stack[d]
  <2>0. stack[c] \in Seq(Frame) /\ k \in Frame /\ Len(stack[c]) = 1 /\ t = stack[c][1]
    BY <1>2, <1>5, <1>7, Zenon
  <2>1. /\ Append(stack[c], k) \in Seq(Frame) /\ Len(Append(stack[c], k)) = 2
        /\ Append(stack[c], k)[1] = stack[c][1] /\ Append(stack[c], k)[2] = k
    BY <2>0, Pushed, Zenon
  <2>2. Append(stack[c], k)[1] = t /\ Append(stack[c], k)[2] = k
    BY <2>0, <2>1, Zenon
  <2>3. stack \in [Contexts -> Seq(Frame)]
    BY <1>2, Zenon DEF Types
  <2>4. stack'[c] = Append(stack[c], k) /\ \A d \in Contexts \ {c} : stack'[d] = stack[d]
    BY <1>1, <1>2, <2>3, Zenon
  <2>5. stack' \in [Contexts -> Seq(Frame)]
    BY <1>1, <2>1, <2>3, Zenon
  <2> QED BY <2>1, <2>2, <2>4, <2>5, Zenon
<1>9. StackOK(c)'
  <2>1. FrameOK(c, k) /\ k.rt \in OnTop(c)
    BY <1>7, Zenon DEF FrameOK, Acquiring, Releasing, OnTop, Handler
  <2>2. t.rt \in Body(c)
    BY <1>2, <1>5, Zenon
  <2>3. stack'[c] \in Seq(Frame)
    BY <1>2, <1>8, Zenon
  <2> QED BY <1>2, <1>6, <1>8, <2>1, <2>2, <2>3 DEF StackOK
<1>10. HartOK(h, c, k)'
  <2>1. \A l \in Locks : ~Has(c, k, l) /\ ~Has(c, t, l)
    BY <1>2, <1>6, <1>7, InterruptedFree DEF Has, Keeps, Releasing
  <2>2. Counted(k) = 0 /\ k.rt \notin On
    BY <1>7, Zenon DEF Counted, Weight, Releasing, On
  <2>3. intr'[h] = FALSE /\ depth'[h] = 0
    BY <1>1, <1>2, <1>3, Zenon DEF Types, lockvars
  <2>4. \A l \in Locks : h \notin holders'[l] /\ cpu'[l] # h
    BY <1>1, <1>2, <2>1, Zenon DEF HartOK, lockvars
  <2> QED BY <1>7, <2>1, <2>2, <2>3, <2>4 DEF HartOK
<1> QED BY <1>1, <1>7, <1>8, <1>9, <1>10, SameProcess, Zenon

\* The interrupted code goes on as it was.
LEMMA ktrap_endInv ==
    ASSUME Inv, NEW h \in Harts, NEW c, NEW t, NEW n, View(h, c, t, n), ktrap_end(h)
    PROVE  Inv'
<1>1. /\ t.op = "none" /\ t.rt = "done" /\ n = 2
      /\ intr' = [intr EXCEPT ![h] = TRUE]
      /\ stack' = [stack EXCEPT ![c] = <<@[1]>>]
      /\ UNCHANGED <<lockvars, proc, state, saved>>
  BY Zenon DEF ktrap_end, At, Doing, View
<1>2. /\ c \in Contexts /\ n = Len(stack[c]) /\ t = stack[c][n]
      /\ stack[c] \in Seq(Frame) /\ t \in Frame
      /\ Interrupted(stack[c][1]) /\ HartOK(h, c, t)
      /\ Types /\ StackOK(c)
  <2>1. /\ c \in Contexts /\ n = Len(stack[c]) /\ t = stack[c][n]
        /\ stack[c] \in Seq(Frame) /\ t \in Frame
        /\ n = 2 => Interrupted(stack[c][1])
        /\ HartOK(h, c, t)
    BY Viewed
  <2> QED BY <1>1, <2>1, Zenon DEF Inv
<1>3. PICK k \in Frame : k = stack[c][1] /\ FrameOK(c, k) /\ k.rt \in Body(c)
  BY <1>1, <1>2 DEF StackOK
<1>4. /\ stack' \in [Contexts -> Seq(Frame)] /\ stack'[c] = <<k>>
      /\ \A d \in Contexts \ {c} : stack'[d] = stack[d]
  BY <1>1, <1>2, <1>3 DEF Types
<1>5. Len(stack'[c]) = 1 /\ stack'[c][1] = k /\ stack'[c] \in Seq(Frame)
  BY <1>4
<1>6. StackOK(c)'
  BY <1>3, <1>5 DEF StackOK
<1>7. HartOK(h, c, k)'
  <2>1. (\A l \in Locks : ~Has(c, k, l)) /\ Counted(k) = 0 /\ k.rt \notin Off
    BY <1>2, <1>3, InterruptedFree, Zenon
  <2>2. (\A l \in Locks : ~Has(c, t, l)) /\ Counted(t) = 0
    BY <1>1, Zenon DEF Has, Keeps, Releasing, Counted, Weight
  <2>3. intr'[h] = TRUE /\ depth'[h] = 0
    BY <1>1, <1>2, <2>2, Zenon DEF Types, lockvars, HartOK
  <2>4. \A l \in Locks : h \notin holders'[l] /\ cpu'[l] # h
    BY <1>1, <1>2, <2>2, Zenon DEF HartOK, lockvars
  <2>5. k.op = "off" => k.saw = TRUE
    BY <1>2, <1>3, Zenon DEF Interrupted, Frame
  <2>6. intr'[h] /\ (k.op = "off" => k.saw = intr'[h])
    BY <2>3, <2>5, Zenon
  <2>7. ~(depth'[h] > 0)
    BY <2>3
  <2> QED BY <2>1, <2>3, <2>4, <2>6, <2>7, Zenon DEF HartOK
<1>8. k.rt \notin {"sleep_resume", "yield_resume"}
  BY <1>2, <1>3, Zenon DEF Interrupted
<1> QED BY <1>1, <1>4, <1>5, <1>6, <1>7, <1>8, SameProcess, Zenon

-----------------------------------------------------------------------------
\* The invariant holds at the start.
LEMMA InitInv == Init => Inv
<1> SUFFICES ASSUME Init
             PROVE  Inv
  BY Zenon
<1>1. NPROC \in Nat /\ NPROC + 1 \in 0 .. NPROC + 1 /\ 0 \in 0 .. NPROC + 1 /\ Tick \in Locks
  BY LocksAssumption DEF Tick, Locks
<1> DEFINE a == Start("forkret")
           b == [Start("scan") EXCEPT !.i = NPROC + 1]
<1>2. a \in Frame /\ a.rt = "forkret" /\ a.op = "none"
  BY <1>1, Zenon DEF Start, Frame, Points, Ops
<1>3. b \in Frame /\ b.rt = "scan" /\ b.op = "none" /\ b.i = NPROC + 1
  BY <1>1, Zenon DEF Start, Frame, Points, Ops
<1>4. stack = [c \in Contexts |-> IF c \in Threads THEN <<a>> ELSE <<b>>]
  BY Zenon DEF Init
<1> HIDE DEF a, b
<1>5. /\ \A c \in Contexts : /\ stack[c] \in Seq(Frame) /\ Len(stack[c]) = 1
                            /\ stack[c][1] = IF c \in Threads THEN a ELSE b
  BY <1>2, <1>3, <1>4
<1>6. stack \in [Contexts -> Seq(Frame)]
  BY <1>2, <1>3, <1>4
<1>7. Types
  BY <1>6 DEF Init, Types
<1>8. Table /\ Running /\ OneHart
  BY Zenon DEF Init, Table, Running, OneHart
<1>9. Parked
  <2>1. \A t \in Threads : stack[t][Len(stack[t])] = a
    BY <1>5, Kinds, Zenon
  <2> QED BY <1>2, <2>1, Zenon DEF Parked
<1>10. \A c \in Contexts : StackOK(c)
  <2> TAKE c \in Contexts
  <2>1. CASE c \in Threads
    <3>1. stack[c][1] = a /\ Len(stack[c]) = 1 /\ stack[c] \in Seq(Frame)
      BY <1>5, <2>1, Zenon
    <3>2. FrameOK(c, a) /\ a.rt \in Body(c)
      BY <1>2, <2>1, Zenon DEF FrameOK, Acquiring, Releasing, Body, Points, Loop
    <3> QED BY <3>1, <3>2 DEF StackOK
  <2>2. CASE c \notin Threads
    <3>1. stack[c][1] = b /\ Len(stack[c]) = 1 /\ stack[c] \in Seq(Frame)
      BY <1>5, <2>2, Zenon
    <3>2. FrameOK(c, b) /\ b.rt \in Body(c)
      BY <1>1, <1>3, <2>2 DEF FrameOK, Acquiring, Releasing, Body, Loop
    <3> QED BY <3>1, <3>2 DEF StackOK
  <2> QED BY <2>1, <2>2, Zenon
<1>11. \A h \in Harts : HartOK(h, Cur(h), Top(h))
  <2> TAKE h \in Harts
  <2>1. Cur(h) = h /\ Top(h) = b
    BY <1>5, Kinds, Zenon DEF Init, Cur, Top, Level
  <2>2. (\A l \in Locks : ~Has(h, b, l)) /\ Counted(b) = 0 /\ b.rt \notin On /\ b.rt \notin Off
    BY <1>3, Zenon DEF Has, Keeps, Releasing, Counted, Weight, On, Off
  <2>3. depth[h] = 0 /\ ~(depth[h] > 0) /\ \A l \in Locks : h \notin holders[l] /\ cpu[l] # h
    BY Kinds DEF Init
  <2> QED BY <1>3, <2>1, <2>2, <2>3, Zenon DEF HartOK
<1> QED BY <1>7, <1>8, <1>9, <1>10, <1>11, Zenon DEF Inv

\* Every step of a hart preserves it.
LEMMA StepInv ==
    ASSUME Inv, NEW h \in Harts,
           LockStep(h) \/ SchedulerStep(h) \/ CallStep(h) \/ TrapStep(h)
    PROVE  Inv'
<1>1. PICK c, t, n : View(h, c, t, n)
  BY Zenon DEF View
<1>2. CASE LockStep(h)
  BY Zenon, <1>1, <1>2, intr_readInv, intr_offInv, test_and_setInv, set_cpuInv, clear_cpuInv,
     unlockInv DEF LockStep
<1>3. CASE SchedulerStep(h)
  BY Zenon, <1>1, <1>3, cpu_scheduler_topInv, cpu_scheduler_lockInv, cpu_scheduler_runInv,
     cpu_scheduler_nextInv DEF SchedulerStep
<1>4. CASE CallStep(h)
  <2>1. CASE forkret(h) \/ utrapret(h) \/ utrap_syscall(h) \/ sys_uptime(h)
    BY <1>1, <2>1, forkretInv, utrapretInv, utrap_syscallInv, sys_uptimeInv, Zenon
  <2>2. CASE sleep(h)
    <3>1. CASE At(h, "asleep") /\ scheduler(h, "SLEEPING", "sleep_resume")
      BY <1>1, <3>1, schedulerInv, Zenon
    <3>2. CASE At(h, "sleep_resume") /\ resume(h, "relock")
      BY <1>1, <3>2, resumeInv, Zenon
    <3> QED BY <1>1, <2>2, <3>1, <3>2, sleepInv, Zenon DEF sleep
  <2> QED BY <1>4, <2>1, <2>2, Zenon DEF CallStep
<1>5. CASE TrapStep(h)
  <2>1. CASE yield_process(h)
    <3>1. CASE At(h, "yield") /\ scheduler(h, "RUNNABLE", "yield_resume")
      BY <1>1, <3>1, schedulerInv, Zenon
    <3>2. CASE At(h, "yield_resume") /\ resume(h, "done")
      BY <1>1, <3>2, resumeInv, Zenon
    <3> QED BY <1>1, <2>1, <3>1, <3>2, yield_processInv, Zenon DEF yield_process
  <2>2. CASE utrap_intr(h) \/ ktrap(h) \/ timer_interrupt(h) \/ wakeup(h) \/ utrap_end(h)
               \/ ktrap_end(h)
    BY Zenon, <1>1, <2>2, utrap_intrInv, ktrapInv, timer_interruptInv, wakeupInv, utrap_endInv,
       ktrap_endInv
  <2> QED BY <1>5, <2>1, <2>2, Zenon DEF TrapStep
<1> QED BY <1>2, <1>3, <1>4, <1>5, Zenon

\* So does a step of the system, and a step that changes nothing.
LEMMA NextInv == Inv /\ [Next]_vars => Inv'
<1> SUFFICES ASSUME Inv, [Next]_vars
             PROVE  Inv'
  BY Zenon
<1>1. CASE Next
  BY <1>1, StepInv, Zenon DEF Next
<1>2. CASE UNCHANGED vars
  <2>1. UNCHANGED <<locked, cpu, intr, depth, prev, proc, state, saved, stack, holders>>
    BY <1>2, Zenon DEF vars
  <2>2. Types' /\ Table' /\ Running' /\ Parked' /\ OneHart'
    BY <2>1 DEF Inv, Types, Table, Running, Parked, OneHart
  <2>3. \A c \in Contexts : StackOK(c)'
    BY <2>1, Zenon DEF Inv, StackOK
  <2>4. \A h \in Harts : HartOK(h, Cur(h), Top(h))'
    <3> TAKE h \in Harts
    <3>1. HartOK(h, Cur(h), Top(h)) /\ Cur(h)' = Cur(h) /\ Top(h)' = Top(h)
      BY <2>1, Zenon DEF Inv, Cur, Top, Level
    <3> QED BY <2>1, <3>1, Zenon DEF HartOK
  <2> QED BY <2>2, <2>3, <2>4, Zenon DEF Inv
<1> QED BY <1>1, <1>2, Zenon

\* The invariant holds throughout.
LEMMA InvAlways == Spec => []Inv
BY InitInv, NextInv, PTL DEF Spec

-----------------------------------------------------------------------------
\* acquire_lock() gives a lock to one hart at a time, and cpu_scheduler()
\* never runs a process on two harts.
THEOREM MutualExclusionHolds == Spec => []MutualExclusion
<1>1. Inv => MutualExclusion
  BY Zenon DEF Inv, Table, OneHart, MutualExclusion
<1> QED BY <1>1, InvAlways, PTL

\* The panics of acquire_lock(), release_lock(), lock_intr_enable() and
\* scheduler() are not reached.
THEOREM NeverPanicsHolds == Spec => []NeverPanics
<1>1. Inv => NeverPanics
  <2> SUFFICES ASSUME Inv, NEW h \in Harts
               PROVE  /\ Doing(h, "off") => ~is_holding(h, Top(h).lk)
                      /\ Doing(h, "check") => is_holding(h, Top(h).lk)
                      /\ Doing(h, "free") => ~intr[h] /\ depth[h] > 0
                      /\ At(h, "asleep") \/ At(h, "yield") => MayLeave(h)
    BY Zenon DEF NeverPanics
  <2>1. PICK c, t, n : View(h, c, t, n)
    BY Zenon DEF View
  <2>2. HartOK(h, c, t) /\ t \in Frame /\ t.lk \in Locks
    BY <2>1, Viewed DEF Frame
  <2>3. \A l \in Locks : h \in holders[l] => locked[l]
    BY Zenon DEF Inv, Table
  <2>4. t.op = "off" => ~is_holding(h, t.lk)
    BY <2>2, Zenon DEF HartOK, Has, Releasing, is_holding
  <2>5. t.op = "check" => is_holding(h, t.lk)
    BY <2>2, <2>3, Zenon DEF HartOK, Has, Releasing, is_holding
  <2>6. t.op = "free" => ~intr[h] /\ depth[h] > 0
    <3>1. t.op = "free" => Counted(t) > 0
      BY DEF Counted, Weight, Releasing
    <3> QED BY <2>2, <3>1, Zenon DEF HartOK
  <2>7. t.op = "none" /\ t.rt \in {"asleep", "yield"} => MayLeave(h)
    <3> SUFFICES ASSUME t.op = "none", t.rt \in {"asleep", "yield"}
                 PROVE  MayLeave(h)
      BY Zenon
    <3>1. proc[h] = c /\ c \in Locks
      BY <2>1, InProcess, Zenon DEF Points, Loop, Handler
    <3>2. Has(c, t, c) /\ Counted(t) = 1
      BY Zenon DEF Has, Keeps, Counted, Weight, Releasing
    <3>3. h \in holders[c] /\ cpu[c] = h
      BY <2>2, <3>1, <3>2, Zenon DEF HartOK
    <3>4. depth[h] = 1 /\ ~intr[h]
      BY <2>2, <3>2 DEF HartOK
    <3> QED BY <2>3, <3>1, <3>3, <3>4, Zenon DEF MayLeave, is_holding
  <2> QED BY <2>1, <2>4, <2>5, <2>6, <2>7, Zenon DEF View, Doing, At
<1> QED BY <1>1, InvAlways, PTL

\* The interrupt flag that lock_intr_enable() restores is the one the running
\* code had, across transfer() and changes of hart.
THEOREM IntrRestoredHolds == Spec => []IntrRestored
<1>1. Inv => IntrRestored
  BY Zenon DEF Inv, HartOK, IntrRestored, On, Off
<1> QED BY <1>1, InvAlways, PTL

\* Spinning harts hold at most tickslock, and then spin for a process lock.
THEOREM LockOrderHolds == Spec => []LockOrder
<1>1. Inv => LockOrder
  <2> SUFFICES ASSUME Inv, NEW h \in Harts, Doing(h, "spin"), NEW l \in Locks, h \in holders[l]
               PROVE  l = Tick /\ Top(h).lk # Tick
    BY Zenon DEF LockOrder
  <2>1. PICK c, t, n : View(h, c, t, n)
    BY Zenon DEF View
  <2>2. HartOK(h, c, t) /\ FrameOK(c, t) /\ t.op = "spin"
    BY <2>1, Viewed, Zenon DEF Doing, View
  <2>3. Keeps(c, t, l) /\ l # t.lk /\ Takes(c, t)
    BY <2>2, Zenon DEF HartOK, Has, Releasing, FrameOK, Acquiring
  <2>4. t.rt = "wake_one" => t.i # Tick
    BY <2>2, LocksAssumption DEF FrameOK, Threads, Tick
  <2>5. t.rt = "sleep" => c # Tick
    BY <2>1, InProcess, Zenon DEF Points, Loop, Handler
  <2> QED BY <2>1, <2>3, <2>4, <2>5, Zenon DEF Keeps, Takes, View
<1> QED BY <1>1, InvAlways, PTL

\* Every variable keeps its type; in particular no trap comes on top of a
\* handler, and no hart has more than three locks.
THEOREM TypesHold == Spec => []TypeOK
<1>1. Inv => TypeOK
  <2> SUFFICES ASSUME Inv
               PROVE  TypeOK
    BY Zenon
  <2>1. \A c \in Contexts : /\ Len(stack[c]) \in {1, 2}
                            /\ \A k \in DOMAIN stack[c] : stack[c][k] \in Frame
    BY DEF Inv, StackOK
  <2> QED BY <2>1, Zenon DEF Inv, Types, TypeOK
<1> QED BY <1>1, InvAlways, PTL

=============================================================================
