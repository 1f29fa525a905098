----------------------------- MODULE PipeProof -----------------------------
(***************************************************************************)
(* Proofs about module Pipe, for every size of the ring, any number of     *)
(* processes and calls of any length: no wakeup is lost, the page is freed *)
(* when nobody uses it, and the ring is the bounded queue of Channel.      *)
(***************************************************************************)
EXTENDS Pipe, Modular, TLAPS

\* Where num_read and num_write wrap: a multiple of the ring's size.
Period == PIPESIZE * Turns

\* The counters distinguish at least two rings.
LEMMA PeriodRange == PIPESIZE \in Nat \ {0} /\ Period \in Nat /\ 2 * PIPESIZE <= Period
<1>1. PIPESIZE \in Nat \ {0} /\ Turns \in Nat /\ Turns >= 2
  BY PipeAssumption
<1> QED BY <1>1 DEF Period

\* What an unsigned sum or difference of the counters is.
LEMMA WrapCases ==
    ASSUME NEW x \in Int, - Period <= x, x < 2 * Period
    PROVE  Wrap(x) = IF x < 0 THEN x + Period ELSE IF x < Period THEN x ELSE x - Period
<1>1. Period \in Nat \ {0}
  BY PeriodRange
<1>2. Wrap(x) = x % Period
  BY DEF Wrap, Period
<1> HIDE DEF Period
<1> QED BY <1>1, <1>2, ModCases

\* A counter that wraps goes on with the next cell of the ring.
LEMMA WrapIndex ==
    ASSUME NEW x \in Int, NEW k \in Int, - Period <= x, x < 2 * Period
    PROVE  (Wrap(x) + k) % PIPESIZE = (x + k) % PIPESIZE
<1>1. PIPESIZE \in Nat \ {0} /\ Turns \in Nat \ {0}
  BY PipeAssumption
<1> QED BY <1>1, ModOfMultiple DEF Wrap

\* What the tests of pipewrite() and piperead() on the counters mean: the
\* bytes in the ring and the room left make up its size.
LEMMA UsedRoom ==
    ASSUME NEW r \in 0 .. Period - 1, NEW w \in 0 .. Period - 1
    PROVE  /\ Wrap(w - r) \in 0 .. Period - 1
           /\ Wrap(r + PIPESIZE - w) \in 0 .. Period - 1
           /\ Wrap(w - r) <= PIPESIZE => Wrap(r + PIPESIZE - w) = PIPESIZE - Wrap(w - r)
           /\ w = Wrap(r + PIPESIZE) <=> Wrap(r + PIPESIZE - w) = 0
           /\ r = w <=> Wrap(w - r) = 0
<1>1. Period \in Nat /\ PIPESIZE \in Nat \ {0} /\ 2 * PIPESIZE <= Period
  BY PeriodRange
<1>2. Wrap(w - r) = IF w - r < 0 THEN w - r + Period ELSE IF w - r < Period THEN w - r ELSE w - r - Period
  BY <1>1, WrapCases
<1> DEFINE x == r + PIPESIZE - w
           y == r + PIPESIZE
<1>3. Wrap(x) = IF x < 0 THEN x + Period ELSE IF x < Period THEN x ELSE x - Period
  BY <1>1, WrapCases
<1>4. Wrap(y) = IF y < 0 THEN y + Period ELSE IF y < Period THEN y ELSE y - Period
  BY <1>1, WrapCases
<1> QED BY <1>1, <1>2, <1>3, <1>4

\* Advancing num_write adds to the bytes in the ring.
LEMMA AddUsed ==
    ASSUME NEW r \in 0 .. Period - 1, NEW w \in 0 .. Period - 1, NEW n \in Nat,
           Wrap(w - r) + n <= PIPESIZE
    PROVE  Wrap(w + n) \in 0 .. Period - 1 /\ Wrap(Wrap(w + n) - r) = Wrap(w - r) + n
<1>1. Period \in Nat /\ PIPESIZE \in Nat \ {0} /\ 2 * PIPESIZE <= Period
  BY PeriodRange
<1> DEFINE x == w - r
           y == w + n
           z == Wrap(y) - r
<1>2. Wrap(x) = IF x < 0 THEN x + Period ELSE IF x < Period THEN x ELSE x - Period
  BY <1>1, WrapCases
<1>3. n <= PIPESIZE
  BY <1>1, <1>2
<1>4. Wrap(y) = IF y < 0 THEN y + Period ELSE IF y < Period THEN y ELSE y - Period
  BY <1>1, <1>3, WrapCases
<1>5. Wrap(y) \in 0 .. Period - 1
  BY <1>1, <1>3, <1>4
<1>6. Wrap(z) = IF z < 0 THEN z + Period ELSE IF z < Period THEN z ELSE z - Period
  BY <1>1, <1>5, WrapCases
<1> QED BY <1>1, <1>2, <1>3, <1>4, <1>5, <1>6

\* Advancing num_read takes from them.
LEMMA TakeUsed ==
    ASSUME NEW r \in 0 .. Period - 1, NEW w \in 0 .. Period - 1, NEW n \in Nat,
           n <= Wrap(w - r), Wrap(w - r) <= PIPESIZE
    PROVE  Wrap(r + n) \in 0 .. Period - 1 /\ Wrap(w - Wrap(r + n)) = Wrap(w - r) - n
<1>1. Period \in Nat /\ PIPESIZE \in Nat \ {0} /\ 2 * PIPESIZE <= Period
  BY PeriodRange
<1> DEFINE x == w - r
           y == r + n
           z == w - Wrap(y)
<1>2. Wrap(x) = IF x < 0 THEN x + Period ELSE IF x < Period THEN x ELSE x - Period
  BY <1>1, WrapCases
<1>3. n <= PIPESIZE
  BY <1>1, <1>2
<1>4. Wrap(y) = IF y < 0 THEN y + Period ELSE IF y < Period THEN y ELSE y - Period
  BY <1>1, <1>3, WrapCases
<1>5. Wrap(y) \in 0 .. Period - 1
  BY <1>1, <1>3, <1>4
<1>6. Wrap(z) = IF z < 0 THEN z + Period ELSE IF z < Period THEN z ELSE z - Period
  BY <1>1, <1>5, WrapCases
<1> QED BY <1>1, <1>2, <1>3, <1>4, <1>5, <1>6

\* Counters stay counters.
LEMMA WrapRange == \A x \in Int : Wrap(x) \in 0 .. Period - 1
  BY PeriodRange DEF Wrap, Period

-----------------------------------------------------------------------------
\* The inductive invariant.  Types first, as far as they are needed: what the
\* bytes are does not matter.
Shape ==
    /\ num_read \in 0 .. Period - 1 /\ num_write \in 0 .. Period - 1
    /\ DOMAIN data = 0 .. PIPESIZE - 1
    /\ pc \in [Procs -> Points]
    /\ left \in [Procs -> Nat]
    /\ loaded \in [Procs -> 0 .. Period - 1]
    /\ killed \in [Procs -> BOOLEAN]
    /\ rd \subseteq Procs /\ wr \subseteq Procs
    /\ {read_open, write_open, freed, halted} \subseteq BOOLEAN

\* pipe_close() is called for an end when nobody holds it any more.
EndsOpen ==
    /\ read_open \/ rd = {}
    /\ write_open \/ wr = {}
    /\ freed => ~read_open /\ ~write_open

\* Whoever is in piperead() or pipewrite() holds that end.
CallersHold ==
    \A p \in Procs :
        /\ pc[p] \in {"read", "rsleep"} => p \in rd
        /\ pc[p] \in {"write", "wsleep", "panic"} \cup Bare => p \in wr

\* num_write is at most a ring ahead, as long as every writer has had the lock.
WithinRing == ~Broken => Used <= PIPESIZE

\* SleepersBlocked is not inductive alone: that a full ring stays full under a
\* write needs WithinRing, and that a closed end has no sleepers the others.
Inv == Shape /\ EndsOpen /\ CallersHold /\ WithinRing /\ SleepersBlocked

\* pipealloc() establishes the invariant.
LEMMA InitInv == Init => Inv
<1> SUFFICES ASSUME Init PROVE Inv
  OBVIOUS
<1>1. Period \in Nat /\ Period > 0 /\ PIPESIZE \in Nat
  BY PeriodRange
<1>cells. DOMAIN data = 0 .. PIPESIZE - 1
  <2>1. PICK b \in Bytes : data = [i \in 0 .. PIPESIZE - 1 |-> b]
    BY DEF Init
  <2> QED BY <2>1
<1>points. pc \in [Procs -> Points] /\ killed \in [Procs -> BOOLEAN]
  BY DEF Init, Points
<1>counters. 0 \in 0 .. Period - 1
  BY <1>1
<1>numbers. left \in [Procs -> Nat] /\ loaded \in [Procs -> 0 .. Period - 1]
  BY <1>counters DEF Init
<1>flags. {read_open, write_open, freed, halted} \subseteq BOOLEAN
  BY DEF Init
<1>ends. rd \subseteq Procs /\ wr \subseteq Procs
  BY PipeAssumption DEF Init
<1>pair. num_read \in 0 .. Period - 1 /\ num_write \in 0 .. Period - 1
  BY <1>counters DEF Init
<1>2. Shape
  BY <1>cells, <1>points, <1>numbers, <1>flags, <1>ends, <1>pair DEF Shape
<1>3. EndsOpen /\ CallersHold /\ SleepersBlocked
  BY DEF Init, EndsOpen, CallersHold, SleepersBlocked, Bare
<1>4. Used <= PIPESIZE
  BY <1>1, <1>2, UsedRoom DEF Init, Used, Shape
<1> QED BY <1>2, <1>3, <1>4 DEF Inv, WithinRing

\* The number of bytes, and the room for more, are numbers.
LEMMA UsedNat == Shape => Used \in Nat /\ Room \in Nat
  BY WrapRange, PeriodRange DEF Shape, Used, Room

\* The bytes of a write are a sequence.
LEMMA StringSeq == \A bs \in Strings : bs \in Seq(Bytes) /\ Len(bs) \in Nat
  BY DEF Strings

\* What the three ends of a turn in pipewrite() have in common.
Wrote(p, bs, next) ==
    /\ At(p, "write")
    /\ Len(bs) <= Room
    /\ Put(bs)
    /\ left' \in [Procs -> Nat]
    /\ next \in {"idle", "wsleep"}
    /\ next = "wsleep" => Len(bs) = Room /\ ~Refused(p)
    /\ pc' = [wake_readers(pc) EXCEPT ![p] = next]

\* A turn of pipewrite() under the lock is Wrote.
LEMMA WriteIsWrote ==
    ASSUME Inv, NEW p \in Procs, NEW bs \in Strings,
           pipewrite_sleep(p, bs) \/ pipewrite_done(p, bs) \/ pipewrite_fault(p, bs)
    PROVE  \E next \in {"idle", "wsleep"} : Wrote(p, bs, next)
<1>1. Len(bs) \in Nat /\ Room \in 0 .. Period - 1 /\ left[p] \in Nat /\ Period \in Nat
  BY StringSeq, UsedRoom, PeriodRange DEF Inv, Shape, Room
<1>2. CASE pipewrite_sleep(p, bs)
  <2>1. left' \in [Procs -> Nat] /\ Len(bs) <= Room
    BY <1>1, <1>2 DEF pipewrite_sleep, Inv, Shape
  <2>2. Wrote(p, bs, "wsleep")
    BY <1>2, <2>1 DEF pipewrite_sleep, Wrote
  <2> QED BY <2>2
<1>3. CASE pipewrite_done(p, bs)
  <2>1. left' \in [Procs -> Nat] /\ Len(bs) <= Room
    BY <1>1, <1>3 DEF pipewrite_done, Inv, Shape
  <2>2. Wrote(p, bs, "idle")
    BY <1>3, <2>1 DEF pipewrite_done, Wrote
  <2> QED BY <2>2
<1>4. CASE pipewrite_fault(p, bs)
  <2>1. left' \in [Procs -> Nat] /\ Len(bs) <= Room
    BY <1>1, <1>4 DEF pipewrite_fault, Inv, Shape
  <2>2. Wrote(p, bs, "idle")
    BY <1>4, <2>1 DEF pipewrite_fault, Wrote
  <2> QED BY <2>2
<1> QED BY <1>2, <1>3, <1>4

\* A write keeps the invariant: it wakes every sleeping reader, and a writer
\* that sleeps has filled the ring, as has every writer that sleeps already.
LEMMA WroteInv ==
    ASSUME Inv, NEW p \in Procs, NEW bs \in Strings, NEW next, Wrote(p, bs, next)
    PROVE  Inv' /\ Broken' = Broken /\ (~Broken => Used' = Used + Len(bs))
<1> DEFINE n == Len(bs)
<1>1. n \in Nat /\ Room \in 0 .. Period - 1 /\ Period \in Nat /\ PIPESIZE \in Nat
  BY StringSeq, UsedRoom, PeriodRange DEF Inv, Shape, Room
<1>2. /\ pc[p] = "write" /\ num_write' = Wrap(num_write + n)
      /\ UNCHANGED <<num_read, read_open, write_open, freed, rd, wr, loaded, killed, halted>>
      /\ DOMAIN data' = DOMAIN data
      /\ pc' = [wake_readers(pc) EXCEPT ![p] = next]
      /\ next \in {"idle", "wsleep"} /\ n <= Room
  BY DEF Wrote, At, Put, ends
<1>3. /\ pc' \in [Procs -> Points] /\ pc'[p] = next
      /\ \A q \in Procs \ {p} : pc'[q] = IF pc[q] = "rsleep" THEN "read" ELSE pc[q]
  BY <1>2 DEF Inv, Shape, wake_readers, Points
<1>4. num_write' \in 0 .. Period - 1
  BY <1>1, <1>2, WrapRange DEF Inv, Shape
<1>5. Shape'
  BY <1>2, <1>3, <1>4, SMTT(20) DEF Inv, Shape, Wrote
<1>6. EndsOpen'
  BY <1>2 DEF Inv, EndsOpen
<1>7. CallersHold'
  BY <1>2, <1>3 DEF Inv, CallersHold, Bare
<1>8. Broken' = Broken
  BY <1>2, <1>3 DEF Broken, Bare
<1>9. ASSUME ~Broken PROVE Used' = Used + n /\ Used' <= PIPESIZE /\ Room = PIPESIZE - Used /\ Used \in Nat
  <2>1. Used \in Nat /\ Used <= PIPESIZE /\ Room = PIPESIZE - Used
    BY <1>1, <1>9, UsedRoom DEF Inv, WithinRing, Shape, Used, Room
  <2>2. Used + n <= PIPESIZE
    BY <1>1, <1>2, <2>1
  <2>3. Wrap(Wrap(num_write + n) - num_read) = Used + n
    BY <1>1, <2>2, AddUsed DEF Inv, Shape, Used
  <2> QED BY <1>2, <2>1, <2>2, <2>3 DEF Used
<1>10. WithinRing'
  BY <1>8, <1>9 DEF WithinRing
<1>11. ASSUME ~Broken, n = Room PROVE Full'
  <2>1. Used' = PIPESIZE
    BY <1>1, <1>9, <1>11
  <2>2. Room' = 0
    BY <1>1, <1>5, <2>1, UsedRoom, SMTT(20) DEF Shape, Used, Room
  <2> QED BY <1>5, <2>2, UsedRoom DEF Shape, Full, Room
<1>12. ASSUME Full PROVE n = Room
  BY <1>1, <1>2, <1>12, UsedRoom DEF Inv, Shape, Full, Room
<1>13. SleepersBlocked'
  <2> SUFFICES ASSUME ~Broken, NEW q \in Procs
               PROVE /\ pc'[q] = "wsleep" => Full' /\ read_open' /\ ~killed'[q]
                     /\ pc'[q] # "rsleep"
    BY <1>8 DEF SleepersBlocked
  <2>1. pc'[q] # "rsleep"
    BY <1>2, <1>3
  <2>2. ASSUME pc'[q] = "wsleep" PROVE Full' /\ read_open' /\ ~killed'[q]
    <3>1. CASE q = p
      <4>1. n = Room /\ read_open /\ ~killed[p]
        BY <1>3, <2>2, <3>1 DEF Wrote, Refused
      <4> QED BY <1>2, <1>11, <3>1, <4>1
    <3>2. CASE q # p
      <4>1. Full /\ read_open /\ ~killed[q]
        BY <1>3, <2>2, <3>2 DEF Inv, SleepersBlocked
      <4> QED BY <1>2, <1>11, <1>12, <4>1
    <3> QED BY <3>1, <3>2
  <2> QED BY <2>1, <2>2
<1> QED BY <1>5, <1>6, <1>7, <1>8, <1>9, <1>10, <1>13 DEF Inv

\* Entering pipewrite() or piperead() keeps the invariant.
LEMMA CallInv ==
    ASSUME Inv, NEW p \in Procs, NEW n \in 0 .. MaxCount, sys_write(p, n) \/ sys_read(p, n)
    PROVE  Inv' /\ Broken' = Broken
<1>1. /\ pc[p] = "idle"
      /\ UNCHANGED <<data, num_read, num_write, read_open, write_open, freed, rd, wr, loaded, killed, halted>>
      /\ left' \in [Procs -> Nat]
  <2>1. n \in Nat
    BY PipeAssumption
  <2> QED BY <2>1 DEF sys_write, sys_read, At, ring, ends, Inv, Shape
<1>2. \/ pc' = [pc EXCEPT ![p] = "write"] /\ p \in wr
      \/ pc' = [pc EXCEPT ![p] = "read"] /\ p \in rd
  BY DEF sys_write, sys_read
<1>3. pc' \in [Procs -> Points] /\ pc'[p] \in {"write", "read"} /\ \A q \in Procs \ {p} : pc'[q] = pc[q]
  BY <1>2 DEF Inv, Shape, Points
<1>4. Shape' /\ EndsOpen'
  BY <1>1, <1>3 DEF Inv, Shape, EndsOpen
<1>5. CallersHold'
  BY <1>1, <1>2, <1>3 DEF Inv, Shape, CallersHold, Bare
<1>6. Broken' = Broken
  BY <1>1, <1>3 DEF Broken, Bare
<1>7. Used' = Used /\ Full' = Full
  BY <1>1 DEF Used, Full
<1>8. WithinRing'
  BY <1>6, <1>7 DEF Inv, WithinRing
<1>9. SleepersBlocked'
  BY <1>1, <1>3, <1>6, <1>7 DEF Inv, SleepersBlocked
<1> QED BY <1>4, <1>5, <1>6, <1>8, <1>9 DEF Inv

\* A writer without the lock breaks the pipe and nothing else.
LEMMA BareInv ==
    ASSUME Inv, NEW p \in Procs, pipewrite_refused(p) \/ BareStep(p)
    PROVE  Inv' /\ Broken'
<1>1. pc[p] \in {"write"} \cup Bare
  BY DEF pipewrite_refused, BareStep, bare_sleep, bare_fault, bare_copy, bare_load,
         bare_count, bare_store, At, Bare
<1>2. /\ UNCHANGED <<num_read, read_open, write_open, freed, rd, wr, left, killed>>
      /\ halted' \in BOOLEAN
  BY DEF pipewrite_refused, BareStep, bare_sleep, bare_fault, bare_copy, bare_load,
         bare_count, bare_store, ring, ends, Inv, Shape
<1>3. DOMAIN data' = DOMAIN data
  BY DEF pipewrite_refused, BareStep, bare_sleep, bare_fault, bare_copy, bare_load,
         bare_count, bare_store, ring
<1>4. loaded' \in [Procs -> 0 .. Period - 1]
  BY SMTT(20) DEF pipewrite_refused, BareStep, bare_sleep, bare_fault, bare_copy, bare_load,
         bare_count, bare_store, Inv, Shape
<1>5. num_write' \in 0 .. Period - 1
  <2>1. num_write' = num_write \/ num_write' = Wrap(loaded[p] + 1)
    BY DEF pipewrite_refused, BareStep, bare_sleep, bare_fault, bare_copy, bare_load,
           bare_count, bare_store, ring
  <2>2. loaded[p] + 1 \in Int
    BY PeriodRange DEF Inv, Shape
  <2> QED BY <2>1, <2>2, WrapRange DEF Inv, Shape
<1>6. \E next \in Bare \cup {"panic"} :
         pc' = [pc EXCEPT ![p] = next] \/ pc' = [wake_readers(pc) EXCEPT ![p] = next]
  BY DEF pipewrite_refused, BareStep, bare_sleep, bare_fault, bare_copy, bare_load,
         bare_count, bare_store, BareDone, Bare
<1>7. /\ pc' \in [Procs -> Points] /\ pc'[p] \in Bare \cup {"panic"}
      /\ \A q \in Procs \ {p} : pc'[q] = pc[q] \/ (pc[q] = "rsleep" /\ pc'[q] = "read")
  BY <1>6 DEF Inv, Shape, Points, Bare, wake_readers
<1>8. Broken'
  BY <1>7 DEF Broken
<1>9. Shape' /\ EndsOpen'
  BY <1>2, <1>3, <1>4, <1>5, <1>7 DEF Inv, Shape, EndsOpen
<1>10. CallersHold'
  BY <1>1, <1>2, <1>7 DEF Inv, CallersHold, Bare
<1> QED BY <1>8, <1>9, <1>10 DEF Inv, WithinRing, SleepersBlocked

\* A reader that waits, or is killed while it waits, keeps the invariant.
LEMMA ReadWaitInv ==
    ASSUME Inv, NEW p \in Procs, piperead_sleep(p) \/ piperead_killed(p)
    PROVE  Inv' /\ Broken' = Broken
<1>1. /\ pc[p] = "read" /\ MustWait
      /\ UNCHANGED <<data, num_read, num_write, read_open, write_open, freed, rd, wr, loaded, killed, halted>>
      /\ left' \in [Procs -> Nat]
  BY DEF piperead_sleep, piperead_killed, At, ring, ends, Inv, Shape
<1>2. \/ pc' = [pc EXCEPT ![p] = "rsleep"] /\ ~killed[p]
      \/ pc' = [pc EXCEPT ![p] = "idle"]
  BY DEF piperead_sleep, piperead_killed
<1>3. pc' \in [Procs -> Points] /\ pc'[p] \in {"rsleep", "idle"} /\ \A q \in Procs \ {p} : pc'[q] = pc[q]
  BY <1>2 DEF Inv, Shape, Points
<1>4. Shape' /\ EndsOpen'
  BY <1>1, <1>3 DEF Inv, Shape, EndsOpen
<1>5. CallersHold'
  BY <1>1, <1>3 DEF Inv, CallersHold, Bare
<1>6. Broken' = Broken
  BY <1>1, <1>3 DEF Broken, Bare
<1>7. Used' = Used /\ Full' = Full
  BY <1>1 DEF Used, Full
<1>8. WithinRing'
  BY <1>6, <1>7 DEF Inv, WithinRing
<1>9. SleepersBlocked'
  BY <1>1, <1>2, <1>3, <1>6, <1>7 DEF Inv, Shape, SleepersBlocked, MustWait
<1> QED BY <1>4, <1>5, <1>6, <1>8, <1>9 DEF Inv

\* What piperead() and its fault have in common.
LEMMA ReadIsTake ==
    ASSUME Inv, NEW p \in Procs, NEW j \in 0 .. PIPESIZE, piperead(p) \/ piperead_fault(p, j)
    PROVE  \E k \in Nat, lost \in 0 .. 1 : k + lost <= Used /\ Take(p, k, lost)
<1>1. Used \in Nat /\ left[p] \in Nat /\ j \in Nat /\ Min2(left[p], Used) \in Nat
  <2>1. Used \in Nat /\ left[p] \in Nat /\ j \in Nat
    BY UsedNat, PeriodRange, SMTT(20) DEF Inv, Shape
  <2> QED BY <2>1 DEF Min2
<1>2. CASE piperead(p)
  <2>1. Min2(left[p], Used) + 0 <= Used
    BY <1>1 DEF Min2
  <2> QED BY <1>1, <1>2, <2>1 DEF piperead
<1>3. CASE piperead_fault(p, j)
  <2>1. j + 1 <= Used
    BY <1>1, <1>3 DEF Min2, piperead_fault
  <2> QED BY <1>1, <1>3, <2>1 DEF piperead_fault
<1> QED BY <1>2, <1>3

\* A read keeps the invariant: it wakes every sleeping writer, and no reader
\* sleeps while there is something to read.
LEMMA TakeInv ==
    ASSUME Inv, NEW p \in Procs, NEW k \in Nat, NEW lost \in 0 .. 1,
           k + lost <= Used, Take(p, k, lost)
    PROVE  Inv' /\ Broken' = Broken /\ (~Broken => Used' = Used - (k + lost))
<1> DEFINE n == k + lost
<1>1. n \in Nat /\ Period \in Nat /\ PIPESIZE \in Nat /\ num_read + k + lost = num_read + n
  BY PeriodRange DEF Inv, Shape
<1>2. /\ pc[p] = "read" /\ ~MustWait /\ num_read' = Wrap(num_read + n)
      /\ UNCHANGED <<data, num_write, read_open, write_open, freed, rd, wr, loaded, killed, halted>>
      /\ left' \in [Procs -> Nat]
      /\ pc' = [wake_writers(pc) EXCEPT ![p] = "idle"]
  BY <1>1 DEF Take, At, ends, Inv, Shape
<1>3. /\ pc' \in [Procs -> Points] /\ pc'[p] = "idle"
      /\ \A q \in Procs \ {p} : pc'[q] = IF pc[q] = "wsleep" THEN "write" ELSE pc[q]
  BY <1>2 DEF Inv, Shape, wake_writers, Points
<1>4. num_read' \in 0 .. Period - 1
  BY <1>1, <1>2, WrapRange DEF Inv, Shape
<1>5. Shape' /\ EndsOpen'
  BY <1>2, <1>3, <1>4 DEF Inv, Shape, EndsOpen
<1>6. CallersHold'
  BY <1>2, <1>3 DEF Inv, CallersHold, Bare
<1>7. Broken' = Broken
  BY <1>2, <1>3 DEF Broken, Bare
<1>8. ASSUME ~Broken PROVE Used' = Used - n /\ Used' <= PIPESIZE
  <2>1. Used \in Nat /\ Used <= PIPESIZE
    BY <1>8, UsedNat DEF Inv, WithinRing
  <2>2. Wrap(num_write - Wrap(num_read + n)) = Used - n
    BY <1>1, <2>1, TakeUsed DEF Inv, Shape, Used
  <2>3. Used' = Used - n
    BY <1>2, <2>2 DEF Used
  <2> QED BY <1>1, <2>1, <2>3
<1>9. WithinRing'
  BY <1>7, <1>8 DEF WithinRing
<1>10. SleepersBlocked'
  <2>1. ASSUME ~Broken, NEW q \in Procs PROVE pc'[q] # "wsleep" /\ pc'[q] # "rsleep"
    BY <1>2, <1>3, <2>1 DEF Inv, SleepersBlocked, MustWait
  <2> QED BY <1>7, <2>1 DEF SleepersBlocked
<1> QED BY <1>5, <1>6, <1>7, <1>8, <1>9, <1>10 DEF Inv

\* pipe_close() keeps the invariant: it wakes those who wait for the end it
\* closes.
LEMMA CloseInv ==
    ASSUME Inv, NEW p \in Procs, NEW writable \in BOOLEAN, file_close(p, writable)
    PROVE  Inv' /\ Broken' = Broken
<1>1. /\ pc[p] = "idle"
      /\ UNCHANGED <<data, num_read, num_write, left, loaded, killed, halted>>
      /\ wr' = IF writable THEN wr \ {p} ELSE wr
      /\ rd' = IF writable THEN rd ELSE rd \ {p}
  BY DEF file_close, At, ring
<1>2. /\ {read_open', write_open', freed'} \subseteq BOOLEAN
      /\ read_open' = IF writable THEN read_open ELSE read_open /\ rd' # {}
      /\ write_open' = IF writable THEN write_open /\ wr' # {} ELSE write_open
      /\ freed' => ~read_open' /\ ~write_open'
      /\ \/ pc' = pc /\ write_open' = write_open /\ read_open' = read_open
         \/ writable /\ pc' = wake_readers(pc)
         \/ ~writable /\ pc' = wake_writers(pc)
  BY <1>1 DEF file_close, pipe_close, Inv, Shape, EndsOpen
<1>3. /\ pc' \in [Procs -> Points]
      /\ \A q \in Procs : \/ pc'[q] = pc[q]
                          \/ pc[q] = "rsleep" /\ pc'[q] = "read"
                          \/ pc[q] = "wsleep" /\ pc'[q] = "write"
  BY <1>2 DEF Inv, Shape, wake_readers, wake_writers, Points
<1>4. Shape' /\ EndsOpen'
  BY <1>1, <1>2, <1>3 DEF Inv, Shape, EndsOpen
<1>5. CallersHold'
  BY <1>1, <1>3 DEF Inv, CallersHold, Bare
<1>6. Broken' = Broken
  BY <1>1, <1>3 DEF Broken, Bare
<1>7. Used' = Used /\ Full' = Full
  BY <1>1 DEF Used, Full
<1>8. WithinRing'
  BY <1>6, <1>7 DEF Inv, WithinRing
<1>9. SleepersBlocked'
  <2> SUFFICES ASSUME ~Broken, NEW q \in Procs
               PROVE /\ pc'[q] = "wsleep" => Full' /\ read_open' /\ ~killed'[q]
                     /\ pc'[q] = "rsleep" => num_read' = num_write' /\ write_open' /\ ~killed'[q]
    BY <1>6 DEF SleepersBlocked
  <2>1. /\ pc[q] = "wsleep" => Full /\ read_open /\ ~killed[q]
        /\ pc[q] = "rsleep" => num_read = num_write /\ write_open /\ ~killed[q]
    BY DEF Inv, SleepersBlocked
  <2>2. /\ pc'[q] = "wsleep" => pc[q] = "wsleep" /\ read_open' = read_open
        /\ pc'[q] = "rsleep" => pc[q] = "rsleep" /\ write_open' = write_open
    BY <1>2, <1>3 DEF Inv, Shape, wake_readers, wake_writers
  <2> QED BY <1>1, <1>7, <2>1, <2>2, SMTT(20)
<1> QED BY <1>4, <1>5, <1>6, <1>8, <1>9 DEF Inv

\* kill() keeps the invariant: it ends the sleep of its victim.
LEMMA KillInv ==
    ASSUME Inv, NEW p \in Procs, kill(p)
    PROVE  Inv' /\ Broken' = Broken
<1>1. /\ UNCHANGED <<data, num_read, num_write, read_open, write_open, freed, rd, wr, left, loaded, halted>>
      /\ killed' = [killed EXCEPT ![p] = TRUE]
  BY DEF kill, ring, ends
<1>2. /\ pc' \in [Procs -> Points]
      /\ pc'[p] = IF pc[p] = "rsleep" THEN "read" ELSE IF pc[p] = "wsleep" THEN "write" ELSE pc[p]
      /\ \A q \in Procs \ {p} : pc'[q] = pc[q]
  BY DEF kill, Inv, Shape, Points
<1>3. killed' \in [Procs -> BOOLEAN] /\ \A q \in Procs \ {p} : killed'[q] = killed[q]
  BY <1>1 DEF Inv, Shape
<1>4. Shape' /\ EndsOpen'
  BY <1>1, <1>2, <1>3 DEF Inv, Shape, EndsOpen
<1>5. CallersHold'
  BY <1>1, <1>2 DEF Inv, CallersHold, Bare
<1>6. Broken' = Broken
  BY <1>1, <1>2 DEF Broken, Bare
<1>7. Used' = Used /\ Full' = Full
  BY <1>1 DEF Used, Full
<1>8. WithinRing'
  BY <1>6, <1>7 DEF Inv, WithinRing
<1>9. SleepersBlocked'
  BY <1>1, <1>2, <1>3, <1>6, <1>7 DEF Inv, SleepersBlocked
<1> QED BY <1>4, <1>5, <1>6, <1>8, <1>9 DEF Inv

\* A step of something else keeps the invariant.
LEMMA StutterInv ==
    ASSUME Inv, UNCHANGED vars
    PROVE  Inv' /\ Broken' = Broken
  BY DEF Inv, Shape, EndsOpen, CallersHold, WithinRing, SleepersBlocked, Broken, Used, Full, vars

\* Every step is one of these.
LEMMA Steps ==
    ASSUME Inv, [Next]_vars
    PROVE  \/ UNCHANGED vars
           \/ \E p \in Procs :
                \/ \E n \in 0 .. MaxCount : sys_write(p, n) \/ sys_read(p, n)
                \/ \E bs \in Strings, next \in {"idle", "wsleep"} : Wrote(p, bs, next)
                \/ pipewrite_refused(p) \/ BareStep(p)
                \/ piperead_sleep(p) \/ piperead_killed(p)
                \/ \E k \in Nat, lost \in 0 .. 1 : k + lost <= Used /\ Take(p, k, lost)
                \/ \E writable \in BOOLEAN : file_close(p, writable)
                \/ kill(p)
<1>1. CASE UNCHANGED vars
  BY <1>1
<1>2. CASE Next
  <2>1. PICK p \in Procs :
          \/ \E n \in 0 .. MaxCount : sys_write(p, n) \/ sys_read(p, n)
          \/ WriteStep(p) \/ BareStep(p) \/ ReadStep(p)
          \/ \E writable \in BOOLEAN : file_close(p, writable)
          \/ p \in MayKill /\ kill(p)
    BY <1>2 DEF Next
  <2>2. CASE WriteStep(p)
    BY <2>2, WriteIsWrote DEF WriteStep
  <2>3. CASE ReadStep(p)
    <3>1. 0 \in 0 .. PIPESIZE
      BY PeriodRange
    <3> QED BY <2>3, <3>1, ReadIsTake DEF ReadStep
  <2> QED BY <2>1, <2>2, <2>3
<1> QED BY <1>1, <1>2

-----------------------------------------------------------------------------
\* The invariant is inductive.
LEMMA InvStep == Inv /\ [Next]_vars => Inv'
<1> SUFFICES ASSUME Inv, [Next]_vars PROVE Inv'
  OBVIOUS
<1> QED BY Steps, StutterInv, CallInv, WroteInv, BareInv, ReadWaitInv, TakeInv, CloseInv, KillInv

\* The invariant holds in every state of every behaviour.
LEMMA InvAlways == Spec => []Inv
<1>1. Init => Inv
  BY InitInv
<1>2. Inv /\ [Next]_vars => Inv'
  BY InvStep
<1> QED BY <1>1, <1>2, PTL DEF Spec

\* No wakeup is lost in sleep() and wakeup() of pipes.c, for any number of
\* readers and writers: who sleeps has a reason to, until a writer has lost
\* the lock.
THEOREM SleepersCorrect == Spec => []SleepersBlocked
<1>1. Inv => SleepersBlocked
  BY DEF Inv
<1> QED BY <1>1, InvAlways, PTL

\* pipe_close() frees the page only when both ends are closed and nobody is
\* inside piperead() or pipewrite().
THEOREM FreedCorrect == Spec => []FreedUnused
<1>1. Inv => FreedUnused
  <2> SUFFICES ASSUME Inv, freed PROVE rd = {} /\ wr = {} /\ \A p \in Procs : pc[p] = "idle"
    BY DEF FreedUnused
  <2>1. rd = {} /\ wr = {}
    BY DEF Inv, EndsOpen, Shape
  <2> QED BY <2>1 DEF Inv, Shape, CallersHold, Points, Bare
<1> QED BY <1>1, InvAlways, PTL

\* The k cells of a ring d from counter r on.
Window(d, r, k) == [i \in 1 .. k |-> d[(r + i - 1) % PIPESIZE]]

\* The cells from a counter on are a sequence.
LEMMA WindowSeq ==
    ASSUME NEW d, NEW r, NEW k \in Nat
    PROVE  /\ \E S : Window(d, r, k) \in Seq(S)
           /\ Len(Window(d, r, k)) = k
           /\ \A i \in 1 .. k : Window(d, r, k)[i] = d[(r + i - 1) % PIPESIZE]
<1> DEFINE f == [i \in 1 .. k |-> d[(r + i - 1) % PIPESIZE]]
           S == {f[i] : i \in 1 .. k}
<1>1. Window(d, r, k) = f
  BY DEF Window
<1>2. \A i \in 1 .. k : f[i] \in S
  OBVIOUS
<1>3. f \in [1 .. k -> S]
  BY <1>2
<1> HIDE DEF S
<1>4. f \in Seq(S) /\ Len(f) = k
  BY <1>3
<1> QED BY <1>1, <1>4

\* What a part of a sequence is.
LEMMA SubSeqIs ==
    ASSUME NEW S, NEW s \in Seq(S), NEW m \in 1 .. Len(s) + 1, NEW n \in m - 1 .. Len(s)
    PROVE  SubSeq(s, m, n) = [i \in 1 .. n - m + 1 |-> s[i + m - 1]]
  OBVIOUS

\* If the first cells are kept they are a prefix of what follows.
LEMMA WindowPrefix ==
    ASSUME NEW d, NEW e, NEW r \in Int, NEW k \in Nat, NEW n \in Nat,
           \A i \in 1 .. k : e[(r + i - 1) % PIPESIZE] = d[(r + i - 1) % PIPESIZE]
    PROVE  SubSeq(Window(e, r, k + n), 1, k) = Window(d, r, k)
<1> DEFINE w == Window(e, r, k + n)
<1>1. /\ \E S : w \in Seq(S)
      /\ Len(w) = k + n
      /\ \A i \in 1 .. k + n : w[i] = e[(r + i - 1) % PIPESIZE]
  <2>1. k + n \in Nat
    OBVIOUS
  <2> QED BY <2>1, WindowSeq
<1> HIDE DEF w
<1>2. SubSeq(w, 1, k) = [i \in 1 .. k - 1 + 1 |-> w[i + 1 - 1]]
  BY <1>1, SubSeqIs
<1>3. [i \in 1 .. k - 1 + 1 |-> w[i + 1 - 1]] = [i \in 1 .. k |-> d[(r + i - 1) % PIPESIZE]]
  <2>1. k - 1 + 1 = k
    OBVIOUS
  <2>2. ASSUME NEW i \in 1 .. k PROVE w[i + 1 - 1] = d[(r + i - 1) % PIPESIZE]
    <3>1. i + 1 - 1 = i /\ i \in 1 .. k + n
      OBVIOUS
    <3> QED BY <1>1, <3>1
  <2> QED BY <2>1, <2>2
<1> QED BY <1>2, <1>3 DEF Window, w

\* Advancing the counter drops the first cells, those before it are a prefix.
LEMMA WindowSuffix ==
    ASSUME NEW d, NEW r \in 0 .. Period - 1, NEW k \in Nat, NEW n \in Nat, n <= k, k <= PIPESIZE
    PROVE  /\ SubSeq(Window(d, r, k), n + 1, k) = Window(d, Wrap(r + n), k - n)
           /\ SubSeq(Window(d, r, k), 1, n) = Window(d, r, n)
<1> DEFINE w == Window(d, r, k)
<1>1. /\ \E S : w \in Seq(S)
      /\ Len(w) = k
      /\ \A i \in 1 .. k : w[i] = d[(r + i - 1) % PIPESIZE]
  BY WindowSeq
<1>2. Period \in Nat /\ PIPESIZE \in Nat /\ PIPESIZE <= Period
  BY PeriodRange
<1> HIDE DEF w
<1>3. SubSeq(w, n + 1, k) = [i \in 1 .. k - (n + 1) + 1 |-> w[i + (n + 1) - 1]]
  BY <1>1, SubSeqIs
<1>4. SubSeq(w, 1, n) = [i \in 1 .. n - 1 + 1 |-> w[i + 1 - 1]]
  BY <1>1, SubSeqIs
<1>5. ASSUME NEW i \in 1 .. k - n
      PROVE  (Wrap(r + n) + i - 1) % PIPESIZE = (r + (i + n) - 1) % PIPESIZE
  <2>1. r + n \in Int /\ - Period <= r + n /\ r + n < 2 * Period /\ i - 1 \in Int
    BY <1>2
  <2>2. (Wrap(r + n) + (i - 1)) % PIPESIZE = (r + n + (i - 1)) % PIPESIZE
    BY <2>1, WrapIndex
  <2>3. Wrap(r + n) + (i - 1) = Wrap(r + n) + i - 1 /\ r + n + (i - 1) = r + (i + n) - 1
    BY <1>2, <2>1, WrapRange
  <2> QED BY <2>2, <2>3
<1>6. [i \in 1 .. k - (n + 1) + 1 |-> w[i + (n + 1) - 1]]
        = [i \in 1 .. k - n |-> d[(Wrap(r + n) + i - 1) % PIPESIZE]]
  <2>1. k - (n + 1) + 1 = k - n
    OBVIOUS
  <2>2. ASSUME NEW i \in 1 .. k - n PROVE w[i + (n + 1) - 1] = d[(Wrap(r + n) + i - 1) % PIPESIZE]
    <3>1. i + (n + 1) - 1 = i + n /\ i + n \in 1 .. k
      OBVIOUS
    <3> QED BY <1>1, <1>5, <3>1
  <2> QED BY <2>1, <2>2
<1>7. [i \in 1 .. n - 1 + 1 |-> w[i + 1 - 1]] = [i \in 1 .. n |-> d[(r + i - 1) % PIPESIZE]]
  BY <1>1
<1>8. SubSeq(w, n + 1, k) = Window(d, Wrap(r + n), k - n)
  BY <1>3, <1>6 DEF Window
<1>9. SubSeq(w, 1, n) = Window(d, r, n)
  BY <1>4, <1>7 DEF Window
<1> QED BY <1>8, <1>9 DEF w

\* The cells a write fills are not among those still to be read.
LEMMA OldCellsKept ==
    ASSUME Inv, ~Broken, NEW p \in Procs, NEW bs \in Strings, NEW next, Wrote(p, bs, next),
           NEW i \in 1 .. Used
    PROVE  data'[(num_read + i - 1) % PIPESIZE] = data[(num_read + i - 1) % PIPESIZE]
<1> DEFINE c == (num_read + i - 1) % PIPESIZE
           n == Len(bs)
<1>1. /\ Used \in Nat /\ n \in Nat /\ Used + n <= PIPESIZE /\ PIPESIZE \in Nat \ {0}
      /\ num_read \in Int /\ num_write \in Int /\ DOMAIN bs = 1 .. n
  <2>1. Used \in Nat /\ n \in Nat /\ PIPESIZE \in Nat \ {0} /\ DOMAIN bs = 1 .. n
    BY UsedNat, StringSeq, PeriodRange DEF Inv
  <2>2. Used <= PIPESIZE /\ Room = PIPESIZE - Used
    BY UsedRoom DEF Inv, WithinRing, Shape, Used, Room
  <2>3. n <= Room
    BY DEF Wrote
  <2> QED BY <2>1, <2>2, <2>3, PeriodRange DEF Inv, Shape
<1>2. ASSUME NEW k \in 1 .. n PROVE (num_write + k - 1) % PIPESIZE # c
  <2>1. (Wrap(num_read + Used) + (k - 1)) % PIPESIZE = (num_read + Used + (k - 1)) % PIPESIZE
    <3>1. num_read + Used \in Int /\ - Period <= num_read + Used /\ num_read + Used < 2 * Period
          /\ k - 1 \in Int
      BY <1>1, PeriodRange, SMTT(20) DEF Inv, Shape
    <3> QED BY <3>1, WrapIndex
  <2>2. Wrap(num_read + Used) = num_write
    <3> DEFINE x == num_write - num_read
               y == num_read + Used
    <3>1. Period \in Nat /\ num_read \in 0 .. Period - 1 /\ num_write \in 0 .. Period - 1
          /\ PIPESIZE <= Period
      BY PeriodRange DEF Inv, Shape
    <3>2. Used = IF x < 0 THEN x + Period ELSE IF x < Period THEN x ELSE x - Period
      BY <3>1, WrapCases DEF Used
    <3>3. Wrap(y) = IF y < 0 THEN y + Period ELSE IF y < Period THEN y ELSE y - Period
      BY <1>1, <3>1, WrapCases
    <3> QED BY <3>1, <3>2, <3>3
  <2>3. num_write + (k - 1) = num_write + k - 1
    BY <1>1
  <2> DEFINE a == num_read + i - 1
             b == num_read + Used + (k - 1)
  <2>4. a \in Int /\ b \in Int /\ a < b /\ b < a + PIPESIZE
    BY <1>1
  <2>5. a % PIPESIZE # b % PIPESIZE
    <3> HIDE DEF a, b
    <3> QED BY <1>1, <2>4, ModDiffer
  <2> QED BY <2>1, <2>2, <2>3, <2>5
<1>3. c \in DOMAIN data
  <2>1. num_read + i - 1 \in Int
    BY <1>1
  <2>2. c \in 0 .. PIPESIZE - 1
    BY <1>1, <2>1, Quotient
  <2> QED BY <2>2 DEF Inv, Shape
<1>4. {k \in DOMAIN bs : (num_write + k - 1) % PIPESIZE = c} = {}
  BY <1>1, <1>2
<1> HIDE DEF c
<1>5. data'[c] = data[c]
  BY <1>3, <1>4 DEF Wrote, Put
<1> QED BY <1>5 DEF c

\* A write of pipewrite() is a Send of the channel.
LEMMA WroteSends ==
    ASSUME Inv, ~Broken, NEW p \in Procs, NEW bs \in Strings, NEW next, Wrote(p, bs, next)
    PROVE  Ch!Send
<1>1. Used \in Nat /\ Len(bs) \in Nat /\ Used' = Used + Len(bs) /\ Used' <= PIPESIZE
  <2>1. Inv' /\ ~Broken' /\ Used' = Used + Len(bs)
    BY WroteInv
  <2> QED BY <2>1, UsedNat, StringSeq DEF Inv, WithinRing
<1>2. num_read' = num_read /\ num_read \in Int
  BY PeriodRange DEF Wrote, Put, Inv, Shape
<1>3. /\ Oldest(Used) = Window(data, num_read, Used)
      /\ Oldest(Used)' = Window(data', num_read, Used + Len(bs))
  BY <1>1, <1>2 DEF Oldest, Window
<1>4. SubSeq(Window(data', num_read, Used + Len(bs)), 1, Used) = Window(data, num_read, Used)
  BY <1>1, <1>2, OldCellsKept, WindowPrefix
<1>5. Len(Oldest(Used)) = Used /\ Len(Oldest(Used)') = Used + Len(bs)
  BY <1>1, <1>3, WindowSeq
<1>6. write_open /\ UNCHANGED <<ret, write_open>>
  BY DEF Inv, Shape, EndsOpen, CallersHold, Wrote, At, Put, ends
<1> QED BY <1>1, <1>3, <1>4, <1>5, <1>6 DEF Ch!Send

\* A read of piperead() is a Receive of the channel.
LEMMA TakeReceives ==
    ASSUME Inv, ~Broken, NEW p \in Procs, NEW k \in Nat, NEW lost \in 0 .. 1,
           k + lost <= Used, Take(p, k, lost)
    PROVE  Ch!Receive
<1>1. /\ Used \in Nat /\ Used <= PIPESIZE /\ Used' = Used - (k + lost)
      /\ num_read \in 0 .. Period - 1 /\ k + lost \in Nat
  BY TakeInv, UsedNat, SMTT(20) DEF Inv, WithinRing, Shape
<1>2. num_read' = Wrap(num_read + (k + lost)) /\ data' = data
  <2>1. num_read + k + lost = num_read + (k + lost)
    BY <1>1, PeriodRange
  <2> QED BY <2>1 DEF Take
<1>3. /\ Oldest(Used) = Window(data, num_read, Used)
      /\ Oldest(Used)' = Window(data, Wrap(num_read + (k + lost)), Used - (k + lost))
      /\ Oldest(k) = Window(data, num_read, k)
  BY <1>1, <1>2 DEF Oldest, Window
<1>4. Len(Oldest(Used)) = Used
  BY <1>1, <1>3, WindowSeq
<1>5. ret' = SubSeq(Oldest(Used), 1, k)
  <2>1. k <= Used
    BY <1>1
  <2>2. SubSeq(Window(data, num_read, Used), 1, k) = Window(data, num_read, k)
    BY <1>1, <2>1, WindowSuffix
  <2>3. ret' = Oldest(k)
    BY DEF Take
  <2> QED BY <1>3, <2>2, <2>3
<1>6. Oldest(Used)' = SubSeq(Oldest(Used), k + lost + 1, Len(Oldest(Used)))
  <2> DEFINE n == k + lost
  <2>1. n \in Nat /\ n <= Used
    BY <1>1
  <2>2. SubSeq(Window(data, num_read, Used), n + 1, Used) = Window(data, Wrap(num_read + n), Used - n)
    <3> HIDE DEF n
    <3> QED BY <1>1, <2>1, WindowSuffix
  <2> QED BY <1>3, <1>4, <2>2
<1>7. UNCHANGED write_open
  BY DEF Take, ends
<1>8. k \in 0 .. Len(Oldest(Used)) /\ k + lost <= Len(Oldest(Used))
  BY <1>1, <1>4
<1> QED BY <1>5, <1>6, <1>7, <1>8 DEF Ch!Receive

\* Every step of the pipe is a step of the channel or leaves it alone.
LEMMA StepImplements ==
    ASSUME Inv, [Next]_vars
    PROVE  [Ch!CNext]_(Ch!cvars)
<1>1. CASE Broken'
  BY <1>1 DEF Ch!CNext
<1>2. ASSUME NEW p \in Procs, NEW bs \in Strings, NEW next, Wrote(p, bs, next), ~Broken'
      PROVE  Ch!CNext
  BY <1>2, WroteInv, WroteSends DEF Ch!CNext
<1>3. ASSUME NEW p \in Procs, NEW k \in Nat, NEW lost \in 0 .. 1,
             k + lost <= Used, Take(p, k, lost), ~Broken'
      PROVE  Ch!CNext
  BY <1>3, TakeInv, TakeReceives DEF Ch!CNext
<1>4. ASSUME NEW p \in Procs, NEW writable \in BOOLEAN, file_close(p, writable)
      PROVE  [Ch!CNext]_(Ch!cvars)
  <2>1. Broken' = Broken
    BY <1>4, CloseInv
  <2>2. UNCHANGED <<data, num_read, num_write, ret>>
    BY <1>4 DEF file_close, ring
  <2>3. UNCHANGED Oldest(Used)
    BY <2>2 DEF Oldest, Used
  <2>4. write_open' = FALSE \/ UNCHANGED write_open
    BY <1>4 DEF file_close, pipe_close
  <2> QED BY <2>1, <2>2, <2>3, <2>4 DEF Ch!CNext, Ch!Close, Ch!cvars
<1>5. ASSUME Broken' = Broken, UNCHANGED <<data, num_read, num_write, ret, write_open>>
      PROVE  UNCHANGED Ch!cvars
  BY <1>5 DEF Ch!cvars, Oldest, Used
<1>6. ASSUME NEW p \in Procs, NEW n \in 0 .. MaxCount, sys_write(p, n) \/ sys_read(p, n)
      PROVE  UNCHANGED Ch!cvars
  BY <1>5, <1>6, CallInv DEF sys_write, sys_read, ring, ends
<1>7. ASSUME NEW p \in Procs, piperead_sleep(p) \/ piperead_killed(p)
      PROVE  UNCHANGED Ch!cvars
  BY <1>5, <1>7, ReadWaitInv DEF piperead_sleep, piperead_killed, ring, ends
<1>8. ASSUME NEW p \in Procs, kill(p)
      PROVE  UNCHANGED Ch!cvars
  BY <1>5, <1>8, KillInv DEF kill, ring, ends
<1>9. ASSUME UNCHANGED vars
      PROVE  UNCHANGED Ch!cvars
  BY <1>5, <1>9, StutterInv DEF vars
<1> QED BY <1>1, <1>2, <1>3, <1>4, <1>6, <1>7, <1>8, <1>9, Steps, BareInv

\* A new pipe is an empty channel.
LEMMA InitImplements == Init => Ch!CInit
<1> SUFFICES ASSUME Init PROVE Ch!CInit
  OBVIOUS
<1>1. Used = 0
  <2>1. num_read \in 0 .. Period - 1 /\ num_write \in 0 .. Period - 1 /\ num_read = num_write
    BY PeriodRange DEF Init
  <2> QED BY <2>1, UsedRoom DEF Used
<1>2. Oldest(Used) = <<>>
  BY <1>1 DEF Oldest
<1>3. ~Broken
  BY DEF Init, Broken, Bare
<1> QED BY <1>2, <1>3 DEF Init, Ch!CInit

\* piperead() and pipewrite() on the ring with its wrapping counters implement
\* the bounded queue of module Channel, for every size, whatever calls, faults,
\* closes and kills interleave, until a writer has lost the lock.
THEOREM PipeImplementsChannel == Spec => ImplementsChannel
<1>1. Init => Ch!CInit
  BY InitImplements
<1>2. Inv /\ [Next]_vars => [Ch!CNext]_(Ch!cvars)
  BY StepImplements
<1> QED BY <1>1, <1>2, InvAlways, PTL DEF Spec, ImplementsChannel, Ch!CSpec
=============================================================================
