----------------------------- MODULE DiskProof -----------------------------
(***************************************************************************)
(* Proofs about module Disk, for every number of descriptors, of processes *)
(* and of turns of the counters: requests never share a descriptor and     *)
(* none is lost; and every completion reaches the process that waits for   *)
(* it, by an invariant that ties the entries of both rings to waiting      *)
(* processes.                                                              *)
(***************************************************************************)
EXTENDS Disk, Modular, FiniteSetTheorems, WellFoundedInduction, TLAPS

-----------------------------------------------------------------------------
\* alloc_desc() takes the lowest free descriptor: there is one.
LEMMA MinIn ==
    ASSUME NEW S, S \subseteq Nat, S # {}
    PROVE  Min(S) \in S
<1> DEFINE R == OpToRel(<, Nat)
<1>1. IsWellFoundedOn(R, Nat)
  BY NatLessThanWellFounded, Zenon
<1>2. PICK x \in S : \A y \in S : ~(<<y, x>> \in R)
  <2> HIDE DEF R
  <2> QED BY <1>1, WFMin, Zenon
<1>3. \A y \in S : x <= y
  <2> TAKE y \in S
  <2>1. ~(y < x)
    BY <1>2, Zenon DEF OpToRel
  <2> QED BY <2>1
<1> QED BY <1>2, <1>3, Zenon DEF Min

\* The table of descriptors is finite.
LEMMA DescsFinite == Descs \subseteq Nat /\ IsFiniteSet(Descs) /\ Cardinality(Descs) = NUM
<1>1. NUM \in Nat /\ NUM >= 3
  BY DiskAssumption, Zenon
<1>2. 0 \in Int /\ NUM - 1 \in Int /\ ~(0 > NUM - 1) /\ NUM - 1 - 0 + 1 = NUM
  BY <1>1
<1>3. IsFiniteSet(0 .. NUM - 1) /\ Cardinality(0 .. NUM - 1) = NUM - 1 - 0 + 1
  BY <1>2, FS_Interval, Zenon
<1> QED BY <1>1, <1>2, <1>3 DEF Descs

\* Three elements leave a finite set.
LEMMA RemoveThree ==
    ASSUME NEW S, IsFiniteSet(S), NEW a \in S, NEW b \in S \ {a}, NEW c \in S \ {a, b}
    PROVE  IsFiniteSet(S \ {a, b, c}) /\ Cardinality(S \ {a, b, c}) = Cardinality(S) - 3
<1>0. Cardinality(S) \in Nat
  BY FS_CardinalityType, Zenon
<1>1. IsFiniteSet(S \ {a}) /\ Cardinality(S \ {a}) = Cardinality(S) - 1
  BY FS_RemoveElement, Zenon
<1>2. /\ IsFiniteSet((S \ {a}) \ {b})
      /\ Cardinality((S \ {a}) \ {b}) = Cardinality(S \ {a}) - 1
  BY <1>1, FS_RemoveElement, Zenon
<1>3. c \in (S \ {a}) \ {b} /\ S \ {a, b, c} = ((S \ {a}) \ {b}) \ {c}
  BY Zenon
<1>4. /\ IsFiniteSet(((S \ {a}) \ {b}) \ {c})
      /\ Cardinality(((S \ {a}) \ {b}) \ {c}) = Cardinality((S \ {a}) \ {b}) - 1
  BY <1>2, <1>3, FS_RemoveElement, Zenon
<1> QED BY <1>0, <1>1, <1>2, <1>3, <1>4

\* A set of three or more numbers has a smallest, a second and a third one.
LEMMA LowestThree ==
    ASSUME NEW S, S \subseteq Nat, IsFiniteSet(S), Cardinality(S) >= 3
    PROVE  /\ Min(S) \in S
           /\ Min(S \ {Min(S)}) \in S \ {Min(S)}
           /\ Min(S \ {Min(S), Min(S \ {Min(S)})}) \in S \ {Min(S), Min(S \ {Min(S)})}
<1> DEFINE a == Min(S)
           b == Min(S \ {a})
           c == Min(S \ {a, b})
<1>0. Cardinality(S) \in Nat
  BY FS_CardinalityType, Zenon
<1>1. a \in S
  <2>1. S # {}
    BY <1>0, FS_EmptySet
  <2> QED BY <2>1, MinIn, Zenon
<1> HIDE DEF a
<1>2. IsFiniteSet(S \ {a}) /\ Cardinality(S \ {a}) = Cardinality(S) - 1
  BY <1>1, FS_RemoveElement, Zenon
<1>3. b \in S \ {a}
  <2>1. Cardinality(S \ {a}) # 0
    BY <1>0, <1>2
  <2>2. S \ {a} # {} /\ S \ {a} \subseteq Nat
    BY <2>1, FS_EmptySet, Zenon
  <2> QED BY <2>2, MinIn, Zenon
<1> HIDE DEF b
<1>4. /\ IsFiniteSet((S \ {a}) \ {b})
      /\ Cardinality((S \ {a}) \ {b}) = Cardinality(S \ {a}) - 1
  BY <1>2, <1>3, FS_RemoveElement, Zenon
<1>5. (S \ {a}) \ {b} = S \ {a, b}
  BY Zenon
<1>6. c \in S \ {a, b}
  <2>1. Cardinality(S \ {a, b}) # 0
    BY <1>0, <1>2, <1>4, <1>5
  <2>2. S \ {a, b} # {} /\ S \ {a, b} \subseteq Nat
    BY <2>1, FS_EmptySet, Zenon
  <2> QED BY <2>2, MinIn, Zenon
<1> QED BY <1>1, <1>3, <1>6, Zenon DEF a, b

\* With three or more free descriptors alloc3_desc() gets three different ones.
LEMMA AllocThree ==
    ASSUME free \subseteq Descs, Cardinality(free) >= 3
    PROVE  First \in free /\ Second \in free \ {First} /\ Third \in free \ {First, Second}
<1>1. free \subseteq Nat /\ IsFiniteSet(free)
  BY DescsFinite, FS_Subset, Zenon
<1> QED BY <1>1, LowestThree, Zenon DEF First, Second, Third

\* Three elements join a finite set.
LEMMA AddThree ==
    ASSUME NEW S, IsFiniteSet(S), NEW a, NEW b, NEW c,
           a \notin S, b \notin S \cup {a}, c \notin S \cup {a, b}
    PROVE  Cardinality(S \cup {a, b, c}) = Cardinality(S) + 3
<1>0. Cardinality(S) \in Nat
  BY FS_CardinalityType, Zenon
<1>1. IsFiniteSet(S \cup {a}) /\ Cardinality(S \cup {a}) = Cardinality(S) + 1
  BY FS_AddElement, Zenon
<1>2. /\ IsFiniteSet((S \cup {a}) \cup {b})
      /\ Cardinality((S \cup {a}) \cup {b}) = Cardinality(S \cup {a}) + 1
  BY <1>1, FS_AddElement, Zenon
<1>3. c \notin (S \cup {a}) \cup {b} /\ S \cup {a, b, c} = ((S \cup {a}) \cup {b}) \cup {c}
  BY Zenon
<1>4. Cardinality(((S \cup {a}) \cup {b}) \cup {c}) = Cardinality((S \cup {a}) \cup {b}) + 1
  BY <1>2, <1>3, FS_AddElement, Zenon
<1>5. Cardinality(S \cup {a, b, c}) = Cardinality((S \cup {a}) \cup {b}) + 1
  BY <1>3, <1>4, Zenon
<1>6. Cardinality((S \cup {a}) \cup {b}) = Cardinality(S) + 2
  BY <1>0, <1>1, <1>2
<1> QED BY <1>0, <1>5, <1>6

\* A request of three different descriptors has three.
LEMMA ThreeElements ==
    ASSUME NEW a, NEW b, NEW c, a # b, a # c, b # c
    PROVE  Cardinality({a, b, c}) = 3
<1> DEFINE S == {}
<1>1. IsFiniteSet(S) /\ Cardinality(S) = 0
  BY FS_EmptySet, Zenon
<1>2. a \notin S /\ b \notin S \cup {a} /\ c \notin S \cup {a, b} /\ S \cup {a, b, c} = {a, b, c}
  BY Zenon
<1> HIDE DEF S
<1>3. Cardinality(S \cup {a, b, c}) = Cardinality(S) + 3
  BY <1>1, <1>2, AddThree
<1> QED BY <1>1, <1>2, <1>3

-----------------------------------------------------------------------------
\* The inductive invariant behind ChainsPartition. Types, as far as needed.
Shape ==
    /\ free \subseteq Descs
    /\ next \in [Descs -> Descs \cup {None}]
    /\ head \in [Procs -> Descs \cup {None}]
    /\ pc \in [Procs -> {"idle", "alloc", "nodesc", "wait", "asleep"}]

\* A process has a request exactly while it waits for the device.
HeadsWait == \A p \in Procs : pc[p] \in {"wait", "asleep"} <=> head[p] # None

\* The three descriptors of a request.
D2(p) == next[head[p]]
D3(p) == next[next[head[p]]]

\* They are three different descriptors, none of them free ...
Linked ==
    \A p \in Active :
        /\ D2(p) \in Descs /\ D3(p) \in Descs
        /\ head[p] # D2(p) /\ head[p] # D3(p) /\ D2(p) # D3(p)
        /\ {head[p], D2(p), D3(p)} \cap free = {}

\* ... nor part of another request.
Apart ==
    \A p, q \in Active :
        p # q => {head[p], D2(p), D3(p)} \cap {head[q], D2(q), D3(q)} = {}

\* Every descriptor is free or in a request.
Count == Cardinality(free) + 3 * Cardinality(Active) = NUM

Inv == Shape /\ HeadsWait /\ Linked /\ Apart /\ Count

\* None is not a descriptor.
LEMMA NoneOutside == None \notin Descs /\ None \notin Procs
  BY DiskAssumption, DescsFinite, Zenon

\* Finitely many requests are under way.
LEMMA ActiveFinite == IsFiniteSet(Active) /\ Cardinality(Active) \in Nat
<1>1. Active \in SUBSET Procs
  BY Zenon DEF Active
<1>2. IsFiniteSet(Procs)
  BY DiskAssumption, Zenon
<1>3. IsFiniteSet(Active)
  BY <1>1, <1>2, FS_Subset, Zenon
<1> QED BY <1>3, FS_CardinalityType, Zenon

\* Finitely many descriptors are free.
LEMMA FreeFinite == Shape => IsFiniteSet(free) /\ Cardinality(free) \in Nat
  BY DescsFinite, FS_Subset, FS_CardinalityType, Zenon DEF Shape

\* disk_init() establishes it.
LEMMA InitInv == Init => Inv
<1> SUFFICES ASSUME Init PROVE Inv
  BY Zenon
<1>1. Shape
  BY Zenon DEF Init, Shape
<1>2. Active = {} /\ HeadsWait
  BY Zenon DEF Init, Active, HeadsWait
<1>3. Linked /\ Apart
  BY <1>2, Zenon DEF Linked, Apart
<1>4. Cardinality(free) = NUM /\ Cardinality(Active) = 0 /\ NUM \in Nat
  BY <1>2, DescsFinite, FS_EmptySet, DiskAssumption, Zenon DEF Init
<1>5. Count
  BY <1>4 DEF Count
<1> QED BY <1>1, <1>2, <1>3, <1>5, Zenon DEF Inv

\* Steps that leave the descriptors and the requests alone.
LEMMA QuietInv ==
    ASSUME Inv, UNCHANGED <<free, next, head>>,
           pc' \in [Procs -> {"idle", "alloc", "nodesc", "wait", "asleep"}],
           \A p \in Procs : pc'[p] \in {"wait", "asleep"} <=> pc[p] \in {"wait", "asleep"}
    PROVE  Inv'
<1>1. Shape'
  BY Zenon DEF Inv, Shape
<1>2. HeadsWait'
  BY Zenon DEF Inv, HeadsWait
<1>3. Active' = Active /\ Linked' /\ Apart' /\ Count'
  BY Zenon DEF Inv, Active, Linked, Apart, Count, D2, D3
<1> QED BY <1>1, <1>2, <1>3, Zenon DEF Inv

\* alloc3_desc() succeeds: three free descriptors become a request.
LEMMA SubmitInv ==
    ASSUME Inv, NEW p \in Procs, submit(p)
    PROVE  Inv'
<1> DEFINE a == First
           b == Second
           c == Third
<1>1. a \in free /\ b \in free \ {a} /\ c \in free \ {a, b}
  BY AllocThree, Zenon DEF submit, Inv, Shape
<1>2. /\ free' = free \ {a, b, c}
      /\ next' = [next EXCEPT ![a] = b, ![b] = c, ![c] = None]
      /\ head' = [head EXCEPT ![p] = a]
      /\ pc[p] = "alloc" /\ pc' = [pc EXCEPT ![p] = "asleep"]
  BY Zenon DEF submit
<1> HIDE DEF a, b, c
<1>3. free \subseteq Descs /\ next \in [Descs -> Descs \cup {None}] /\ head \in [Procs -> Descs \cup {None}]
  BY Zenon DEF Inv, Shape
<1>4. Shape'
  <2>1. pc' \in [Procs -> {"idle", "alloc", "nodesc", "wait", "asleep"}]
    BY <1>2, Zenon DEF Inv, Shape
  <2> QED BY <1>1, <1>2, <1>3, <2>1, Zenon DEF Shape
<1>5. HeadsWait'
  BY <1>1, <1>2, <1>3, NoneOutside, Zenon DEF HeadsWait, Inv, Shape
<1>6. p \notin Active /\ Active' = Active \cup {p}
  BY <1>1, <1>2, <1>3, NoneOutside, Zenon DEF Active, HeadsWait, Inv
<1>7. head'[p] = a /\ D2(p)' = b /\ D3(p)' = c
  BY <1>1, <1>2, <1>3, Zenon DEF D2, D3
<1>8. \A q \in Active : /\ q # p /\ head'[q] = head[q] /\ D2(q)' = D2(q) /\ D3(q)' = D3(q)
                        /\ {head[q], D2(q), D3(q)} \cap {a, b, c} = {}
  <2> TAKE q \in Active
  <2>1. q # p /\ q \in Procs /\ head[q] \in Descs /\ D2(q) \in Descs
    BY <1>3, <1>6, Zenon DEF Active, Inv, Linked
  <2>2. {head[q], D2(q), D3(q)} \cap {a, b, c} = {}
    BY <1>1, Zenon DEF Inv, Linked
  <2>3. head'[q] = head[q] /\ D2(q)' = D2(q)
    BY <1>2, <1>3, <2>1, <2>2, Zenon DEF D2
  <2>4. D3(q)' = D3(q)
    BY <1>2, <1>3, <2>1, <2>2, <2>3, Zenon DEF D2, D3
  <2> QED BY <2>1, <2>2, <2>3, <2>4, Zenon
<1>9. Linked'
  <2>1. \A q \in Active : /\ D2(q)' \in Descs /\ D3(q)' \in Descs
                          /\ head'[q] # D2(q)' /\ head'[q] # D3(q)' /\ D2(q)' # D3(q)'
                          /\ {head'[q], D2(q)', D3(q)'} \cap free' = {}
    BY <1>2, <1>8, Zenon DEF Inv, Linked
  <2>2. /\ b \in Descs /\ c \in Descs /\ a # b /\ a # c /\ b # c
        /\ {a, b, c} \cap free' = {}
    BY <1>1, <1>2, <1>3, Zenon
  <2> QED BY <1>6, <1>7, <2>1, <2>2, Zenon DEF Linked
<1>10. Apart'
  BY <1>6, <1>7, <1>8, ZenonT(30) DEF Inv, Apart
<1>11. Count'
  <2>1. Cardinality(free') = Cardinality(free) - 3
    BY <1>1, <1>2, FreeFinite, RemoveThree, Zenon DEF Inv
  <2>2. Cardinality(Active') = Cardinality(Active) + 1
    BY <1>6, ActiveFinite, FS_AddElement, Zenon
  <2>3. Cardinality(free) \in Nat /\ Cardinality(Active) \in Nat
    BY ActiveFinite, FreeFinite, Zenon DEF Inv
  <2>4. Cardinality(free) + 3 * Cardinality(Active) = NUM
    BY Zenon DEF Inv, Count
  <2> QED BY <2>1, <2>2, <2>3, <2>4 DEF Count
<1> QED BY <1>4, <1>5, <1>9, <1>10, <1>11, Zenon DEF Inv

\* The rest of disk_read_write() finds its own three descriptors.
LEMMA ChainIs ==
    ASSUME Inv, NEW p \in Active
    PROVE  Chain(head[p]) = {head[p], D2(p), D3(p)} /\ None \notin Chain(head[p])
<1>1. head[p] \in Descs /\ D2(p) \in Descs /\ D3(p) \in Descs
  BY Zenon DEF Inv, Shape, Linked, Active
<1>2. D2(p) # None /\ D3(p) # None /\ head[p] # None
  BY <1>1, NoneOutside, Zenon
<1> QED BY <1>2, Zenon DEF Chain, D2, D3

\* It frees them, and free_desc() does not panic.
LEMMA FinishInv ==
    ASSUME Inv, NEW p \in Procs, finish(p)
    PROVE  Inv' /\ ~panicked'
<1> DEFINE a == head[p]
           b == D2(p)
           c == D3(p)
<1>1. p \in Active
  BY Zenon DEF finish, Active, Inv, HeadsWait
<1>2. /\ a \in Descs /\ b \in Descs /\ c \in Descs
      /\ a # b /\ a # c /\ b # c
      /\ {a, b, c} \cap free = {}
  BY <1>1, Zenon DEF Inv, Shape, Linked, Active
<1>3. Chain(head[p]) \ {None} = {a, b, c}
  BY <1>1, ChainIs, Zenon
<1>4. /\ panicked' = ({a, b, c} \cap free # {})
      /\ free' = free \cup {a, b, c}
      /\ next' = [i \in Descs |-> IF i \in {a, b, c} THEN None ELSE next[i]]
      /\ head' = [head EXCEPT ![p] = None]
      /\ pc[p] = "wait" /\ pc' = [wake_alloc(pc) EXCEPT ![p] = "idle"]
  BY <1>3, Zenon DEF finish, Clear
<1>5. ~panicked'
  BY <1>2, <1>4, Zenon
<1>6. free \subseteq Descs /\ next \in [Descs -> Descs \cup {None}] /\ head \in [Procs -> Descs \cup {None}]
  BY Zenon DEF Inv, Shape
<1>7. /\ pc' \in [Procs -> {"idle", "alloc", "nodesc", "wait", "asleep"}]
      /\ \A q \in Procs \ {p} : pc'[q] \in {"wait", "asleep"} <=> pc[q] \in {"wait", "asleep"}
      /\ pc'[p] = "idle"
  BY <1>4, Zenon DEF Inv, Shape, wake_alloc
<1>8. Shape'
  BY <1>2, <1>4, <1>6, <1>7, Zenon DEF Shape
<1>9. HeadsWait'
  BY <1>4, <1>6, <1>7, Zenon DEF HeadsWait, Inv
<1>10. Active' = Active \ {p}
  BY <1>4, <1>6, Zenon DEF Active
<1>11. \A q \in Active \ {p} :
          /\ head'[q] = head[q] /\ D2(q)' = D2(q) /\ D3(q)' = D3(q)
          /\ {head[q], D2(q), D3(q)} \cap {a, b, c} = {}
  <2> TAKE q \in Active \ {p}
  <2>1. q # p /\ q \in Procs /\ head[q] \in Descs /\ D2(q) \in Descs
    BY <1>6, Zenon DEF Active, Inv, Linked
  <2>2. {head[q], D2(q), D3(q)} \cap {a, b, c} = {}
    BY <1>1, <2>1, Zenon DEF Inv, Apart
  <2>3. head'[q] = head[q] /\ D2(q)' = D2(q)
    BY <1>4, <1>6, <2>1, <2>2, Zenon DEF D2
  <2>4. D3(q)' = D3(q)
    BY <1>4, <1>6, <2>1, <2>2, <2>3, Zenon DEF D2, D3
  <2> QED BY <2>2, <2>3, <2>4, Zenon
<1> HIDE DEF a, b, c
<1>12. Linked'
  <2>1. \A q \in Active \ {p} :
           /\ D2(q)' \in Descs /\ D3(q)' \in Descs
           /\ head'[q] # D2(q)' /\ head'[q] # D3(q)' /\ D2(q)' # D3(q)'
           /\ {head'[q], D2(q)', D3(q)'} \cap free' = {}
    BY <1>4, <1>11, Zenon DEF Inv, Linked
  <2> QED BY <1>10, <2>1, Zenon DEF Linked
<1>13. Apart'
  BY <1>10, <1>11, Zenon DEF Inv, Apart
<1>14. Count'
  <2>1. Cardinality(free') = Cardinality(free) + 3
    BY <1>2, <1>4, FreeFinite, AddThree, Zenon DEF Inv
  <2>2. Cardinality(Active') = Cardinality(Active) - 1
    BY <1>1, <1>10, ActiveFinite, FS_RemoveElement, Zenon
  <2>3. Cardinality(free) \in Nat /\ Cardinality(Active) \in Nat
    BY ActiveFinite, FreeFinite, Zenon DEF Inv
  <2>4. Cardinality(free) + 3 * Cardinality(Active) = NUM
    BY Zenon DEF Inv, Count
  <2> QED BY <2>1, <2>2, <2>3, <2>4 DEF Count
<1> QED BY <1>5, <1>8, <1>9, <1>12, <1>13, <1>14, Zenon DEF Inv

\* Every step preserves the invariant.
LEMMA InvStep == Inv /\ [Next]_vars => Inv'
<1> SUFFICES ASSUME Inv, [Next]_vars PROVE Inv'
  BY Zenon
<1>0. pc \in [Procs -> {"idle", "alloc", "nodesc", "wait", "asleep"}]
  BY Zenon DEF Inv, Shape
<1>1. ASSUME NEW p \in Procs, disk_read_write(p) PROVE Inv'
  BY <1>0, <1>1, QuietInv, Zenon DEF disk_read_write
<1>2. ASSUME NEW p \in Procs, submit(p) PROVE Inv'
  BY <1>2, SubmitInv, Zenon
<1>3. ASSUME NEW p \in Procs, no_desc(p) PROVE Inv'
  BY <1>0, <1>3, QuietInv, Zenon DEF no_desc, wake_alloc
<1>4. ASSUME NEW p \in Procs, finish(p) PROVE Inv'
  BY <1>4, FinishInv, Zenon
<1>5. ASSUME NEW p \in Procs, wait_more(p) PROVE Inv'
  BY <1>0, <1>5, QuietInv, Zenon DEF wait_more
<1>6. ASSUME NEW p \in Procs, kill(p) PROVE Inv'
  BY <1>0, <1>6, QuietInv, Zenon DEF kill
<1>7. CASE Device
  BY <1>0, <1>7, QuietInv, Zenon DEF Device, device_take, device_done, driver
<1>8. CASE virtio_disk_intr
  BY <1>0, <1>8, QuietInv, Zenon DEF virtio_disk_intr
<1>9. CASE panic \/ UNCHANGED vars
  BY <1>0, <1>9, QuietInv, Zenon DEF panic, vars
<1> QED BY <1>1, <1>2, <1>3, <1>4, <1>5, <1>6, <1>7, <1>8, <1>9, Zenon DEF Next, DriverStep

\* The descriptor table is in order in every reachable state.
LEMMA InvAlways == Spec => []Inv
  BY InitInv, InvStep, PTL DEF Spec

\* The free descriptors and the chains of three of the active requests share
\* out the table, whatever alloc3_desc(), free_chain(), kill() and the device
\* do in between: no descriptor is ever lost or used twice.
THEOREM ChainsCorrect == Spec => []ChainsPartition
<1>1. Inv => ChainsPartition
  <2> SUFFICES ASSUME Inv PROVE ChainsPartition
    BY Zenon
  <2>1. \A p \in Active : /\ Chain(head[p]) = {head[p], D2(p), D3(p)}
                          /\ None \notin Chain(head[p])
    BY ChainIs, Zenon
  <2>2. \A p \in Active : Cardinality({head[p], D2(p), D3(p)}) = 3
    <3> TAKE p \in Active
    <3>1. head[p] # D2(p) /\ head[p] # D3(p) /\ D2(p) # D3(p)
      BY Zenon DEF Inv, Linked
    <3> QED BY <3>1, ThreeElements, Zenon
  <2>3. \A p \in Active : {head[p], D2(p), D3(p)} \cap free = {}
    BY Zenon DEF Inv, Linked
  <2> QED BY <2>1, <2>2, <2>3, Zenon DEF ChainsPartition, Inv, Apart, Count
<1> QED BY <1>1, InvAlways, PTL

-----------------------------------------------------------------------------
\* The rings. Requests announced and not yet taken by the device, and requests
\* completed and not yet seen by the interrupt handler.
Period == NUM * Turns
Pending == Wrap(avail_idx - seen)
Done == (used_id - used_idx) % NUM
ACell(i) == (seen + i) % NUM
UCell(i) == (used_idx + i) % NUM

\* The counters wrap at a multiple of the ring's size.
LEMMA Sizes == NUM \in Nat \ {0} /\ Turns \in Nat \ {0} /\ Period \in Nat \ {0} /\ NUM <= Period
<1>1. NUM \in Nat \ {0} /\ Turns \in Nat \ {0}
  BY DiskAssumption
<1>2. NUM * Turns >= NUM /\ NUM * Turns \in Nat
  BY <1>1
<1> QED BY <1>1, <1>2 DEF Period

\* Counters stay counters.
LEMMA WrapRange == \A x \in Int : Wrap(x) \in 0 .. Period - 1
<1>1. NUM * Turns \in Nat \ {0}
  BY Sizes, Zenon DEF Period
<1> QED BY <1>1 DEF Wrap, Period

\* What a sum or a difference of the 16-bit counters is.
LEMMA WrapCases ==
    ASSUME NEW x \in Int, - Period <= x, x < 2 * Period
    PROVE  Wrap(x) = IF x < 0 THEN x + Period ELSE IF x < Period THEN x ELSE x - Period
<1>1. Wrap(x) = x % Period /\ Period \in Nat \ {0}
  BY Sizes, Zenon DEF Wrap, Period
<1> HIDE DEF Period
<1> QED BY <1>1, ModCases, Zenon

\* A counter that wraps goes on with the next cell of the ring.
LEMMA WrapIndex ==
    ASSUME NEW x \in Int, NEW k \in Int
    PROVE  (Wrap(x) + k) % NUM = (x + k) % NUM
  BY Sizes, ModOfMultiple, Zenon DEF Wrap

\* Cells less than a ring apart are different.
LEMMA CellsDiffer ==
    ASSUME NEW x \in Int, NEW i \in Nat, NEW j \in Nat, i # j, i < NUM, j < NUM
    PROVE  (x + i) % NUM # (x + j) % NUM
<1>1. NUM \in Nat \ {0} /\ x + i \in Int /\ x + j \in Int
  BY Sizes
<1>2. CASE i < j
  <2>1. x + i < x + j /\ x + j < x + i + NUM
    BY <1>1, <1>2
  <2> QED BY <1>1, <2>1, ModDiffer, Zenon
<1>3. CASE j < i
  <2>1. x + j < x + i /\ x + i < x + j + NUM
    BY <1>1, <1>3
  <2> QED BY <1>1, <2>1, ModDiffer, Zenon
<1> QED BY <1>2, <1>3

\* avail[1] advances: one more announced request, in a new cell.
LEMMA Announce ==
    ASSUME avail_idx \in 0 .. Period - 1, seen \in 0 .. Period - 1, Pending + 1 < NUM
    PROVE  /\ Pending \in Nat
           /\ Wrap(Wrap(avail_idx + 1) - seen) = Pending + 1
           /\ avail_idx % NUM = ACell(Pending)
<1>1. Period \in Nat \ {0} /\ NUM \in Nat \ {0} /\ NUM <= Period /\ Turns \in Nat \ {0}
  BY Sizes, Zenon
<1> DEFINE x == avail_idx - seen
           y == avail_idx + 1
           z == Wrap(y) - seen
<1>2. Wrap(x) = IF x < 0 THEN x + Period ELSE IF x < Period THEN x ELSE x - Period
  BY <1>1, WrapCases
<1>3. Wrap(y) = IF y < 0 THEN y + Period ELSE IF y < Period THEN y ELSE y - Period
  BY <1>1, WrapCases
<1>4. Wrap(y) \in 0 .. Period - 1
  BY <1>1, <1>3
<1>5. Wrap(z) = IF z < 0 THEN z + Period ELSE IF z < Period THEN z ELSE z - Period
  BY <1>1, <1>4, WrapCases
<1>6. Pending \in Nat
  BY <1>1, <1>2 DEF Pending
<1>7. Wrap(z) = Pending + 1
  BY <1>1, <1>2, <1>3, <1>4, <1>5 DEF Pending
<1>8. avail_idx % NUM = ACell(Pending)
  <2>1. x \in Int /\ seen \in Int
    BY <1>1
  <2>2. (Wrap(x) + seen) % NUM = (x + seen) % NUM
    BY <2>1, WrapIndex, Zenon
  <2>3. x + seen = avail_idx /\ Wrap(x) + seen = seen + Pending
    BY <1>1, <1>6 DEF Pending
  <2> QED BY <2>2, <2>3, Zenon DEF ACell
<1> QED BY <1>6, <1>7, <1>8, Zenon

\* The device has looked at one more entry: the ones after it stay in place.
LEMMA Take ==
    ASSUME avail_idx \in 0 .. Period - 1, seen \in 0 .. Period - 1,
           seen # avail_idx, Pending < NUM
    PROVE  /\ Pending \in Nat \ {0}
           /\ Wrap(avail_idx - Wrap(seen + 1)) = Pending - 1
           /\ \A i \in Nat : (Wrap(seen + 1) + i) % NUM = ACell(i + 1)
           /\ seen % NUM = ACell(0)
<1>1. Period \in Nat \ {0} /\ NUM \in Nat \ {0} /\ NUM <= Period /\ Turns \in Nat \ {0}
  BY Sizes, Zenon
<1> DEFINE x == avail_idx - seen
           y == seen + 1
           z == avail_idx - Wrap(y)
<1>2. Wrap(x) = IF x < 0 THEN x + Period ELSE IF x < Period THEN x ELSE x - Period
  BY <1>1, WrapCases
<1>3. Wrap(y) = IF y < 0 THEN y + Period ELSE IF y < Period THEN y ELSE y - Period
  BY <1>1, WrapCases
<1>4. Wrap(y) \in 0 .. Period - 1
  BY <1>1, <1>3
<1>5. Wrap(z) = IF z < 0 THEN z + Period ELSE IF z < Period THEN z ELSE z - Period
  BY <1>1, <1>4, WrapCases
<1>6. Pending \in Nat \ {0}
  BY <1>1, <1>2 DEF Pending
<1>7. Wrap(z) = Pending - 1
  BY <1>1, <1>2, <1>3, <1>4, <1>5 DEF Pending
<1>8. \A i \in Nat : (Wrap(y) + i) % NUM = ACell(i + 1)
  <2> TAKE i \in Nat
  <2>1. y \in Int /\ i \in Int /\ y + i = seen + (i + 1)
    BY <1>1
  <2>2. (Wrap(y) + i) % NUM = (y + i) % NUM
    BY <2>1, WrapIndex, Zenon
  <2> QED BY <2>1, <2>2, Zenon DEF ACell
<1>9. seen % NUM = ACell(0)
  <2>1. seen + 0 = seen
    BY <1>1
  <2> QED BY <2>1, Zenon DEF ACell
<1> QED BY <1>6, <1>7, <1>8, <1>9, Zenon

\* used->id advances: one more completed request, in a new cell.
LEMMA Complete ==
    ASSUME used_id \in 0 .. Period - 1, used_idx \in 0 .. NUM - 1, Done + 1 < NUM
    PROVE  /\ Done \in Nat
           /\ (Wrap(used_id + 1) - used_idx) % NUM = Done + 1
           /\ used_id % NUM = UCell(Done)
<1>1. Period \in Nat \ {0} /\ NUM \in Nat \ {0} /\ NUM <= Period /\ Turns \in Nat \ {0}
  BY Sizes, Zenon
<1> DEFINE x == used_id - used_idx
           y == used_id + 1
<1>2. x \in Int /\ y \in Int /\ - used_idx \in Int /\ 1 \in Int /\ used_idx \in Int
  BY <1>1
<1>3. Done \in Nat /\ Done = x % NUM
  BY <1>1, <1>2 DEF Done
<1>4. (Wrap(y) + (- used_idx)) % NUM = (y + (- used_idx)) % NUM
  BY <1>2, WrapIndex, Zenon
<1>5. Wrap(y) \in Int
  BY <1>1, <1>2, WrapRange
<1>6. Wrap(y) + (- used_idx) = Wrap(y) - used_idx /\ y + (- used_idx) = x + 1
  BY <1>1, <1>2, <1>5
<1>7. ((x % NUM) + 1) % NUM = (x + 1) % NUM
  BY <1>1, <1>2, ModAdd, Zenon
<1>8. (Done + 1) % NUM = Done + 1
  BY <1>1, <1>3
<1>9. ((x % NUM) + used_idx) % NUM = (x + used_idx) % NUM
  BY <1>1, <1>2, ModAdd, Zenon
<1>10. x + used_idx = used_id /\ (x % NUM) + used_idx = used_idx + Done
  BY <1>1, <1>3
<1>11. (Wrap(y) - used_idx) % NUM = Done + 1
  BY <1>3, <1>4, <1>6, <1>7, <1>8, Zenon
<1>12. used_id % NUM = UCell(Done)
  BY <1>9, <1>10, Zenon DEF UCell
<1> QED BY <1>3, <1>11, <1>12, Zenon

\* The handler has caught up with the device.
LEMMA CaughtUp ==
    ASSUME used_id \in 0 .. Period - 1
    PROVE  used_id % NUM \in 0 .. NUM - 1 /\ (used_id - (used_id % NUM)) % NUM = 0
<1>1. NUM \in Nat \ {0} /\ used_id \in Int
  BY Sizes
<1> DEFINE q == used_id \div NUM
           r == used_id % NUM
<1>2. q \in Int /\ r \in 0 .. NUM - 1 /\ used_id = NUM * q + r
  BY <1>1, Quotient, Zenon
<1> HIDE DEF q, r
<1>3. 0 + NUM * q = used_id - r /\ 0 \in Int
  BY <1>1, <1>2
<1>4. (0 + NUM * q) % NUM = 0 % NUM
  BY <1>1, <1>2, <1>3, ModShift, Zenon
<1>5. 0 % NUM = 0
  BY <1>1
<1> QED BY <1>2, <1>3, <1>4, <1>5, Zenon DEF r

-----------------------------------------------------------------------------
\* The inductive invariant behind CompletionsMatch. Types, as far as needed.
RingShape ==
    /\ avail_idx \in 0 .. Period - 1 /\ seen \in 0 .. Period - 1
    /\ used_id \in 0 .. Period - 1 /\ used_idx \in 0 .. NUM - 1
    /\ avail \in [Descs -> Descs] /\ used \in [Descs -> Descs]
    /\ info \in [Descs -> Procs \cup {None}]
    /\ addr \in [Descs -> Procs \cup {None}]
    /\ status \in [Descs -> BOOLEAN]
    /\ taken \subseteq Descs
    /\ busy \in [Procs -> BOOLEAN]
    /\ moved \in [Procs -> Nat]

Announced == {avail[ACell(i)] : i \in 0 .. Pending - 1}

\* A head of a request in the rings or in the device belongs to a process
\* that waits for it.
Waiting(h) == \E p \in Procs : info[h] = p /\ head[p] = h /\ busy[p]
InFlightWaits == \A h \in Announced \cup taken \cup Handled : Waiting(h)

\* A request is in one place only.
OnePlace ==
    /\ \A i, j \in 0 .. Pending - 1 : i # j => avail[ACell(i)] # avail[ACell(j)]
    /\ Announced \cap taken = {}
    /\ (Announced \cup taken) \cap Handled = {}

\* The rings hold no more than the waiting requests, hence never fill.
Busy == {p \in Active : busy[p]}
RingsFit == Pending + Cardinality(taken) + Done <= Cardinality(Busy)

\* The second descriptor of a request holds the buffer of its process.
OwnBuffer == \A p \in Active : addr[D2(p)] = p

\* How often the data of a request has been moved, by where the request is.
MovedOnce ==
    \A p \in Active :
        /\ head[p] \in Announced \cup taken => moved[p] = 0
        /\ head[p] \in Handled => status[head[p]] \/ moved[p] = 1
        /\ ~busy[p] => panicked \/ moved[p] = 1

RInv == Inv /\ RingShape /\ InFlightWaits /\ OnePlace /\ RingsFit /\ OwnBuffer /\ MovedOnce

\* Every cell is one of the ring.
LEMMA CellRange == RingShape => \A i \in Nat : ACell(i) \in Descs /\ UCell(i) \in Descs
<1> SUFFICES ASSUME RingShape, NEW i \in Nat PROVE ACell(i) \in Descs /\ UCell(i) \in Descs
  BY Zenon
<1>1. NUM \in Nat \ {0} /\ seen + i \in Int /\ used_idx + i \in Int
  BY Sizes DEF RingShape
<1> QED BY <1>1 DEF ACell, UCell, Descs

\* What virtio_disk_intr() reads are the completed entries in ring order.
LEMMA HandledIs == Handled = {used[UCell(i)] : i \in 0 .. Done - 1}
  BY Zenon DEF Handled, Unhandled, UCell, Done

\* The numbers of requests in the three places.
LEMMA Numbers ==
    ASSUME Inv, RingShape
    PROVE  /\ Pending \in Nat /\ Done \in Nat
           /\ IsFiniteSet(taken) /\ Cardinality(taken) \in Nat
           /\ IsFiniteSet(Busy) /\ Cardinality(Busy) \in Nat
           /\ Cardinality(Busy) <= Cardinality(Active)
           /\ Cardinality(Busy) < NUM
<1>1. Pending \in Nat
  <2>1. avail_idx - seen \in Int /\ Period \in Nat
    BY Sizes DEF RingShape
  <2> QED BY <2>1, WrapRange DEF Pending
<1>2. Done \in Nat
  <2>1. used_id - used_idx \in Int /\ NUM \in Nat \ {0}
    BY Sizes DEF RingShape
  <2> QED BY <2>1 DEF Done
<1>3. IsFiniteSet(taken) /\ Cardinality(taken) \in Nat
  BY DescsFinite, FS_Subset, FS_CardinalityType, Zenon DEF RingShape
<1>4. Busy \in SUBSET Active
  BY Zenon DEF Busy
<1>5. IsFiniteSet(Busy) /\ Cardinality(Busy) \in Nat /\ Cardinality(Busy) <= Cardinality(Active)
  BY <1>4, ActiveFinite, FS_Subset, FS_CardinalityType, Zenon
<1>6. /\ Cardinality(free) \in Nat /\ Cardinality(Active) \in Nat /\ NUM \in Nat \ {0}
      /\ Cardinality(free) + 3 * Cardinality(Active) = NUM
  BY ActiveFinite, FreeFinite, Sizes, Zenon DEF Inv, Count
<1>7. Cardinality(Busy) < NUM
  BY <1>5, <1>6
<1> QED BY <1>1, <1>2, <1>3, <1>5, <1>7, Zenon

\* disk_init() establishes it.
LEMMA InitRInv == Init => RInv
<1> SUFFICES ASSUME Init PROVE RInv
  BY Zenon
<1>0. NUM \in Nat \ {0} /\ Period \in Nat \ {0}
  BY Sizes, Zenon
<1>1. Inv
  BY InitInv, Zenon
<1>2. 0 \in 0 .. Period - 1 /\ 0 \in 0 .. NUM - 1 /\ 0 \in Descs
  BY <1>0 DEF Descs
<1>3. RingShape
  BY <1>2, Zenon DEF Init, RingShape
<1>4. Pending = 0 /\ Done = 0
  <2>1. 0 - 0 = 0 /\ 0 % NUM = 0 /\ 0 % Period = 0
    BY <1>0
  <2> QED BY <2>1, Zenon DEF Init, Pending, Done, Wrap, Period
<1>5. Announced = {} /\ Handled = {} /\ taken = {}
  BY <1>4, HandledIs DEF Announced, Init
<1>6. InFlightWaits /\ OnePlace
  BY <1>4, <1>5 DEF InFlightWaits, OnePlace
<1>7. Active = {}
  BY Zenon DEF Init, Active
<1>8. OwnBuffer /\ MovedOnce
  BY <1>7, Zenon DEF OwnBuffer, MovedOnce
<1>9. RingsFit
  BY <1>1, <1>3, <1>4, <1>5, FS_EmptySet, Numbers DEF RingsFit
<1> QED BY <1>1, <1>3, <1>6, <1>8, <1>9, Zenon DEF RInv

\* Different requests have different heads.
LEMMA HeadsDiffer ==
    ASSUME Inv, NEW p \in Active, NEW q \in Active, head[p] = head[q]
    PROVE  p = q
  BY Zenon DEF Inv, Apart

\* Who waits has a request.
LEMMA WaitingActive ==
    ASSUME Inv, RingShape, NEW h \in Descs, Waiting(h)
    PROVE  /\ info[h] \in Busy /\ info[h] \in Procs /\ head[info[h]] = h
           /\ h \notin free
<1>1. PICK p \in Procs : info[h] = p /\ head[p] = h /\ busy[p]
  BY Zenon DEF Waiting
<1>2. p \in Active
  BY <1>1, NoneOutside, Zenon DEF Active
<1>3. h \notin free
  BY <1>1, <1>2, Zenon DEF Inv, Linked
<1> QED BY <1>1, <1>2, <1>3, Zenon DEF Busy

\* Requests in flight are descriptors.
LEMMA InFlightDescs ==
    ASSUME Inv, RingShape
    PROVE  Announced \cup taken \cup Handled \subseteq Descs
<1>1. \A i \in 0 .. Pending - 1 : avail[ACell(i)] \in Descs
  BY CellRange, Numbers DEF RingShape
<1>2. \A i \in 0 .. Done - 1 : used[UCell(i)] \in Descs
  BY CellRange, Numbers DEF RingShape
<1> QED BY <1>1, <1>2, HandledIs DEF Announced, RingShape

\* Steps that leave the requests and the rings alone.
LEMMA QuietRInv ==
    ASSUME RInv, Inv', UNCHANGED <<next, head, info, busy, rings, device, panicked>>,
           addr' \in [Descs -> Procs \cup {None}],
           \A p \in Active : addr'[D2(p)] = addr[D2(p)]
    PROVE  RInv'
<1>1. RingShape'
  BY Zenon DEF RInv, RingShape, rings, device
<1>2. Pending' = Pending /\ Done' = Done /\ Active' = Active
  BY Zenon DEF Pending, Done, Active, rings, device
<1>3. Announced' = Announced /\ Handled' = Handled /\ taken' = taken
  BY <1>2, HandledIs DEF Announced, ACell, Handled, Unhandled, rings, device
<1>4. InFlightWaits'
  BY <1>3, Zenon DEF RInv, InFlightWaits, Waiting
<1>5. OnePlace'
  BY <1>2, <1>3, Zenon DEF RInv, OnePlace, ACell, rings, device
<1>6. Busy' = Busy
  BY <1>2, Zenon DEF Busy
<1>7. RingsFit'
  BY <1>2, <1>3, <1>6, Zenon DEF RInv, RingsFit
<1>8. OwnBuffer'
  BY <1>2, Zenon DEF RInv, OwnBuffer, D2
<1>9. MovedOnce'
  BY <1>2, <1>3, Zenon DEF RInv, MovedOnce, device
<1> QED BY <1>1, <1>4, <1>5, <1>7, <1>8, <1>9, Zenon DEF RInv

\* The device takes a request: it moves from the avail ring into the device.
LEMMA TakeRInv ==
    ASSUME RInv, Inv', device_take
    PROVE  RInv'
<1>0. Inv /\ RingShape
  BY Zenon DEF RInv
<1>1. /\ Pending \in Nat /\ Done \in Nat /\ IsFiniteSet(taken) /\ Cardinality(taken) \in Nat
      /\ Cardinality(Busy) \in Nat /\ Cardinality(Busy) < NUM
  BY <1>0, Numbers, Zenon
<1>2. Pending < NUM
  BY <1>1, Sizes DEF RInv, RingsFit
<1> DEFINE h == avail[seen % NUM]
<1>3. /\ Pending \in Nat \ {0}
      /\ Wrap(avail_idx - Wrap(seen + 1)) = Pending - 1
      /\ \A i \in Nat : (Wrap(seen + 1) + i) % NUM = ACell(i + 1)
      /\ seen % NUM = ACell(0)
  BY <1>2, Take, Zenon DEF device_take, RInv, RingShape
<1>4. /\ taken' = taken \cup {h} /\ avail' = [avail EXCEPT ![seen % NUM] = 0]
      /\ seen' = Wrap(seen + 1)
      /\ UNCHANGED <<driver, addr, avail_idx, used, used_id, used_idx, moved, status, irq, panicked>>
  BY Zenon DEF device_take
<1>5. Pending' = Pending - 1 /\ \A i \in Nat : ACell(i)' = ACell(i + 1)
  BY <1>3, <1>4, Zenon DEF Pending, ACell
<1>6. Done' = Done /\ Handled' = Handled /\ Active' = Active /\ Busy' = Busy
  BY <1>4, Zenon DEF Done, Handled, Unhandled, Active, Busy, driver
<1>7. h \in Announced /\ h \in Descs /\ 0 \in Descs
  <2>1. 0 \in 0 .. Pending - 1
    BY <1>3
  <2>2. ACell(0) \in Descs
    BY <1>0, CellRange, Zenon
  <2>3. 0 \in Descs
    BY Sizes DEF Descs
  <2> QED BY <1>0, <1>3, <2>1, <2>2, <2>3, Zenon DEF Announced, RingShape
<1>8. \A i \in 0 .. Pending - 2 :
         /\ i + 1 \in 0 .. Pending - 1
         /\ ACell(i + 1) \in Descs /\ ACell(i + 1) # ACell(0)
         /\ avail'[ACell(i + 1)] = avail[ACell(i + 1)]
  <2> TAKE i \in 0 .. Pending - 2
  <2>1. i + 1 \in 0 .. Pending - 1 /\ i + 1 \in Nat /\ i + 1 # 0 /\ i + 1 < NUM /\ 0 < NUM /\ 0 \in Nat
    BY <1>1, <1>2, <1>3, Sizes
  <2>2. ACell(i + 1) \in Descs /\ seen \in Int
    BY <1>0, <2>1, CellRange DEF RingShape
  <2>3. ACell(i + 1) # ACell(0)
    BY <2>1, <2>2, CellsDiffer, Zenon DEF ACell
  <2> QED BY <1>0, <1>3, <1>4, <2>1, <2>2, <2>3, Zenon DEF RingShape
<1>9. \A i \in 0 .. Pending' - 1 : i \in 0 .. Pending - 2 /\ avail'[ACell(i)'] = avail[ACell(i + 1)]
  BY <1>1, <1>3, <1>5, <1>8
<1>10. Announced' \subseteq Announced /\ h \notin Announced'
  <2>1. \A i \in 0 .. Pending' - 1 : avail'[ACell(i)'] \in Announced
    BY <1>8, <1>9, Zenon DEF Announced
  <2>2. \A i \in 0 .. Pending' - 1 : avail'[ACell(i)'] # h
    <3> TAKE i \in 0 .. Pending' - 1
    <3>1. i + 1 \in 0 .. Pending - 1 /\ 0 \in 0 .. Pending - 1 /\ i + 1 # 0
      BY <1>1, <1>3, <1>5
    <3>2. avail[ACell(i + 1)] # avail[ACell(0)]
      BY <3>1, Zenon DEF RInv, OnePlace
    <3> QED BY <1>3, <1>9, <3>2, Zenon
  <2>3. Announced' = {avail'[ACell(i)'] : i \in 0 .. Pending' - 1}
    BY Zenon DEF Announced
  <2> QED BY <2>1, <2>2, <2>3, Zenon
<1> HIDE DEF h
<1>11. RingShape'
  <2>1. seen' \in 0 .. Period - 1
    BY <1>4, <1>0, WrapRange, Sizes DEF RingShape
  <2>2. avail' \in [Descs -> Descs] /\ taken' \subseteq Descs
    BY <1>0, <1>4, <1>7, Zenon DEF RingShape
  <2> QED BY <1>0, <1>4, <2>1, <2>2, Zenon DEF RingShape, driver
<1>12. InFlightWaits'
  <2>1. \A x : Waiting(x) => Waiting(x)'
    BY <1>4, Zenon DEF Waiting, driver
  <2> QED BY <1>4, <1>6, <1>7, <1>10, <2>1, Zenon DEF RInv, InFlightWaits
<1>13. OnePlace'
  <2>1. \A i, j \in 0 .. Pending' - 1 : i # j => avail'[ACell(i)'] # avail'[ACell(j)']
    <3> SUFFICES ASSUME NEW i \in 0 .. Pending' - 1, NEW j \in 0 .. Pending' - 1, i # j
                 PROVE  avail'[ACell(i)'] # avail'[ACell(j)']
      BY Zenon
    <3>1. i + 1 \in 0 .. Pending - 1 /\ j + 1 \in 0 .. Pending - 1 /\ i + 1 # j + 1
      BY <1>1, <1>3, <1>5
    <3>2. avail[ACell(i + 1)] # avail[ACell(j + 1)]
      BY <3>1, Zenon DEF RInv, OnePlace
    <3> QED BY <1>9, <3>2, Zenon
  <2>2. Announced' \cap taken' = {} /\ (Announced' \cup taken') \cap Handled' = {}
    BY <1>4, <1>6, <1>7, <1>10, Zenon DEF RInv, OnePlace
  <2> QED BY <2>1, <2>2, Zenon DEF OnePlace
<1>14. RingsFit'
  <2>1. h \notin taken
    BY <1>7, Zenon DEF RInv, OnePlace
  <2>2. Cardinality(taken') = Cardinality(taken) + 1
    BY <1>1, <1>4, <2>1, FS_AddElement, Zenon
  <2> QED BY <1>1, <1>5, <1>6, <2>2 DEF RInv, RingsFit
<1>15. OwnBuffer'
  BY <1>4, <1>6, Zenon DEF RInv, OwnBuffer, D2, driver
<1>16. MovedOnce'
  BY <1>4, <1>6, <1>7, <1>10, Zenon DEF RInv, MovedOnce, driver
<1> QED BY <1>11, <1>12, <1>13, <1>14, <1>15, <1>16, Zenon DEF RInv

\* The device completes a request: it moves from the device into the used
\* ring, and the data into or out of the buffer of its own process.
LEMMA DoneRInv ==
    ASSUME RInv, Inv', NEW h \in Descs, NEW fails \in BOOLEAN, device_done(h, fails)
    PROVE  RInv'
<1>0. Inv /\ RingShape
  BY Zenon DEF RInv
<1>1. /\ Pending \in Nat /\ Done \in Nat /\ IsFiniteSet(taken) /\ Cardinality(taken) \in Nat
      /\ Cardinality(Busy) \in Nat /\ Cardinality(Busy) < NUM
  BY <1>0, Numbers, Zenon
<1>2. h \in taken /\ Waiting(h)
  BY Zenon DEF device_done, RInv, InFlightWaits
<1> DEFINE q == info[h]
<1>3. q \in Busy /\ q \in Active /\ q \in Procs /\ head[q] = h
  BY <1>0, <1>2, WaitingActive, Zenon DEF Busy
<1>4. addr[next[h]] = q /\ q # None
  BY <1>3, NoneOutside, Zenon DEF RInv, OwnBuffer, D2
<1>5. /\ taken' = taken \ {h}
      /\ moved' = IF fails THEN moved ELSE [moved EXCEPT ![q] = @ + 1]
      /\ status' = [status EXCEPT ![h] = fails]
      /\ used' = [used EXCEPT ![used_id % NUM] = h]
      /\ used_id' = Wrap(used_id + 1)
      /\ UNCHANGED <<driver, addr, avail, avail_idx, used_idx, seen, panicked>>
  BY <1>4, Zenon DEF device_done
<1>6. Cardinality(taken') = Cardinality(taken) - 1 /\ Cardinality(taken) >= 1
  <2>1. Cardinality(taken \ {h}) = Cardinality(taken) - 1
    BY <1>1, <1>2, FS_RemoveElement, Zenon
  <2>2. Cardinality(taken) # 0
    BY <1>1, <1>2, FS_EmptySet, Zenon
  <2> QED BY <1>1, <1>5, <2>1, <2>2
<1>7. Done + 1 < NUM
  BY <1>1, <1>6, Sizes DEF RInv, RingsFit
<1>8. /\ (Wrap(used_id + 1) - used_idx) % NUM = Done + 1
      /\ used_id % NUM = UCell(Done)
  BY <1>0, <1>7, Complete, Zenon DEF RingShape
<1>9. Done' = Done + 1 /\ Pending' = Pending /\ Announced' = Announced
  BY <1>5, <1>8, Zenon DEF Done, Pending, Announced, ACell
<1>10. Active' = Active /\ Busy' = Busy
  BY <1>5, Zenon DEF Active, Busy, driver
<1>11. Handled' = Handled \cup {h}
  <2>1. \A i \in 0 .. Done - 1 : UCell(i) \in Descs /\ UCell(i) # UCell(Done)
    <3> TAKE i \in 0 .. Done - 1
    <3>1. i \in Nat /\ i # Done /\ i < NUM /\ Done < NUM /\ used_idx \in Int
      BY <1>0, <1>1, <1>7, Sizes DEF RingShape
    <3>2. UCell(i) # UCell(Done)
      BY <1>1, <3>1, CellsDiffer, Zenon DEF UCell
    <3> QED BY <1>0, <3>1, <3>2, CellRange, Zenon
  <2>2. UCell(Done) \in Descs
    BY <1>0, <1>1, CellRange, Zenon
  <2>3. \A i \in 0 .. Done - 1 : used'[UCell(i)] = used[UCell(i)]
    BY <1>0, <1>5, <1>8, <2>1, Zenon DEF RingShape
  <2>4. used'[UCell(Done)] = h
    BY <1>0, <1>5, <1>8, <2>2, Zenon DEF RingShape
  <2>5. 0 .. Done' - 1 = (0 .. Done - 1) \cup {Done}
    BY <1>1, <1>9
  <2>6. \A i : UCell(i)' = UCell(i)
    BY <1>5, Zenon DEF UCell
  <2>7. Handled' = {used'[UCell(i)'] : i \in 0 .. Done' - 1}
    BY <1>5 DEF Handled, Unhandled, UCell, Done
  <2>8. Handled' = {used'[UCell(i)] : i \in 0 .. Done' - 1}
    BY <2>6, <2>7, Zenon
  <2> QED BY <2>3, <2>4, <2>5, <2>8, HandledIs
<1>12. RingShape'
  <2>1. used_id' \in 0 .. Period - 1
    BY <1>0, <1>5, WrapRange, Sizes DEF RingShape
  <2>2. used' \in [Descs -> Descs] /\ taken' \subseteq Descs /\ status' \in [Descs -> BOOLEAN]
    BY <1>0, <1>5, Zenon DEF RingShape
  <2>3. moved' \in [Procs -> Nat]
    BY <1>0, <1>3, <1>5 DEF RingShape
  <2> QED BY <1>0, <1>5, <2>1, <2>2, <2>3, Zenon DEF RingShape, driver
<1>13. InFlightWaits'
  <2>1. \A x : Waiting(x) => Waiting(x)'
    BY <1>5, Zenon DEF Waiting, driver
  <2> QED BY <1>2, <1>5, <1>9, <1>11, <2>1, Zenon DEF RInv, InFlightWaits
<1>14. OnePlace'
  <2>1. Announced' \cap taken' = {} /\ (Announced' \cup taken') \cap Handled' = {}
    BY <1>2, <1>5, <1>9, <1>11, Zenon DEF RInv, OnePlace
  <2>2. \A i, j \in 0 .. Pending' - 1 : i # j => avail'[ACell(i)'] # avail'[ACell(j)']
    BY <1>5, <1>9, Zenon DEF RInv, OnePlace, ACell
  <2> QED BY <2>1, <2>2, Zenon DEF OnePlace
<1>15. RingsFit'
  BY <1>1, <1>6, <1>9, <1>10 DEF RInv, RingsFit
<1>16. OwnBuffer'
  BY <1>5, <1>10, Zenon DEF RInv, OwnBuffer, D2, driver
<1>17. MovedOnce'
  <2> SUFFICES ASSUME NEW p \in Active
               PROVE  /\ head[p] \in Announced \cup taken' => moved'[p] = 0
                      /\ head[p] \in Handled \cup {h} => status'[head[p]] \/ moved'[p] = 1
                      /\ ~busy[p] => panicked \/ moved'[p] = 1
    BY <1>5, <1>9, <1>10, <1>11, Zenon DEF MovedOnce, driver
  <2>1. p \in Procs /\ head[p] \in Descs
    BY <1>0, Zenon DEF Active, Inv, Shape
  <2>2. CASE p = q
    <3>1. moved[q] = 0 /\ busy[q]
      BY <1>2, <1>3, Zenon DEF RInv, MovedOnce, Busy
    <3>2. h \notin Announced \cup taken'
      BY <1>2, <1>5, Zenon DEF RInv, OnePlace
    <3>3. status'[h] \/ moved'[q] = 1
      BY <1>0, <1>3, <1>5, <3>1 DEF RingShape
    <3> QED BY <1>3, <2>2, <3>1, <3>2, <3>3, Zenon
  <2>3. CASE p # q
    <3>1. head[p] # h
      BY <1>0, <1>3, <2>3, HeadsDiffer, Zenon
    <3>2. moved'[p] = moved[p] /\ status'[head[p]] = status[head[p]]
      BY <1>0, <1>5, <2>1, <2>3, <3>1, Zenon DEF RingShape
    <3> QED BY <1>5, <3>1, <3>2, Zenon DEF RInv, MovedOnce
  <2> QED BY <2>2, <2>3, Zenon
<1> QED BY <1>12, <1>13, <1>14, <1>15, <1>16, <1>17, Zenon DEF RInv

\* The interrupt handler: every completed request releases its own process.
LEMMA IntrRInv ==
    ASSUME RInv, Inv', virtio_disk_intr
    PROVE  RInv'
<1>0. Inv /\ RingShape
  BY Zenon DEF RInv
<1>1. /\ Pending \in Nat /\ Done \in Nat /\ IsFiniteSet(taken) /\ Cardinality(taken) \in Nat
      /\ IsFiniteSet(Busy) /\ Cardinality(Busy) \in Nat
  BY <1>0, Numbers, Zenon
<1> DEFINE ready == {info[h] : h \in Handled}
<1>2. /\ panicked' = (\E h \in Handled : status[h])
      /\ busy' = [p \in Procs |-> busy[p] /\ p \notin ready]
      /\ used_idx' = used_id % NUM
      /\ used' = [i \in Descs |-> IF i \in Unhandled THEN 0 ELSE used[i]]
      /\ UNCHANGED <<free, next, addr, info, head, avail, avail_idx, used_id, device>>
  BY Zenon DEF virtio_disk_intr
<1>3. used_id % NUM \in 0 .. NUM - 1 /\ (used_id - (used_id % NUM)) % NUM = 0
  BY <1>0, CaughtUp, Zenon DEF RingShape
<1>4. Done' = 0 /\ Handled' = {}
  <2>1. Done' = 0
    BY <1>2, <1>3, Zenon DEF Done
  <2>2. Handled' = {used'[UCell(i)'] : i \in 0 .. Done' - 1}
    BY Zenon DEF Handled, Unhandled, UCell, Done
  <2> QED BY <2>1, <2>2
<1>5. Pending' = Pending /\ Announced' = Announced /\ taken' = taken /\ Active' = Active
  BY <1>2, Zenon DEF Pending, Announced, ACell, Active, device
<1>6. \A h \in Handled : h \in Descs /\ info[h] \in Busy /\ head[info[h]] = h
  BY <1>0, InFlightDescs, WaitingActive, Zenon DEF RInv, InFlightWaits
<1>7. RingShape'
  <2>1. 0 \in Descs
    BY Sizes DEF Descs
  <2>2. used' \in [Descs -> Descs] /\ busy' \in [Procs -> BOOLEAN]
    BY <1>0, <1>2, <2>1, Zenon DEF RingShape
  <2> QED BY <1>0, <1>2, <1>3, <2>2, Zenon DEF RingShape, device
<1>8. \A h \in Announced \cup taken : Waiting(h)'
  <2> TAKE h \in Announced \cup taken
  <2>1. h \in Descs /\ info[h] \in Busy /\ info[h] \in Procs /\ head[info[h]] = h
    BY <1>0, InFlightDescs, WaitingActive, Zenon DEF RInv, InFlightWaits
  <2>2. info[h] \notin ready
    <3> SUFFICES ASSUME NEW g \in Handled, info[h] = info[g] PROVE FALSE
      BY Zenon
    <3>1. g = h
      BY <1>6, <2>1, Zenon
    <3> QED BY <3>1, Zenon DEF RInv, OnePlace
  <2>3. busy'[info[h]]
    BY <1>2, <2>1, <2>2, Zenon DEF Busy
  <2>4. info' = info /\ head' = head
    BY <1>2, Zenon
  <2> QED BY <2>1, <2>3, <2>4, Zenon DEF Waiting
<1>9. InFlightWaits'
  BY <1>4, <1>5, <1>8, Zenon DEF InFlightWaits
<1>10. OnePlace'
  BY <1>2, <1>4, <1>5, Zenon DEF RInv, OnePlace, ACell, device
<1>11. Busy' = Busy \ ready
  BY <1>2, <1>5, Zenon DEF Busy, Active
<1>12. IsFiniteSet(ready) /\ Cardinality(ready) \in Nat /\ Cardinality(ready) <= Done
  <2> DEFINE f == [i \in 1 .. Done |-> info[used[UCell(i - 1)]]]
  <2>1. \A i \in 1 .. Done : i - 1 \in 0 .. Done - 1 /\ f[i] \in ready
    BY <1>1, HandledIs
  <2>2. \A x \in ready : \E i \in 1 .. Done : f[i] = x
    <3> SUFFICES ASSUME NEW h \in Handled PROVE \E i \in 1 .. Done : f[i] = info[h]
      OBVIOUS
    <3>1. PICK i \in 0 .. Done - 1 : h = used[UCell(i)]
      BY HandledIs, Zenon
    <3>2. i + 1 \in 1 .. Done /\ (i + 1) - 1 = i
      BY <1>1
    <3> QED BY <3>1, <3>2, Zenon
  <2>3. f \in [1 .. Done -> ready]
    BY <2>1, Zenon
  <2> HIDE DEF f, ready
  <2>4. f \in Surjection(1 .. Done, ready)
    BY <2>2, <2>3, Zenon DEF Surjection
  <2>5. IsFiniteSet(1 .. Done) /\ Cardinality(1 .. Done) = Done
    <3>1. 1 \in Int /\ Done \in Int /\ (1 > Done => Done = 0) /\ Done - 1 + 1 = Done
      BY <1>1
    <3> QED BY <3>1, FS_Interval, Zenon
  <2>6. IsFiniteSet(ready) /\ Cardinality(ready) <= Cardinality(1 .. Done)
    BY <2>4, <2>5, FS_Surjection, Zenon
  <2> QED BY <2>5, <2>6, FS_CardinalityType, Zenon
<1> HIDE DEF ready
<1>13. RingsFit'
  <2>1. IsFiniteSet(Busy \ ready) /\ Cardinality(Busy \ ready) \in Nat
    BY <1>1, FS_Subset, FS_CardinalityType, Zenon
  <2> DEFINE u == (Busy \ ready) \cup ready
             n == (Busy \ ready) \cap ready
  <2>2. IsFiniteSet(u) /\ Cardinality(u) = Cardinality(Busy \ ready) + Cardinality(ready) - Cardinality(n)
    BY <1>12, <2>1, FS_Union, Zenon
  <2>3. n = {} /\ Busy \in SUBSET u
    BY Zenon
  <2>4. Cardinality(n) = 0 /\ Cardinality(Busy) <= Cardinality(u)
    BY <2>2, <2>3, FS_EmptySet, FS_Subset, Zenon
  <2> HIDE DEF u, n
  <2>5. Cardinality(Busy) <= Cardinality(Busy \ ready) + Done
    BY <1>1, <1>12, <2>1, <2>2, <2>4
  <2>6. Pending + Cardinality(taken) + Done <= Cardinality(Busy)
    BY Zenon DEF RInv, RingsFit
  <2>7. Pending + Cardinality(taken) + 0 <= Cardinality(Busy \ ready)
    BY <1>1, <2>1, <2>5, <2>6
  <2> QED BY <1>4, <1>5, <1>11, <2>7, Zenon DEF RingsFit
<1>14. OwnBuffer'
  BY <1>2, <1>5, Zenon DEF RInv, OwnBuffer, D2
<1>15. MovedOnce'
  <2> SUFFICES ASSUME NEW p \in Active, ~busy'[p], ~panicked', busy[p] PROVE moved[p] = 1
    BY <1>2, <1>4, <1>5, Zenon DEF RInv, MovedOnce, virtio_disk_intr, device, Active
  <2>1. PICK h \in Handled : p = info[h]
    BY <1>2, Zenon DEF Active, ready
  <2>2. ~status[h] /\ head[p] = h
    BY <1>2, <1>6, <2>1, Zenon
  <2> QED BY <2>1, <2>2, Zenon DEF RInv, MovedOnce
<1> QED BY <1>7, <1>9, <1>10, <1>13, <1>14, <1>15, Zenon DEF RInv

\* disk_read_write() announces a request: its head was free, hence nowhere
\* in the rings.
LEMMA SubmitRInv ==
    ASSUME RInv, Inv', NEW p \in Procs, submit(p)
    PROVE  RInv'
<1>0. Inv /\ RingShape
  BY Zenon DEF RInv
<1>1. /\ Pending \in Nat /\ Done \in Nat /\ IsFiniteSet(taken) /\ Cardinality(taken) \in Nat
      /\ IsFiniteSet(Busy) /\ Cardinality(Busy) \in Nat /\ Cardinality(Busy) <= Cardinality(Active)
  BY <1>0, Numbers, Zenon
<1> DEFINE a == First
           b == Second
           c == Third
<1>2. a \in free /\ b \in free \ {a} /\ c \in free \ {a, b} /\ free \subseteq Descs
  BY <1>0, AllocThree, Zenon DEF submit, Inv, Shape
<1>3. /\ next' = [next EXCEPT ![a] = b, ![b] = c, ![c] = None]
      /\ addr' = [addr EXCEPT ![a] = None, ![b] = p, ![c] = None]
      /\ status' = [status EXCEPT ![a] = FALSE]
      /\ busy' = [busy EXCEPT ![p] = TRUE]
      /\ moved' = [moved EXCEPT ![p] = 0]
      /\ info' = [info EXCEPT ![a] = p]
      /\ head' = [head EXCEPT ![p] = a]
      /\ avail' = [avail EXCEPT ![avail_idx % NUM] = a]
      /\ avail_idx' = Wrap(avail_idx + 1)
      /\ pc[p] = "alloc"
      /\ UNCHANGED <<used, used_id, used_idx, seen, taken, irq, panicked>>
  BY Zenon DEF submit
<1> HIDE DEF a, b, c
<1>4. next \in [Descs -> Descs \cup {None}] /\ head \in [Procs -> Descs \cup {None}]
  BY <1>0, Zenon DEF Inv, Shape
<1>types. /\ avail \in [Descs -> Descs]
          /\ info \in [Descs -> Procs \cup {None}] /\ addr \in [Descs -> Procs \cup {None}]
          /\ status \in [Descs -> BOOLEAN]
          /\ busy \in [Procs -> BOOLEAN] /\ moved \in [Procs -> Nat]
  BY <1>0, Zenon DEF RingShape
<1>head. head'[p] = a /\ \A q \in Procs \ {p} : head'[q] = head[q]
  BY <1>3, <1>4, Zenon
<1>busy. busy'[p] /\ \A q \in Procs \ {p} : busy'[q] = busy[q]
  BY <1>3, <1>types, Zenon
<1>moved. moved'[p] = 0 /\ \A q \in Procs \ {p} : moved'[q] = moved[q]
  BY <1>3, <1>types, Zenon
<1>info. info'[a] = p /\ \A i \in Descs \ {a} : info'[i] = info[i]
  BY <1>2, <1>3, <1>types, Zenon
<1>status. \A i \in Descs \ {a} : status'[i] = status[i]
  BY <1>3, <1>types, Zenon
<1>addr. addr'[b] = p /\ \A i \in Descs \ {a, b, c} : addr'[i] = addr[i]
  BY <1>2, <1>3, <1>types, Zenon
<1>next. next'[a] = b /\ \A i \in Descs \ {a, b, c} : next'[i] = next[i]
  BY <1>2, <1>3, <1>4, Zenon
<1>5. p \notin Active /\ Active' = Active \cup {p}
  <2>1. head[p] = None
    BY <1>0, <1>3, Zenon DEF HeadsWait, Inv
  <2>2. a # None
    BY <1>2, NoneOutside, Zenon
  <2> QED BY <1>head, <2>1, <2>2, Zenon DEF Active
<1>6. Busy' = Busy \cup {p} /\ p \notin Busy
  BY <1>5, <1>busy, Zenon DEF Busy, Active
<1>7. Cardinality(Busy') = Cardinality(Busy) + 1
  BY <1>1, <1>6, FS_AddElement, Zenon
<1>8. Cardinality(Active') = Cardinality(Active) + 1
  BY <1>5, ActiveFinite, FS_AddElement, Zenon
<1>9. Pending + 1 < NUM
  <2>1. free' \in SUBSET Descs /\ Cardinality(free') + 3 * Cardinality(Active') = NUM
    BY Zenon DEF Inv, Shape, Count
  <2>3. Cardinality(free') \in Nat
    BY <2>1, DescsFinite, FS_Subset, FS_CardinalityType, Zenon
  <2>2. Cardinality(Active) \in Nat
    BY ActiveFinite, Zenon
  <2> QED BY <1>1, <1>8, <2>1, <2>2, <2>3, Sizes DEF RInv, RingsFit
<1>10. /\ Wrap(Wrap(avail_idx + 1) - seen) = Pending + 1
       /\ avail_idx % NUM = ACell(Pending)
  BY <1>0, <1>9, Announce, Zenon DEF RingShape
<1>11. Pending' = Pending + 1 /\ Done' = Done /\ Handled' = Handled
  BY <1>3, <1>10, Zenon DEF Pending, Done, Handled, Unhandled
<1>12. \A i \in 0 .. Pending - 1 : avail'[ACell(i)] = avail[ACell(i)]
  <2> TAKE i \in 0 .. Pending - 1
  <2>1. i \in Nat /\ i # Pending /\ i < NUM /\ Pending < NUM /\ seen \in Int
    BY <1>0, <1>1, <1>9, Sizes DEF RingShape
  <2>2. ACell(i) # ACell(Pending)
    BY <1>1, <2>1, CellsDiffer, Zenon DEF ACell
  <2>3. ACell(i) \in Descs
    BY <1>0, <2>1, CellRange, Zenon
  <2> QED BY <1>3, <1>10, <1>types, <2>2, <2>3, Zenon
<1>13. avail'[ACell(Pending)] = a
  <2>1. ACell(Pending) \in Descs
    BY <1>0, <1>1, CellRange, Zenon
  <2> QED BY <1>3, <1>10, <1>types, <2>1, Zenon
<1>14. 0 .. Pending' - 1 = (0 .. Pending - 1) \cup {Pending} /\ Pending \notin 0 .. Pending - 1
  BY <1>1, <1>11
<1>15. \A i : ACell(i)' = ACell(i)
  BY <1>3, Zenon DEF ACell
<1>16. Announced' = Announced \cup {a}
  <2>1. Announced' = {avail'[ACell(i)'] : i \in 0 .. Pending' - 1}
    BY Zenon DEF Announced
  <2>2. Announced' = {avail'[ACell(i)] : i \in 0 .. Pending' - 1}
    BY <1>15, <2>1, Zenon
  <2> QED BY <1>12, <1>13, <1>14, <2>2 DEF Announced
<1>17. \A h \in Announced \cup taken \cup Handled :
          /\ h \in Descs /\ h # a /\ info[h] \in Busy /\ info[h] \in Procs /\ head[info[h]] = h
  BY <1>0, <1>2, InFlightDescs, WaitingActive, Zenon DEF RInv, InFlightWaits
<1>18. RingShape'
  <2>1. avail_idx' \in 0 .. Period - 1
    BY <1>0, <1>3, WrapRange, Sizes DEF RingShape
  <2>2. avail' \in [Descs -> Descs]
    BY <1>2, <1>3, <1>types, Zenon
  <2>3. info' \in [Descs -> Procs \cup {None}] /\ addr' \in [Descs -> Procs \cup {None}]
    BY <1>3, <1>types, Zenon
  <2>4. status' \in [Descs -> BOOLEAN] /\ busy' \in [Procs -> BOOLEAN] /\ moved' \in [Procs -> Nat]
    BY <1>3, <1>types, Zenon
  <2> QED BY <1>0, <1>3, <2>1, <2>2, <2>3, <2>4, Zenon DEF RingShape
<1>19. InFlightWaits'
  <2>1. \A h \in Announced \cup taken \cup Handled : Waiting(h)'
    <3> TAKE h \in Announced \cup taken \cup Handled
    <3>1. info'[h] = info[h] /\ info[h] # p
      BY <1>6, <1>17, <1>info, Zenon
    <3>2. head'[info[h]] = h /\ busy'[info[h]]
      BY <1>17, <1>head, <1>busy, <3>1, Zenon DEF Busy
    <3> QED BY <1>17, <3>1, <3>2, Zenon DEF Waiting
  <2>2. info'[a] = p /\ head'[p] = a /\ busy'[p]
    BY <1>head, <1>busy, <1>info, Zenon
  <2>3. \A h : h = a => Waiting(h)'
    BY <2>2, Zenon DEF Waiting
  <2> QED BY <1>3, <1>11, <1>16, <2>1, <2>3, Zenon DEF InFlightWaits
<1>20. OnePlace'
  <2>1. \A i, j \in 0 .. Pending' - 1 : i # j => avail'[ACell(i)'] # avail'[ACell(j)']
    <3>1. \A i \in 0 .. Pending - 1 : avail[ACell(i)] # a
      BY <1>17, Zenon DEF Announced
    <3>2. \A i, j \in 0 .. Pending - 1 : i # j => avail[ACell(i)] # avail[ACell(j)]
      BY Zenon DEF RInv, OnePlace
    <3>3. \A i, j \in 0 .. Pending' - 1 : i # j => avail'[ACell(i)] # avail'[ACell(j)]
      BY <1>12, <1>13, <1>14, <3>1, <3>2, Zenon
    <3> QED BY <1>15, <3>3, Zenon
  <2>2. Announced' \cap taken' = {} /\ (Announced' \cup taken') \cap Handled' = {}
    BY <1>3, <1>11, <1>16, <1>17, Zenon DEF RInv, OnePlace
  <2> QED BY <2>1, <2>2, Zenon DEF OnePlace
<1>21. RingsFit'
  BY <1>1, <1>3, <1>7, <1>11 DEF RInv, RingsFit
<1>22. \A q \in Active : /\ q # p /\ q \in Procs /\ head'[q] = head[q] /\ D2(q)' = D2(q)
                         /\ head[q] \in Descs /\ D2(q) \in Descs
                         /\ head[q] \notin {a, b, c} /\ D2(q) \notin {a, b, c}
  <2> TAKE q \in Active
  <2>1. q # p /\ q \in Procs /\ head[q] \in Descs /\ D2(q) \in Descs
    BY <1>0, <1>4, <1>5, Zenon DEF Active, Inv, Linked
  <2>2. head[q] \notin {a, b, c} /\ D2(q) \notin {a, b, c}
    BY <1>0, <1>2, Zenon DEF Inv, Linked
  <2>3. head'[q] = head[q]
    BY <1>head, <2>1, Zenon
  <2> QED BY <1>next, <2>1, <2>2, <2>3, Zenon DEF D2
<1>23. OwnBuffer'
  <2>1. D2(p)' = b /\ addr'[b] = p
    BY <1>head, <1>next, <1>addr, Zenon DEF D2
  <2>2. \A q \in Active : addr'[D2(q)'] = q
    <3> TAKE q \in Active
    <3>1. addr'[D2(q)] = addr[D2(q)]
      BY <1>22, <1>addr, Zenon
    <3> QED BY <1>22, <3>1, Zenon DEF RInv, OwnBuffer
  <2> QED BY <1>5, <2>1, <2>2, Zenon DEF OwnBuffer
<1>24. MovedOnce'
  <2>1. moved'[p] = 0 /\ busy'[p] /\ head'[p] = a /\ a \notin Handled
    BY <1>17, <1>head, <1>busy, <1>moved, Zenon
  <2>2. \A q \in Active : /\ moved'[q] = moved[q] /\ busy'[q] = busy[q]
                          /\ status'[head[q]] = status[head[q]]
    BY <1>22, <1>busy, <1>moved, <1>status, Zenon
  <2>3. \A q \in Active : /\ head[q] \in Announced \cup taken => moved[q] = 0
                          /\ head[q] \in Handled => status[head[q]] \/ moved[q] = 1
                          /\ ~busy[q] => panicked \/ moved[q] = 1
    BY Zenon DEF RInv, MovedOnce
  <2>4. taken' = taken /\ panicked' = panicked
    BY <1>3, Zenon
  <2> QED BY <1>5, <1>11, <1>16, <1>22, <2>1, <2>2, <2>3, <2>4, Zenon DEF MovedOnce
<1> QED BY <1>18, <1>19, <1>20, <1>21, <1>23, <1>24, Zenon DEF RInv

\* disk_read_write() returns: its head has left the rings.
LEMMA FinishRInv ==
    ASSUME RInv, Inv', NEW p \in Procs, finish(p)
    PROVE  RInv'
<1>0. Inv /\ RingShape
  BY Zenon DEF RInv
<1>pc. ~panicked /\ pc[p] = "wait" /\ ~busy[p]
  BY Zenon DEF finish
<1>1. p \in Active /\ ~busy[p]
  BY <1>0, <1>pc, Zenon DEF Active, Inv, HeadsWait
<1> DEFINE a == head[p]
           c == {a, D2(p), D3(p)}
<1>2. Chain(head[p]) \ {None} = c
  BY <1>0, <1>1, ChainIs, Zenon
<1>3. /\ next' = [i \in Descs |-> IF i \in c THEN None ELSE next[i]]
      /\ addr' = [i \in Descs |-> IF i \in c THEN None ELSE addr[i]]
      /\ info' = [info EXCEPT ![a] = None]
      /\ head' = [head EXCEPT ![p] = None]
      /\ UNCHANGED <<busy, rings, device, irq>>
  BY <1>2, Zenon DEF finish, Clear
<1>4. next \in [Descs -> Descs \cup {None}] /\ head \in [Procs -> Descs \cup {None}]
  BY <1>0, Zenon DEF Inv, Shape
<1>5. Active' = Active \ {p}
  BY <1>3, <1>4, Zenon DEF Active
<1>6. \A q \in Active \ {p} :
         /\ q \in Procs /\ head'[q] = head[q] /\ D2(q)' = D2(q)
         /\ head[q] # a /\ D2(q) \in Descs /\ D2(q) \notin c
  <2> TAKE q \in Active \ {p}
  <2>1. q \in Procs /\ head[q] \in Descs /\ D2(q) \in Descs
    BY <1>0, <1>4, Zenon DEF Active, Inv, Linked
  <2>2. head[q] \notin c /\ D2(q) \notin c
    BY <1>0, <1>1, <2>1, Zenon DEF Inv, Apart
  <2>3. head'[q] = head[q]
    BY <1>3, <1>4, <2>1, Zenon
  <2> QED BY <1>3, <1>4, <2>1, <2>2, <2>3, Zenon DEF D2
<1>7. /\ Pending' = Pending /\ Done' = Done /\ taken' = taken
      /\ Announced' = Announced /\ Handled' = Handled
  BY <1>3, Zenon DEF Pending, Done, Announced, ACell, Handled, Unhandled, rings, device
<1>8. Busy' = Busy
  BY <1>1, <1>3, <1>5, Zenon DEF Busy
<1> HIDE DEF a, c
<1>9. RingShape'
  <2>1. info' \in [Descs -> Procs \cup {None}] /\ addr' \in [Descs -> Procs \cup {None}]
    BY <1>0, <1>3, Zenon DEF RingShape
  <2> QED BY <1>0, <1>3, <2>1, Zenon DEF RingShape, rings, device
<1>10. InFlightWaits'
  <2> SUFFICES ASSUME NEW h \in Announced \cup taken \cup Handled PROVE Waiting(h)'
    BY <1>7, Zenon DEF InFlightWaits
  <2>1. h \in Descs /\ info[h] \in Busy /\ info[h] \in Procs /\ head[info[h]] = h
    BY <1>0, InFlightDescs, WaitingActive, Zenon DEF RInv, InFlightWaits
  <2>2. info[h] # p /\ info[h] \in Active /\ busy[info[h]]
    BY <1>1, <2>1, Zenon DEF Busy
  <2>3. h # a /\ head'[info[h]] = h
    BY <1>6, <2>1, <2>2, Zenon
  <2>4. info'[h] = info[h] /\ busy' = busy
    BY <1>0, <1>3, <2>1, <2>3, Zenon DEF RingShape
  <2> QED BY <2>1, <2>2, <2>3, <2>4, Zenon DEF Waiting
<1>11. OnePlace'
  BY <1>3, <1>7, Zenon DEF RInv, OnePlace, ACell, rings, device
<1>12. RingsFit'
  BY <1>7, <1>8, Zenon DEF RInv, RingsFit
<1>13. OwnBuffer'
  BY <1>0, <1>3, <1>5, <1>6 DEF RInv, OwnBuffer, RingShape
<1>14. MovedOnce'
  <2>1. \A q \in Active : /\ head[q] \in Announced \cup taken => moved[q] = 0
                          /\ head[q] \in Handled => status[head[q]] \/ moved[q] = 1
                          /\ ~busy[q] => moved[q] = 1
    BY <1>pc, Zenon DEF RInv, MovedOnce
  <2>2. busy' = busy /\ moved' = moved /\ status' = status
    BY <1>3, Zenon DEF device
  <2> QED BY <1>5, <1>6, <1>7, <2>1, <2>2, Zenon DEF MovedOnce
<1> QED BY <1>9, <1>10, <1>11, <1>12, <1>13, <1>14, Zenon DEF RInv

\* alloc3_desc() gives back what it had: only free descriptors are cleared.
LEMMA NoDescRInv ==
    ASSUME RInv, Inv', NEW p \in Procs, no_desc(p)
    PROVE  RInv'
<1>1. /\ addr' = [i \in Descs |-> IF i \in free THEN None ELSE addr[i]]
      /\ UNCHANGED <<next, head, info, busy, rings, device, panicked>>
  BY Zenon DEF no_desc
<1>2. addr' \in [Descs -> Procs \cup {None}]
  BY <1>1, Zenon DEF RInv, RingShape
<1>3. \A q \in Active : addr'[D2(q)] = addr[D2(q)]
  BY <1>1, Zenon DEF RInv, Inv, Linked
<1> QED BY <1>1, <1>2, <1>3, QuietRInv, Zenon

\* Every step preserves the invariant.
LEMMA RInvStep == RInv /\ [Next]_vars => RInv'
<1> SUFFICES ASSUME RInv, [Next]_vars PROVE RInv'
  BY Zenon
<1>0. Inv' /\ addr \in [Descs -> Procs \cup {None}]
  BY InvStep, Zenon DEF RInv, RingShape
<1>1. ASSUME NEW p \in Procs, disk_read_write(p) \/ wait_more(p) \/ kill(p) PROVE RInv'
  BY <1>0, <1>1, QuietRInv, Zenon DEF disk_read_write, wait_more, kill
<1>2. ASSUME NEW p \in Procs, submit(p) PROVE RInv'
  BY <1>0, <1>2, SubmitRInv, Zenon
<1>3. ASSUME NEW p \in Procs, no_desc(p) PROVE RInv'
  BY <1>0, <1>3, NoDescRInv, Zenon
<1>4. ASSUME NEW p \in Procs, finish(p) PROVE RInv'
  BY <1>0, <1>4, FinishRInv, Zenon
<1>5. CASE Device
  BY <1>0, <1>5, TakeRInv, DoneRInv, Zenon DEF Device
<1>6. CASE virtio_disk_intr
  BY <1>0, <1>6, IntrRInv, Zenon
<1>7. CASE panic \/ UNCHANGED vars
  BY <1>0, <1>7, QuietRInv, Zenon DEF panic, vars, rings, device
<1> QED BY <1>1, <1>2, <1>3, <1>4, <1>5, <1>6, <1>7, Zenon DEF Next, DriverStep

\* The rings agree with the waiting processes in every reachable state.
LEMMA RInvAlways == Spec => []RInv
  BY InitRInv, RInvStep, PTL DEF Spec

\* Whatever the order in which the device completes requests, however many
\* before one interrupt, and wherever the counters wrap: virtio_disk_intr()
\* finds behind each entry the process that still waits for it, and
\* disk_read_write() returns only after its data was moved, once.
THEOREM CompletionsCorrect == Spec => []CompletionsMatch
<1>1. RInv => CompletionsMatch
  <2> SUFFICES ASSUME RInv PROVE CompletionsMatch
    BY Zenon
  <2>1. \A h \in Handled : \E p \in Procs : info[h] = p /\ head[p] = h /\ busy[p]
    BY Zenon DEF RInv, InFlightWaits, Waiting
  <2>2. \A p \in Procs : pc[p] = "wait" => p \in Active
    BY Zenon DEF RInv, Inv, HeadsWait, Active
  <2> QED BY <2>1, <2>2, Zenon DEF CompletionsMatch, RInv, MovedOnce
<1> QED BY <1>1, RInvAlways, PTL

=============================================================================
