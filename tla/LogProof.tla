------------------------------ MODULE LogProof ------------------------------
(***************************************************************************)
(* Proofs about Log for any number of processes, any size of the log and   *)
(* any block contents.                                                     *)
(***************************************************************************)
EXTENDS Log, FiniteSetTheorems, TLAPS

\* TypeOK in three parts, which the provers take one at a time: control,
\* Booleans, and the blocks in memory and on the disk, with the bound that
\* keeps every entry of the log an address of the disk.
BoolOK == commit \in BOOLEAN /\ up \in BOOLEAN /\ panicked \in BOOLEAN

CtlOK ==
    /\ pc \in [Procs -> Procstate]
    /\ wrote \in [Procs -> SUBSET Blocks]
    /\ num_syscalls \in Int
    /\ phase \in Phases
    /\ idx \in Nat

StoreOK ==
    /\ loghead \in Seq(Blocks)
    /\ hdr \in Seq(Blocks)
    /\ cache \in [Addrs -> Values]
    /\ disk \in [Addrs -> Values]
    /\ Len(loghead) <= FsSize - 1

\* After a crash and before the recovery nothing is left in memory.
DownOK == ~up => loghead = <<>> /\ phase = "none"

\* TypeOK in the parts the steps below preserve one by one.
LEMMA TypeParts == CtlOK /\ BoolOK /\ StoreOK /\ num_syscalls \in Nat => TypeOK
  BY DEF TypeOK, CtlOK, BoolOK, StoreOK

\* Home blocks and log area are disjoint parts of the disk.
LEMMA AddrFacts == /\ Blocks \subseteq Addrs
                   /\ \A i \in Nat : 1 <= i /\ i <= FsSize - 1 => i \in Addrs
                   /\ \A b \in Blocks : b >= NumLog /\ b \in Nat
  BY LogAssumption DEF Blocks, Addrs

\* The steps of Next, one per region of the code or block written.
LEMMA NextCases ==
    ASSUME Next
    PROVE  \/ write_log \/ write_header \/ cpy_log_to_home \/ erase_header
           \/ crash \/ recover_from_log
           \/ \E p \in Procs : \/ begin_op(p) \/ begin_op_sleep(p)
                               \/ end_op(p) \/ end_op_commit(p) \/ end_commit(p)
           \/ \E p \in Procs, b \in Blocks, v \in Values : log_write(p, b, v)
  BY DEF Next, CommitStep, EndOp

\* read_header() of an empty header in memory copies nothing, so recovery
\* installs nothing.
LEMMA RecoverNothing ==
    ASSUME loghead = <<>>, disk \in [Addrs -> Values]
    PROVE  Replay(read_header, disk) = disk
<1>1. Len(read_header) = 0
  BY DEF read_header
<1>2. Logged(read_header) = {}
  BY <1>1 DEF Logged
<1>3. QED
  BY <1>2 DEF Replay

\* The flags commit, up and panicked stay Boolean.
LEMMA BoolStep == BoolOK /\ [Next]_vars => BoolOK'
<1> SUFFICES ASSUME BoolOK, [Next]_vars PROVE BoolOK'
  OBVIOUS
<1> USE DEF BoolOK
<1>1. ASSUME NEW p \in Procs, \/ begin_op(p) \/ begin_op_sleep(p) \/ end_op(p)
                              \/ end_op_commit(p) \/ end_commit(p)
      PROVE  BoolOK'
  BY <1>1 DEF begin_op, begin_op_sleep, end_op, end_op_commit, end_commit
<1>2. ASSUME NEW p \in Procs, NEW b \in Blocks, NEW v \in Values, log_write(p, b, v)
      PROVE  BoolOK'
  BY <1>2 DEF log_write, Refused
<1>3. CASE write_log \/ write_header \/ cpy_log_to_home \/ erase_header
  BY <1>3 DEF write_log, write_header, cpy_log_to_home, erase_header
<1>4. CASE crash \/ recover_from_log
  BY <1>4 DEF crash, recover_from_log
<1>5. CASE UNCHANGED vars
  BY <1>5 DEF vars
<1>6. QED
  BY <1>1, <1>2, <1>3, <1>4, <1>5, NextCases

\* Control state, header and counters keep their types.
LEMMA CtlStep == CtlOK /\ [Next]_vars => CtlOK'
<1> SUFFICES ASSUME CtlOK, [Next]_vars PROVE CtlOK'
  OBVIOUS
<1> USE DEF CtlOK, Procstate, Phases
<1>1. ASSUME NEW p \in Procs, begin_op(p) \/ begin_op_sleep(p) PROVE CtlOK'
  BY <1>1 DEF begin_op, begin_op_sleep
<1>2. ASSUME NEW p \in Procs, NEW b \in Blocks, NEW v \in Values, log_write(p, b, v)
      PROVE  CtlOK'
  BY <1>2 DEF log_write
<1>3. ASSUME NEW p \in Procs, end_op(p) \/ end_op_commit(p) \/ end_commit(p)
      PROVE  CtlOK'
  <2>1. wakeup(pc) \in [Procs -> Procstate]
    BY DEF wakeup
  <2>2. CASE end_op(p)
    BY <2>1, <2>2 DEF end_op
  <2>3. CASE end_op_commit(p)
    BY <2>3 DEF end_op_commit
  <2>4. CASE end_commit(p)
    BY <2>1, <2>4 DEF end_commit
  <2>5. QED
    BY <1>3, <2>2, <2>3, <2>4
<1>4. CASE write_log \/ write_header \/ cpy_log_to_home \/ erase_header
  BY <1>4 DEF write_log, write_header, cpy_log_to_home, erase_header
<1>5. CASE crash \/ recover_from_log
  BY <1>5 DEF crash, recover_from_log
<1>6. CASE UNCHANGED vars
  BY <1>6 DEF vars
<1>7. QED
  BY <1>1, <1>2, <1>3, <1>4, <1>5, <1>6, NextCases

\* Cache, disk and disk header keep their types.
LEMMA StoreStep == StoreOK /\ CtlOK /\ DownOK /\ [Next]_vars => StoreOK'
<1> SUFFICES ASSUME StoreOK, CtlOK, DownOK, [Next]_vars PROVE StoreOK'
  OBVIOUS
<1> USE DEF StoreOK
<1>0. idx \in Nat
  BY DEF CtlOK
<1>1. CASE UNCHANGED <<loghead, hdr, cache, disk>>
  BY <1>1
<1>2. ASSUME NEW p \in Procs, NEW b \in Blocks, NEW v \in Values, log_write(p, b, v)
      PROVE  StoreOK'
  <2>1. /\ loghead' \in Seq(Blocks)
        /\ Len(loghead') <= FsSize - 1
    <3>1. CASE loghead' = loghead
      BY <3>1
    <3>2. CASE loghead' = Append(loghead, b) /\ ~Refused
      BY <3>2, LogAssumption DEF Refused, log_start
    <3>3. QED
      BY <1>2, <3>1, <3>2 DEF log_write
  <2>2. cache' \in [Addrs -> Values]
    BY <1>2 DEF log_write
  <2>3. hdr' = hdr /\ disk' = disk
    BY <1>2 DEF log_write
  <2>4. QED
    BY <2>1, <2>2, <2>3
<1>3. CASE write_log
  <2>1. cache[loghead[idx + 1]] \in Values
    BY <1>0, <1>3, AddrFacts DEF write_log
  <2>2. cache' \in [Addrs -> Values] /\ disk' \in [Addrs -> Values]
    BY <1>3, <2>1 DEF write_log
  <2>3. UNCHANGED <<loghead, hdr>>
    BY <1>3 DEF write_log
  <2>4. QED
    BY <2>2, <2>3
<1>4. CASE write_header
  BY <1>4 DEF write_header
<1>5. CASE cpy_log_to_home
  <2>1. cache[idx + 1] \in Values
    BY <1>0, <1>5, LogAssumption, AddrFacts DEF cpy_log_to_home
  <2>2. cache' \in [Addrs -> Values] /\ disk' \in [Addrs -> Values]
    BY <1>5, <2>1 DEF cpy_log_to_home
  <2>3. UNCHANGED <<loghead, hdr>>
    BY <1>5 DEF cpy_log_to_home
  <2>4. QED
    BY <2>2, <2>3
<1>6. CASE erase_header
  BY <1>6, LogAssumption DEF erase_header
<1>7. CASE crash
  BY <1>7, LogAssumption DEF crash
<1>8. CASE recover_from_log
  <2>1. disk' = disk
    BY <1>8, RecoverNothing DEF recover_from_log, DownOK
  <2>2. QED
    BY <1>8, <2>1, LogAssumption DEF recover_from_log
<1>9. QED
  BY <1>1, <1>2, <1>3, <1>4, <1>5, <1>6, <1>7, <1>8, NextCases
     DEF begin_op, begin_op_sleep, end_op, end_op_commit, end_commit, vars

-----------------------------------------------------------------------------
\* The calls under way, which num_syscalls counts.
Ops == {p \in Procs : pc[p] = "op"}
CountOK == num_syscalls = Cardinality(Ops)

\* Calls and the commit exclude each other; DownOK: see above.
ExclOK ==
    /\ \A p \in Procs : pc[p] = "op" => ~commit
    /\ \A p \in Procs : pc[p] = "commit" => commit
    /\ \A p, q \in Procs : pc[p] = "commit" /\ pc[q] = "commit" => p = q
    /\ phase # "none" => commit
    /\ ~up => ~commit /\ \A p \in Procs : pc[p] # "op"

\* The calls under way are finitely many.
LEMMA OpsFinite == IsFiniteSet(Ops) /\ Cardinality(Ops) \in Nat
<1>1. IsFiniteSet(Ops)
  BY LogAssumption, FS_Subset DEF Ops
<1>2. QED
  BY <1>1, FS_CardinalityType

\* begin_op() and end_op() keep num_syscalls equal to the calls under way.
LEMMA CountStep == CtlOK /\ CountOK /\ [Next]_vars => CountOK'
<1> SUFFICES ASSUME CtlOK, CountOK, [Next]_vars PROVE CountOK'
  OBVIOUS
<1> USE DEF CountOK, CtlOK
<1>0. pc \in [Procs -> Procstate]
  OBVIOUS
<1>1. ASSUME NEW p \in Procs, begin_op(p) PROVE CountOK'
  <2>1. Ops' = Ops \cup {p} /\ p \notin Ops /\ num_syscalls' = num_syscalls + 1
    BY <1>0, <1>1 DEF begin_op, Ops
  <2>2. QED
    BY <2>1, OpsFinite, FS_AddElement
<1>2. ASSUME NEW p \in Procs, end_op(p) \/ end_op_commit(p) PROVE CountOK'
  <2>1. Ops' = Ops \ {p} /\ p \in Ops
    BY <1>0, <1>2 DEF end_op, end_op_commit, wakeup, Ops
  <2>2. num_syscalls' = num_syscalls - 1
    BY <1>2 DEF end_op, end_op_commit
  <2>3. QED
    BY <2>1, <2>2, OpsFinite, FS_RemoveElement
<1>3. CASE crash
  <2>1. Ops' = {} /\ num_syscalls' = 0
    BY <1>3 DEF crash, Ops
  <2>2. QED
    BY <2>1, FS_EmptySet
<1>4. ASSUME NEW p \in Procs, begin_op_sleep(p) \/ end_commit(p) PROVE CountOK'
  <2>1. Ops' = Ops /\ num_syscalls' = num_syscalls
    BY <1>0, <1>4 DEF begin_op_sleep, end_commit, wakeup, Ops
  <2>2. QED
    BY <2>1
<1>5. CASE UNCHANGED <<pc, num_syscalls>>
  BY <1>5 DEF Ops
<1>6. QED
  BY <1>1, <1>2, <1>3, <1>4, <1>5, NextCases
     DEF log_write, write_log, write_header, cpy_log_to_home, erase_header,
         recover_from_log, vars

\* With one call counted, the caller of end_op() is the only one.
LEMMA OnlyCall ==
    ASSUME CountOK, num_syscalls = 1, NEW p \in Ops, NEW q \in Ops
    PROVE  q = p
<1>0. IsFiniteSet(Ops) /\ Cardinality(Ops) = 1
  BY OpsFinite DEF CountOK
<1>1. IsFiniteSet(Ops \ {p}) /\ Cardinality(Ops \ {p}) = 0
  BY <1>0, FS_RemoveElement
<1>2. Ops \ {p} = {}
  BY <1>1, FS_EmptySet
<1>3. QED
  BY <1>2

\* The flag commit is set exactly while one process is in commit().
LEMMA ExclStep == CtlOK /\ BoolOK /\ CountOK /\ ExclOK /\ [Next]_vars => ExclOK'
<1> SUFFICES ASSUME CtlOK, BoolOK, CountOK, ExclOK, [Next]_vars PROVE ExclOK'
  OBVIOUS
<1>0. pc \in [Procs -> Procstate]
  BY DEF CtlOK
<1> USE <1>0 DEF ExclOK, BoolOK
<1>1. ASSUME NEW p \in Procs, begin_op(p) \/ begin_op_sleep(p) PROVE ExclOK'
  BY <1>1 DEF begin_op, begin_op_sleep, Running
<1>2. ASSUME NEW p \in Procs, end_op(p) PROVE ExclOK'
  BY <1>2 DEF end_op, wakeup
<1>3. ASSUME NEW p \in Procs, end_op_commit(p) PROVE ExclOK'
  <2>1. \A q \in Procs : q # p => pc[q] # "op"
    BY <1>3, OnlyCall DEF end_op_commit, Ops
  <2>2. QED
    BY <1>3, <2>1 DEF end_op_commit, Running
<1>4. ASSUME NEW p \in Procs, end_commit(p) PROVE ExclOK'
  BY <1>4 DEF end_commit, wakeup
<1>5. CASE write_log \/ write_header \/ cpy_log_to_home \/ erase_header
  BY <1>5 DEF write_log, write_header, cpy_log_to_home, erase_header
<1>6. CASE crash \/ recover_from_log
  BY <1>6 DEF crash, recover_from_log
<1>7. CASE UNCHANGED <<pc, commit, phase, up>>
  BY <1>7
<1>8. QED
  BY <1>1, <1>2, <1>3, <1>4, <1>5, <1>6, <1>7, NextCases DEF log_write, vars

-----------------------------------------------------------------------------
\* What the calls under way may still log: one pair per block.
Reserved == {r \in Procs \X (1 .. OpBlocks) :
                pc[r[1]] = "op" /\ r[2] > Cardinality(wrote[r[1]])}

\* The log never fills up. The reservation of begin_op() counts MAXLOGOPS for
\* each call and a call uses less, so one entry at least is always to spare.
SpaceOK == Len(loghead) + Cardinality(Reserved) <= LOGSIZE - 1

\* What a call has logged is in the header until the commit.
WroteOK ==
    /\ \A p \in Procs : IsFiniteSet(wrote[p])
    /\ \A p \in Procs : IF pc[p] = "op" THEN wrote[p] \subseteq Logged(loghead)
                        ELSE wrote[p] = {}

\* A new header entry adds its block to the set of logged blocks.
LEMMA LoggedAppend ==
    ASSUME NEW h \in Seq(Blocks), NEW b \in Blocks
    PROVE  Logged(Append(h, b)) = Logged(h) \cup {b}
<1>1. /\ Len(Append(h, b)) = Len(h) + 1
      /\ \A i \in 1 .. Len(h) : Append(h, b)[i] = h[i]
      /\ Append(h, b)[Len(h) + 1] = b
      /\ Len(h) \in Nat
  OBVIOUS
<1>2. 1 .. Len(h) + 1 = (1 .. Len(h)) \cup {Len(h) + 1}
  BY <1>1
<1>3. QED
  BY <1>1, <1>2, Zenon DEF Logged

\* One call's reservation covers what it still may log.
LEMMA Margin ==
    ASSUME NEW n \in Nat, NEW k \in Nat, NEW m \in Nat, k < m
    PROVE  (n + 1) * k + 1 <= (n + 1) * m
<1>1. PICK d \in Nat : m = k + 1 + d
  <2>1. m - k - 1 \in Nat /\ m = k + 1 + (m - k - 1)
    OBVIOUS
  <2>2. QED
    BY <2>1
<1>2. (n + 1) * m = (n + 1) * k + (n + 1) + (n + 1) * d
  BY <1>1
<1>3. (n + 1) * d \in Nat /\ (n + 1) * k \in Nat
  OBVIOUS
<1>4. QED
  BY <1>2, <1>3

\* The reservations of all calls under way add up.
LEMMA ReservedFinite ==
    /\ Reserved \in SUBSET (Ops \X (1 .. OpBlocks))
    /\ IsFiniteSet(Reserved)
    /\ Cardinality(Reserved) \in Nat
    /\ Cardinality(Reserved) <= Cardinality(Ops) * OpBlocks
<1>1. IsFiniteSet(1 .. OpBlocks) /\ Cardinality(1 .. OpBlocks) = OpBlocks
  BY LogAssumption, FS_Interval
<1>2. /\ IsFiniteSet(Ops \X (1 .. OpBlocks))
      /\ Cardinality(Ops \X (1 .. OpBlocks)) = Cardinality(Ops) * OpBlocks
  BY <1>1, OpsFinite, FS_Product
<1>3. Reserved \in SUBSET (Ops \X (1 .. OpBlocks))
  BY DEF Reserved, Ops
<1>4. QED
  BY <1>2, <1>3, FS_Subset, FS_CardinalityType

\* Under the reservation the header never fills up, and a call is counted.
LEMMA NotRefused ==
    ASSUME StoreOK, SpaceOK, CountOK, NEW p \in Procs, pc[p] = "op"
    PROVE  ~Refused
<1>1. Len(loghead) \in Nat
  BY DEF StoreOK
<1>2. Ops # {}
  BY DEF Ops
<1>3. num_syscalls \in Nat /\ num_syscalls # 0
  BY <1>2, OpsFinite, FS_EmptySet DEF CountOK
<1>4. QED
  BY <1>1, <1>3, ReservedFinite, LogAssumption DEF SpaceOK, Refused, log_start

\* A call logs at most OpBlocks different blocks.
LEMMA WroteStep ==
    CtlOK /\ StoreOK /\ SpaceOK /\ CountOK /\ ExclOK /\ WroteOK /\ [Next]_vars
    => WroteOK'
<1> SUFFICES ASSUME CtlOK, StoreOK, SpaceOK, CountOK, ExclOK, WroteOK, [Next]_vars
             PROVE  WroteOK'
  OBVIOUS
<1>0. /\ pc \in [Procs -> Procstate]
      /\ wrote \in [Procs -> SUBSET Blocks]
  BY DEF CtlOK
<1> USE <1>0 DEF WroteOK
<1>1. ASSUME NEW p \in Procs, begin_op(p) \/ begin_op_sleep(p) PROVE WroteOK'
  BY <1>1 DEF begin_op, begin_op_sleep
<1>2. ASSUME NEW p \in Procs, NEW b \in Blocks, NEW v \in Values, log_write(p, b, v)
      PROVE  WroteOK'
  <2>1. PICK h : /\ loghead' = h
                 /\ Logged(loghead) \subseteq Logged(h)
                 /\ b \in Logged(h)
    BY <1>2, LoggedAppend, NotRefused DEF log_write, Absorbed, StoreOK
  <2>2. QED
    BY <1>2, <2>1, FS_AddElement DEF log_write
<1>3. ASSUME NEW p \in Procs, end_op(p) \/ end_op_commit(p) \/ end_commit(p)
      PROVE  WroteOK'
  BY <1>3, FS_EmptySet DEF end_op, end_op_commit, end_commit, wakeup
<1>4. CASE erase_header
  <2>1. \A p \in Procs : pc[p] # "op"
    BY <1>4 DEF erase_header, ExclOK
  <2>2. QED
    BY <1>4, <2>1 DEF erase_header
<1>5. CASE crash
  BY <1>5, FS_EmptySet DEF crash
<1>6. CASE recover_from_log
  BY <1>6 DEF recover_from_log, ExclOK
<1>7. CASE UNCHANGED <<pc, wrote, loghead>>
  BY <1>7
<1>8. QED
  BY <1>1, <1>2, <1>3, <1>4, <1>5, <1>6, <1>7, NextCases
     DEF write_log, write_header, cpy_log_to_home, vars

\* The reservation is kept: entries plus what is reserved fit the header.
LEMMA SpaceStep ==
    CtlOK /\ StoreOK /\ CountOK /\ WroteOK /\ SpaceOK /\ [Next]_vars => SpaceOK'
<1> SUFFICES ASSUME CtlOK, StoreOK, CountOK, WroteOK, SpaceOK, [Next]_vars
             PROVE  SpaceOK'
  OBVIOUS
<1>0. /\ pc \in [Procs -> Procstate]
      /\ wrote \in [Procs -> SUBSET Blocks]
      /\ Len(loghead) \in Nat
  BY DEF CtlOK, StoreOK
<1>1. ASSUME Reserved' \in SUBSET Reserved, Len(loghead') \in Nat,
             Len(loghead') <= Len(loghead)
      PROVE  SpaceOK'
  <2>1. /\ Cardinality(Reserved') \in Nat
        /\ Cardinality(Reserved') <= Cardinality(Reserved)
    BY <1>1, ReservedFinite, FS_Subset, FS_CardinalityType
  <2>2. QED
    BY <1>0, <1>1, <2>1, ReservedFinite, LogAssumption DEF SpaceOK
<1>2. ASSUME NEW p \in Procs, begin_op(p) PROVE SpaceOK'
  <2>1. Ops' = Ops \cup {p} /\ p \notin Ops
    BY <1>0, <1>2 DEF begin_op, Ops
  <2>2. IsFiniteSet(Ops') /\ Cardinality(Ops') = num_syscalls + 1
    BY <2>1, OpsFinite, FS_AddElement DEF CountOK
  <2>3. Reserved' \in SUBSET (Ops' \X (1 .. OpBlocks))
    BY DEF Reserved, Ops
  <2>4. IsFiniteSet(1 .. OpBlocks) /\ Cardinality(1 .. OpBlocks) = OpBlocks
    BY LogAssumption, FS_Interval
  <2>5. /\ IsFiniteSet(Ops' \X (1 .. OpBlocks))
        /\ Cardinality(Ops' \X (1 .. OpBlocks)) = (num_syscalls + 1) * OpBlocks
    BY <2>2, <2>4, FS_Product, ZenonT(40)
  <2>6. /\ Cardinality(Reserved') \in Nat
        /\ Cardinality(Reserved') <= (num_syscalls + 1) * OpBlocks
    BY <2>3, <2>5, FS_Subset, FS_CardinalityType
  <2>7. num_syscalls \in Nat
    BY OpsFinite DEF CountOK
  <2>8. (num_syscalls + 1) * OpBlocks + 1 <= (num_syscalls + 1) * MAXLOGOPS
    BY <2>7, LogAssumption, Margin
  <2>9. loghead' = loghead /\ Len(loghead) + (num_syscalls + 1) * MAXLOGOPS <= LOGSIZE
    BY <1>2 DEF begin_op, Room
  <2>10. /\ (num_syscalls + 1) * OpBlocks \in Nat
         /\ (num_syscalls + 1) * MAXLOGOPS \in Nat
    BY <2>7, LogAssumption
  <2> HIDE DEF Reserved
  <2>11. QED
    BY <1>0, <2>6, <2>8, <2>9, <2>10, LogAssumption DEF SpaceOK
<1>3. ASSUME NEW p \in Procs, NEW b \in Blocks, NEW v \in Values, log_write(p, b, v)
      PROVE  SpaceOK'
  <2> DEFINE k == Cardinality(wrote[p])
  <2>1. /\ pc[p] = "op"
        /\ pc' = pc
        /\ wrote' = [wrote EXCEPT ![p] = @ \cup {b}]
        /\ Cardinality(wrote[p] \cup {b}) <= OpBlocks
        /\ loghead' = IF Absorbed(b) THEN loghead ELSE Append(loghead, b)
    BY <1>3, NotRefused DEF log_write
  <2>2. /\ IsFiniteSet(wrote[p])
        /\ wrote[p] \subseteq Logged(loghead)
        /\ k \in Nat
    BY <2>1, FS_CardinalityType DEF WroteOK
  <2>3. Cardinality(wrote[p] \cup {b}) = IF b \in wrote[p] THEN k ELSE k + 1
    BY <2>2, FS_AddElement
  <2>4. \A q \in Procs : Cardinality(wrote'[q]) =
           IF q = p THEN Cardinality(wrote[p] \cup {b}) ELSE Cardinality(wrote[q])
    BY <1>0, <2>1
  <2>5. CASE Absorbed(b)
    <3>1. Reserved' \in SUBSET Reserved
      BY <2>1, <2>2, <2>3, <2>4 DEF Reserved
    <3>2. QED
      BY <1>0, <1>1, <2>1, <2>5, <3>1
  <2>6. CASE ~Absorbed(b)
    <3>1. b \notin wrote[p]
      BY <2>2, <2>6 DEF Absorbed
    <3>2. <<p, k + 1>> \in Reserved
      BY <2>1, <2>2, <2>3, <3>1, LogAssumption DEF Reserved
    <3>3. Reserved' \subseteq Reserved \ {<<p, k + 1>>}
      <4>1. ASSUME NEW r \in Reserved' PROVE r \in Reserved /\ r # <<p, k + 1>>
        <5>1. /\ r \in Procs \X (1 .. OpBlocks)
              /\ pc[r[1]] = "op"
              /\ r[2] > Cardinality(wrote'[r[1]])
          BY <2>1 DEF Reserved
        <5>2. CASE r[1] = p
          <6>1. Cardinality(wrote'[p]) = k + 1
            BY <2>3, <2>4, <3>1
          <6>2. r[2] \in Nat /\ r[2] > k + 1
            BY <5>1, <5>2, <6>1, LogAssumption
          <6>3. r[2] > k /\ r[2] # k + 1
            BY <2>2, <6>2
          <6>4. QED
            BY <5>1, <5>2, <6>3 DEF Reserved
        <5>3. CASE r[1] # p
          BY <2>4, <5>1, <5>3 DEF Reserved
        <5>4. QED
          BY <5>2, <5>3
      <4>2. QED
        BY <4>1
    <3>4. /\ IsFiniteSet(Reserved \ {<<p, k + 1>>})
          /\ Cardinality(Reserved \ {<<p, k + 1>>}) = Cardinality(Reserved) - 1
      BY <3>2, ReservedFinite, FS_RemoveElement
    <3>5. /\ Cardinality(Reserved') \in Nat
          /\ Cardinality(Reserved') <= Cardinality(Reserved) - 1
      BY <3>3, <3>4, FS_Subset, FS_CardinalityType
    <3>6. Len(loghead') = Len(loghead) + 1
      BY <2>1, <2>6 DEF StoreOK
    <3>7. QED
      BY <1>0, <3>5, <3>6, ReservedFinite, LogAssumption DEF SpaceOK
  <2>7. QED
    BY <2>5, <2>6
<1>4. ASSUME NEW p \in Procs, end_op(p) \/ end_op_commit(p) PROVE SpaceOK'
  <2>1. /\ \A q \in Procs : pc'[q] = "op" => pc[q] = "op" /\ q # p
        /\ \A q \in Procs : q # p => wrote'[q] = wrote[q]
        /\ loghead' = loghead
    BY <1>0, <1>4 DEF end_op, end_op_commit, wakeup
  <2>2. Reserved' \in SUBSET Reserved
    BY <2>1 DEF Reserved
  <2>3. QED
    BY <1>0, <1>1, <2>1, <2>2
<1>5. ASSUME NEW p \in Procs, begin_op_sleep(p) \/ end_commit(p) PROVE SpaceOK'
  <2>1. /\ \A q \in Procs : pc'[q] = "op" => pc[q] = "op"
        /\ wrote' = wrote
        /\ loghead' = loghead
    BY <1>0, <1>5 DEF begin_op_sleep, end_commit, wakeup
  <2>2. Reserved' \in SUBSET Reserved
    BY <2>1 DEF Reserved
  <2>3. QED
    BY <1>0, <1>1, <2>1, <2>2
<1>6. CASE crash
  <2>1. \A q \in Procs : pc'[q] # "op"
    BY <1>6 DEF crash
  <2>2. Reserved' \in SUBSET Reserved
    BY <2>1 DEF Reserved
  <2>3. Len(loghead') = 0
    BY <1>6 DEF crash
  <2>4. QED
    BY <1>0, <1>1, <2>2, <2>3
<1>7. CASE erase_header \/ recover_from_log
  <2>1. Reserved' = Reserved
    BY <1>7 DEF erase_header, recover_from_log, Reserved
  <2>2. Len(loghead') = 0
    BY <1>7 DEF erase_header, recover_from_log
  <2>3. QED
    BY <1>0, <1>1, <2>1, <2>2
<1>8. CASE UNCHANGED <<pc, wrote, loghead>>
  BY <1>8 DEF SpaceOK, Reserved
<1>9. QED
  BY <1>2, <1>3, <1>4, <1>5, <1>6, <1>7, <1>8, NextCases
     DEF write_log, write_header, cpy_log_to_home, vars

\* While the machine is down the memory is in its initial state.
LEMMA DownStep == DownOK /\ [Next]_vars => DownOK'
<1> SUFFICES ASSUME DownOK, [Next]_vars PROVE DownOK'
  OBVIOUS
<1> USE DEF DownOK, Running
<1>1. CASE crash \/ recover_from_log
  BY <1>1 DEF crash, recover_from_log
<1>2. CASE up /\ up' = up
  BY <1>2
<1>3. CASE UNCHANGED vars
  BY <1>3 DEF vars
<1>4. QED
  BY <1>1, <1>2, <1>3, NextCases
     DEF begin_op, begin_op_sleep, log_write, end_op, end_op_commit, end_commit,
         write_log, write_header, cpy_log_to_home, erase_header

\* log_write() and end_op() do not reach their panics.
LEMMA PanicStep ==
    StoreOK /\ SpaceOK /\ CountOK /\ ExclOK /\ ~panicked /\ [Next]_vars => ~panicked'
<1> SUFFICES ASSUME StoreOK, SpaceOK, CountOK, ExclOK, ~panicked, [Next]_vars
             PROVE  ~panicked'
  OBVIOUS
<1>1. ASSUME NEW p \in Procs, end_op(p) \/ end_op_commit(p) PROVE ~panicked'
  BY <1>1 DEF end_op, end_op_commit, ExclOK
<1>2. ASSUME NEW p \in Procs, NEW b \in Blocks, NEW v \in Values, log_write(p, b, v)
      PROVE  ~panicked'
  BY <1>2, NotRefused DEF log_write
<1>3. CASE crash
  BY <1>3 DEF crash
<1>4. CASE panicked' = panicked
  BY <1>4
<1>5. QED
  BY <1>1, <1>2, <1>3, <1>4, NextCases
     DEF begin_op, begin_op_sleep, end_commit, write_log, write_header,
         cpy_log_to_home, erase_header, recover_from_log, vars

\* The inductive invariant about control and space.
Inv1 == /\ CtlOK /\ BoolOK /\ StoreOK /\ DownOK
        /\ CountOK /\ ExclOK /\ WroteOK /\ SpaceOK
        /\ ~panicked

\* The control invariant holds after the first boot.
LEMMA Inv1Init == Init => Inv1
<1> SUFFICES ASSUME Init PROVE Inv1
  OBVIOUS
<1> USE DEF Init, Booted
<1>1. CtlOK
  BY DEF CtlOK, Procstate, Phases
<1>2. BoolOK /\ DownOK
  BY DEF BoolOK, DownOK
<1>3. StoreOK
  BY LogAssumption DEF StoreOK
<1>4. Ops = {} /\ Reserved = {}
  BY DEF Ops, Reserved
<1>5. CountOK
  BY <1>4, FS_EmptySet DEF CountOK
<1>6. ExclOK
  BY DEF ExclOK
<1>7. WroteOK
  BY FS_EmptySet DEF WroteOK
<1>8. SpaceOK
  BY <1>4, FS_EmptySet, LogAssumption DEF SpaceOK
<1>9. QED
  BY <1>1, <1>2, <1>3, <1>5, <1>6, <1>7, <1>8 DEF Inv1

\* The control invariant of begin_op(), log_write(), end_op() and commit():
\* types, exclusion, reservation and no panic, together inductive.
THEOREM Inv1Holds == Spec => []Inv1
<1>1. Inv1 /\ [Next]_vars => Inv1'
  BY CtlStep, BoolStep, StoreStep, DownStep, CountStep, ExclStep, WroteStep,
     SpaceStep, PanicStep DEF Inv1
<1>2. QED
  BY <1>1, Inv1Init, PTL DEF Spec

\* The log's state keeps its types, in memory and on the disk.
THEOREM TypeCorrect == Spec => []TypeOK
<1>1. Inv1 => TypeOK
  BY TypeParts, OpsFinite DEF Inv1, CountOK
<1>2. QED
  BY <1>1, Inv1Holds, PTL

\* The reservation of begin_op() keeps log_write() and end_op() from their
\* panics, for any size of the log and any number of processes.
THEOREM PanicCorrect == Spec => []NeverPanics
<1>1. Inv1 => NeverPanics
  BY DEF Inv1, NeverPanics
<1>2. QED
  BY <1>1, Inv1Holds, PTL

\* The log never outgrows its area on the disk, although no test in the code
\* compares it with the size of the area.
THEOREM AreaCorrect == Spec => []LogFitsArea
<1>1. ASSUME Inv1 PROVE LogFitsArea
  <2>1. Len(loghead) \in Nat /\ SpaceOK
    BY <1>1 DEF Inv1, StoreOK
  <2>2. QED
    BY <2>1, ReservedFinite, LogAssumption DEF SpaceOK, LogFitsArea
<1>2. QED
  BY <1>1, Inv1Holds, PTL

\* No call is under way during a commit, one process commits at a time, and
\* num_syscalls is the number of calls under way.
THEOREM CommitAloneCorrect == Spec => []CommitAlone
<1>1. Inv1 => CommitAlone
  BY DEF Inv1, ExclOK, CountOK, Ops, CommitAlone
<1>2. QED
  BY <1>1, Inv1Holds, PTL

-----------------------------------------------------------------------------
\* The blocks. A block that is not in the header is the same in the cache and
\* on the disk; during a commit the log area holds the cached contents of the
\* blocks copied so far, and what is installed is the same at home.
CleanOK == up => \A b \in Blocks : b \notin Logged(loghead) => cache[b] = disk[b]

HdrOK == up => hdr = IF phase = "install" THEN loghead ELSE <<>>

CopiedTo(n) == \A i \in 1 .. n : disk[i] = cache[loghead[i]] /\ cache[i] = disk[i]

CopyOK ==
    /\ phase \in {"wlog", "install"} => idx <= Len(loghead)
    /\ phase = "wlog" => CopiedTo(idx)
    /\ phase = "install" =>
         /\ CopiedTo(Len(loghead))
         /\ \A i \in 1 .. idx : disk[loghead[i]] = cache[loghead[i]]
    /\ phase = "done" => loghead = <<>>

\* Addresses of the log area and of the blocks in it.
LEMMA EntryFacts ==
    ASSUME Inv1, NEW i \in 1 .. Len(loghead)
    PROVE  /\ i \in Addrs /\ i \notin Blocks
           /\ loghead[i] \in Blocks /\ loghead[i] \in Addrs
           /\ loghead[i] \in Logged(loghead)
<1>1. Len(loghead) <= NumLog - 1 /\ Len(loghead) \in Nat
  BY ReservedFinite, LogAssumption DEF Inv1, StoreOK, SpaceOK
<1>2. i \in Addrs /\ i \notin Blocks
  BY <1>1, LogAssumption DEF Addrs, Blocks
<1>3. loghead[i] \in Blocks /\ loghead[i] \in Logged(loghead)
  BY DEF Inv1, StoreOK, Logged
<1>4. QED
  BY <1>2, <1>3, AddrFacts

\* Which log block a recovery copies to the home of the entry i.
LEMMA ReplayAt ==
    ASSUME NEW h, NEW d, NEW a \in Addrs
    PROVE  /\ a \notin Logged(h) => Replay(h, d)[a] = d[a]
           /\ a \in Logged(h) => \E i \in 1 .. Len(h) : h[i] = a /\ Replay(h, d)[a] = d[i]
  BY DEF Replay, Logged

\* A recovery leaves blocks alone that the header does not name.
LEMMA ReplaySame ==
    ASSUME NEW h, NEW d, NEW e, NEW a \in Addrs,
           \A i \in 1 .. Len(h) : d[i] = e[i],
           a \notin Logged(h) => d[a] = e[a]
    PROVE  Replay(h, d)[a] = Replay(h, e)[a]
  BY DEF Replay, Logged

\* No step but those below touches the blocks or the progress of a commit.
LEMMA BlockSteps ==
    ASSUME [Next]_vars
    PROVE  \/ UNCHANGED <<loghead, hdr, cache, disk, up, phase, idx>>
           \/ write_log \/ write_header \/ cpy_log_to_home \/ erase_header
           \/ crash \/ recover_from_log
           \/ \E p \in Procs : end_op_commit(p) \/ end_commit(p)
           \/ \E p \in Procs, b \in Blocks, v \in Values : log_write(p, b, v)
  BY NextCases DEF begin_op, begin_op_sleep, end_op, vars

\* While a call is under way no commit is.
LEMMA CallPhase == ASSUME Inv1, NEW p \in Procs, pc[p] = "op" PROVE phase = "none"
  BY DEF Inv1, ExclOK

\* Blocks that are not logged are the same in the cache and on the disk.
LEMMA CleanStep == Inv1 /\ CopyOK /\ CleanOK /\ [Next]_vars => CleanOK'
<1> SUFFICES ASSUME Inv1, CopyOK, CleanOK, [Next]_vars, up',
                    NEW b \in Blocks, b \notin Logged(loghead')
             PROVE  cache'[b] = disk'[b]
  BY DEF CleanOK, Logged
<1>0. /\ cache \in [Addrs -> Values] /\ disk \in [Addrs -> Values]
      /\ loghead \in Seq(Blocks) /\ b \in Addrs
      /\ idx \in Nat
  BY AddrFacts DEF Inv1, StoreOK, CtlOK
<1>1. CASE UNCHANGED <<loghead, cache, disk, up>>
  BY <1>1 DEF CleanOK
<1>2. ASSUME NEW p \in Procs, NEW c \in Blocks, NEW v \in Values, log_write(p, c, v)
      PROVE  cache'[b] = disk'[b]
  <2>1. /\ Logged(loghead') = Logged(loghead) \cup {c}
        /\ cache' = [cache EXCEPT ![c] = v]
        /\ disk' = disk
        /\ up
    BY <1>0, <1>2, LoggedAppend, NotRefused DEF log_write, Absorbed, Inv1, Running
  <2>2. QED
    BY <1>0, <2>1 DEF CleanOK
<1>3. CASE write_log
  <2>1. idx + 1 \in 1 .. Len(loghead)
    BY <1>0, <1>3 DEF write_log
  <2>2. b # idx + 1
    BY <2>1, EntryFacts
  <2>3. QED
    BY <1>0, <1>3, <2>2 DEF write_log, CleanOK, Running
<1>4. CASE cpy_log_to_home
  BY <1>0, <1>4 DEF cpy_log_to_home, CleanOK, Running
<1>5. CASE erase_header
  <2>1. CASE b \in Logged(loghead)
    <3>1. PICK i \in 1 .. Len(loghead) : loghead[i] = b
      BY <2>1 DEF Logged
    <3>2. QED
      BY <1>5, <3>1 DEF erase_header, CopyOK
  <2>2. CASE b \notin Logged(loghead)
    BY <1>5, <2>2 DEF erase_header, CleanOK, Running
  <2>3. QED
    BY <2>1, <2>2
<1>6. CASE recover_from_log
  BY <1>6 DEF recover_from_log
<1>7. CASE crash
  BY <1>7 DEF crash
<1>8. QED
  BY <1>1, <1>2, <1>3, <1>4, <1>5, <1>6, <1>7, BlockSteps
     DEF write_header, end_op_commit, end_commit

\* The disk header is the logged set while it is being installed, empty before.
LEMMA HdrStep == Inv1 /\ CopyOK /\ HdrOK /\ [Next]_vars => HdrOK'
<1> SUFFICES ASSUME Inv1, CopyOK, HdrOK, [Next]_vars PROVE HdrOK'
  OBVIOUS
<1> USE DEF HdrOK, Running
<1>1. CASE UNCHANGED <<loghead, hdr, up, phase>>
  BY <1>1
<1>2. ASSUME NEW p \in Procs, NEW b \in Blocks, NEW v \in Values, log_write(p, b, v)
      PROVE  HdrOK'
  BY <1>2, CallPhase DEF log_write
<1>3. ASSUME NEW p \in Procs, end_op_commit(p) PROVE HdrOK'
  BY <1>3, CallPhase DEF end_op_commit
<1>4. ASSUME NEW p \in Procs, end_commit(p) PROVE HdrOK'
  BY <1>4 DEF end_commit
<1>5. CASE write_header \/ erase_header
  BY <1>5 DEF write_header, erase_header
<1>6. CASE crash \/ recover_from_log
  BY <1>6 DEF crash, recover_from_log, Inv1, DownOK
<1>7. QED
  BY <1>1, <1>2, <1>3, <1>4, <1>5, <1>6, BlockSteps DEF write_log, cpy_log_to_home

\* Log area and homes hold the copies that write_log() and
\* cpy_log_to_home() have made so far.
LEMMA CopyStep == Inv1 /\ CopyOK /\ [Next]_vars => CopyOK'
<1> SUFFICES ASSUME Inv1, CopyOK, [Next]_vars PROVE CopyOK'
  OBVIOUS
<1>0. /\ cache \in [Addrs -> Values] /\ disk \in [Addrs -> Values]
      /\ loghead \in Seq(Blocks) /\ Len(loghead) \in Nat
      /\ idx \in Nat
  BY DEF Inv1, StoreOK, CtlOK
<1>1. CASE UNCHANGED <<loghead, cache, disk, phase, idx>>
  BY <1>1 DEF CopyOK, CopiedTo
<1>2. CASE phase' = "none"
  BY <1>2 DEF CopyOK
<1>3. ASSUME NEW p \in Procs, end_op_commit(p) PROVE CopyOK'
  <2>1. idx' = 0 /\ loghead' = loghead /\ phase' = IF loghead = <<>> THEN "done" ELSE "wlog"
    BY <1>3 DEF end_op_commit
  <2>2. QED
    BY <1>0, <2>1 DEF CopyOK, CopiedTo
<1>4. CASE write_log
  <2>1. /\ phase = "wlog" /\ idx < Len(loghead)
        /\ cache' = [cache EXCEPT ![idx + 1] = cache[loghead[idx + 1]]]
        /\ disk' = [disk EXCEPT ![idx + 1] = cache[loghead[idx + 1]]]
        /\ idx' = idx + 1 /\ loghead' = loghead /\ phase' = phase
    BY <1>4 DEF write_log
  <2>2. idx + 1 \in 1 .. Len(loghead)
    BY <1>0, <2>1
  <2>3. ASSUME NEW i \in 1 .. idx + 1
        PROVE  disk'[i] = cache'[loghead[i]] /\ cache'[i] = disk'[i]
    <3>1. i \in 1 .. Len(loghead)
      BY <1>0, <2>1
    <3>2. loghead[i] # idx + 1 /\ i \in Addrs /\ idx + 1 \in Addrs
      BY <2>2, <3>1, EntryFacts
    <3>3. CASE i = idx + 1
      BY <1>0, <2>1, <3>2, <3>3
    <3>4. CASE i \in 1 .. idx
      <4>1. disk[i] = cache[loghead[i]] /\ cache[i] = disk[i] /\ i # idx + 1
        BY <1>0, <2>1, <3>4 DEF CopyOK, CopiedTo
      <4>2. QED
        BY <1>0, <2>1, <3>2, <4>1
    <3>5. QED
      BY <1>0, <3>3, <3>4
  <2>4. QED
    BY <1>0, <2>1, <2>3 DEF CopyOK, CopiedTo
<1>5. CASE write_header
  BY <1>0, <1>5 DEF write_header, CopyOK, CopiedTo
<1>6. CASE cpy_log_to_home
  <2>1. /\ phase = "install" /\ idx < Len(loghead)
        /\ cache' = [cache EXCEPT ![loghead[idx + 1]] = cache[idx + 1]]
        /\ disk' = [disk EXCEPT ![loghead[idx + 1]] = cache[idx + 1]]
        /\ idx' = idx + 1 /\ loghead' = loghead /\ phase' = phase
    BY <1>6 DEF cpy_log_to_home
  <2>2. idx + 1 \in 1 .. Len(loghead)
    BY <1>0, <2>1
  <2>3. cache[idx + 1] = cache[loghead[idx + 1]]
    BY <2>1, <2>2 DEF CopyOK, CopiedTo
  <2>4. cache' = cache
    BY <1>0, <2>1, <2>3
  <2>5. ASSUME NEW i \in 1 .. Len(loghead)
        PROVE  disk'[i] = cache'[loghead[i]] /\ cache'[i] = disk'[i]
    <3>1. disk[i] = cache[loghead[i]] /\ cache[i] = disk[i]
      BY <2>1 DEF CopyOK, CopiedTo
    <3>2. i # loghead[idx + 1] /\ i \in Addrs
      BY <2>2, EntryFacts
    <3>3. QED
      BY <1>0, <2>1, <2>4, <3>1, <3>2
  <2>6. ASSUME NEW i \in 1 .. idx + 1
        PROVE  disk'[loghead[i]] = cache'[loghead[i]]
    <3>1. i \in 1 .. Len(loghead)
      BY <1>0, <2>1
    <3>2. loghead[i] \in Addrs /\ loghead[idx + 1] \in Addrs
      BY <2>2, <3>1, EntryFacts
    <3>3. CASE loghead[i] = loghead[idx + 1]
      BY <1>0, <2>1, <3>2, <3>3
    <3>4. CASE loghead[i] # loghead[idx + 1]
      <4>1. i \in 1 .. idx
        BY <1>0, <3>4
      <4>2. QED
        BY <1>0, <2>1, <2>4, <3>2, <3>4, <4>1 DEF CopyOK
    <3>5. QED
      BY <3>3, <3>4
  <2>7. QED
    BY <1>0, <2>1, <2>2, <2>5, <2>6 DEF CopyOK, CopiedTo
<1>7. CASE erase_header
  BY <1>7 DEF erase_header, CopyOK
<1>8. ASSUME NEW p \in Procs, NEW b \in Blocks, NEW v \in Values, log_write(p, b, v)
      PROVE  phase' = "none"
  BY <1>8, CallPhase DEF log_write
<1>9. ASSUME recover_from_log PROVE phase' = "none"
  BY <1>9 DEF recover_from_log, Inv1, DownOK
<1>10. QED
  BY <1>1, <1>2, <1>3, <1>4, <1>5, <1>6, <1>7, <1>8, <1>9, BlockSteps
     DEF crash, end_commit

Inv2 == Inv1 /\ CopyOK /\ CleanOK /\ HdrOK

\* The data invariant of commit(): at each of its block writes the cache,
\* the log area, the disk header and the homes agree as far as it has got.
THEOREM Inv2Holds == Spec => []Inv2
<1>1. Init => CopyOK /\ CleanOK /\ HdrOK
  BY DEF Init, Booted, CopyOK, CleanOK, HdrOK
<1>2. Inv2 /\ Inv1' /\ [Next]_vars => Inv2'
  BY CopyStep, CleanStep, HdrStep DEF Inv2
<1>3. QED
  BY <1>1, <1>2, Inv1Init, Inv1Holds, PTL DEF Spec, Inv2

-----------------------------------------------------------------------------
\* What a recovery would give, in terms of the cache: the contents of the
\* cache from the header's write to its erasure, the home blocks otherwise.
LEMMA DurableInstall ==
    ASSUME NEW a \in Blocks, NEW h \in Seq(Blocks), NEW d, NEW m,
           \A i \in 1 .. Len(h) : d[i] = m[h[i]],
           a \notin Logged(h) => m[a] = d[a]
    PROVE  Replay(h, d)[a] = m[a]
<1>1. a \in Addrs
  BY AddrFacts
<1>2. CASE a \in Logged(h)
  <2>1. PICK i \in 1 .. Len(h) : h[i] = a /\ Replay(h, d)[a] = d[i]
    BY <1>1, <1>2, ReplayAt
  <2>2. QED
    BY <2>1
<1>3. CASE a \notin Logged(h)
  BY <1>1, <1>3, ReplayAt
<1>4. QED
  BY <1>2, <1>3

\* An empty header names no block.
LEMMA LoggedEmpty == Logged(<<>>) = {}
  BY DEF Logged

\* Every step of a running system keeps what a recovery would give, or makes
\* it the cached contents of all blocks.
LEMMA AtomicStep ==
    ASSUME Inv2, Inv2', [Next]_vars, up
    PROVE  \/ \A a \in Blocks : Replay(hdr, disk)'[a] = Replay(hdr, disk)[a]
           \/ \A a \in Blocks : Replay(hdr, disk)'[a] = cache[a]
<1>0. /\ cache \in [Addrs -> Values] /\ disk \in [Addrs -> Values]
      /\ loghead \in Seq(Blocks) /\ Len(loghead) \in Nat
      /\ idx \in Nat
  BY DEF Inv2, Inv1, StoreOK, CtlOK
<1>1. CASE UNCHANGED <<hdr, disk>>
  BY <1>1
<1>2. CASE write_log
  <2>1. /\ disk' = [disk EXCEPT ![idx + 1] = cache[loghead[idx + 1]]]
        /\ hdr' = hdr
        /\ phase = "wlog" /\ idx < Len(loghead)
    BY <1>2 DEF write_log
  <2>2. hdr = <<>>
    BY <2>1 DEF Inv2, HdrOK
  <2>3. idx + 1 \notin Blocks
    BY <1>0, <2>1, EntryFacts DEF Inv2
  <2>4. \A a \in Blocks : disk'[a] = disk[a]
    BY <1>0, <2>1, <2>3, AddrFacts
  <2>5. ASSUME NEW a \in Blocks PROVE Replay(hdr, disk')[a] = Replay(hdr, disk)[a]
    <3>1. a \in Addrs /\ a \notin Logged(hdr)
      BY <2>2, AddrFacts, LoggedEmpty
    <3>2. Replay(hdr, disk')[a] = disk'[a] /\ Replay(hdr, disk)[a] = disk[a]
      BY <3>1, ReplayAt
    <3>3. QED
      BY <2>4, <3>2
  <2>6. QED
    BY <2>1, <2>5
<1>3. CASE write_header
  <2>1. /\ hdr' = loghead /\ disk' = disk
        /\ phase = "wlog" /\ idx = Len(loghead)
    BY <1>3 DEF write_header
  <2>2. \A i \in 1 .. Len(loghead) : disk[i] = cache[loghead[i]]
    BY <2>1 DEF Inv2, CopyOK, CopiedTo
  <2>3. \A a \in Blocks : a \notin Logged(loghead) => cache[a] = disk[a]
    BY DEF Inv2, CleanOK
  <2>4. QED
    BY <1>0, <2>1, <2>2, <2>3, DurableInstall
<1>4. CASE cpy_log_to_home
  <2>1. /\ disk' = [disk EXCEPT ![loghead[idx + 1]] = cache[idx + 1]]
        /\ hdr' = hdr
        /\ phase = "install" /\ idx < Len(loghead)
    BY <1>4 DEF cpy_log_to_home
  <2>2. hdr = loghead
    BY <2>1 DEF Inv2, HdrOK
  <2>3. idx + 1 \in 1 .. Len(loghead)
    BY <1>0, <2>1
  <2>4. loghead[idx + 1] \in Blocks /\ loghead[idx + 1] \in Logged(loghead)
    BY <2>3, EntryFacts DEF Inv2
  <2>5. \A i \in 1 .. Len(loghead) : disk'[i] = disk[i]
    BY <1>0, <2>1, <2>4, EntryFacts DEF Inv2
  <2>6. \A a \in Blocks : a \notin Logged(loghead) => disk'[a] = disk[a]
    BY <1>0, <2>1, <2>4, AddrFacts
  <2>7. ASSUME NEW a \in Blocks PROVE Replay(hdr, disk')[a] = Replay(hdr, disk)[a]
    <3>1. a \in Addrs
      BY AddrFacts
    <3>2. QED
      BY <2>2, <2>5, <2>6, <3>1, ReplaySame
  <2>8. QED
    BY <2>1, <2>7
<1>5. CASE erase_header
  <2>1. /\ hdr' = <<>> /\ disk' = disk
        /\ phase = "install" /\ idx = Len(loghead)
    BY <1>5 DEF erase_header
  <2>2. ASSUME NEW a \in Blocks PROVE disk[a] = cache[a]
    <3>1. CASE a \in Logged(loghead)
      <4>1. PICK i \in 1 .. Len(loghead) : loghead[i] = a
        BY <3>1 DEF Logged
      <4>2. QED
        BY <2>1, <4>1 DEF Inv2, CopyOK
    <3>2. CASE a \notin Logged(loghead)
      BY <3>2 DEF Inv2, CleanOK
    <3>3. QED
      BY <3>1, <3>2
  <2>3. QED
    BY <2>1, <2>2, AddrFacts, LoggedEmpty, ReplayAt
<1>6. QED
  BY <1>1, <1>2, <1>3, <1>4, <1>5, BlockSteps
     DEF crash, recover_from_log, end_op_commit, end_commit, log_write

\* A transaction is all or nothing for a recovery that replays the header: of
\* all the steps of a running system only the header's write changes what such
\* a recovery gives, and it changes all blocks at once.
THEOREM AtomicCorrect == Spec => CommitAtomic
<1>1. ASSUME Inv2, Inv2', [Next]_vars PROVE up /\ Durable' # Durable => Durable' = View
  <2> SUFFICES ASSUME up PROVE Durable' = Durable \/ Durable' = View
    OBVIOUS
  <2>1. CASE \A a \in Blocks : Replay(hdr, disk)'[a] = Replay(hdr, disk)[a]
    BY <2>1 DEF Durable
  <2>2. CASE \A a \in Blocks : Replay(hdr, disk)'[a] = cache[a]
    BY <2>2 DEF Durable, View
  <2>3. QED
    BY <1>1, <2>1, <2>2, AtomicStep
<1>2. QED
  BY <1>1, Inv2Holds, PTL DEF Spec, CommitAtomic

\* Whatever differs from what a recovery would give is in the header, so the
\* next commit writes it.
THEOREM DirtyCorrect == Spec => []DirtyIsLogged
<1>1. ASSUME Inv2, up, NEW a \in Blocks, a \notin Logged(loghead)
      PROVE  cache[a] = Durable[a]
  <2>1. cache[a] = disk[a] /\ a \in Addrs
    BY <1>1, AddrFacts DEF Inv2, CleanOK
  <2>2. a \notin Logged(hdr)
    BY <1>1, LoggedEmpty DEF Inv2, HdrOK
  <2>3. QED
    BY <2>1, <2>2, ReplayAt DEF Durable
<1>2. Inv2 => DirtyIsLogged
  BY <1>1 DEF DirtyIsLogged
<1>3. QED
  BY <1>2, Inv2Holds, PTL

=============================================================================
