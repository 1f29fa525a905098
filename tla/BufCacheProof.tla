--------------------------- MODULE BufCacheProof ---------------------------
(***************************************************************************)
(* Proofs about module BufCache, for every number of processes, buffers    *)
(* and blocks: the reference counts are exact, and a buffer that a process *)
(* has locked holds what was last written to its block.                    *)
(*                                                                         *)
(* Both need to know that no block is in two buffers, that the owner of a  *)
(* sleeplock is the one process that has the buffer or is about to read    *)
(* it, and where the last write to a block is.                             *)
(***************************************************************************)
EXTENDS BufCache, FiniteSetTheorems, WellFoundedInduction, TLAPS

-----------------------------------------------------------------------------
\* No block is in two buffers, and a process is never in a buffer twice.
Shape ==
    /\ \A a, b \in Bufs : blockno[a] = blockno[b] /\ blockno[a] # None => a = b
    /\ \A p \in Procs : /\ cur[p] = None <=> pc[p] = "idle"
                        /\ cur[p] \notin held[p]

\* A buffer that counts has a block, and a sleeplock has one owner.
Owners ==
    /\ \A b \in Bufs : refcount[b] > 0 => blockno[b] # None
    /\ \A p \in Procs, b \in Bufs :
         owner[b] = p <=> b \in held[p] \/ (pc[p] = "read" /\ cur[p] = b)

\* Where the last write to a block is: on the disk, or in the buffer of a
\* block that the log has pinned.
Contents ==
    /\ \A b \in Bufs : valid[b] /\ blockno[b] # None => data[b] = latest[blockno[b]]
    /\ \A p \in Procs : \A b \in held[p] : valid[b]
    /\ \A n \in Blocks \ pinned : disk[n] = latest[n]
    /\ \A n \in pinned : \E b \in Bufs : blockno[b] = n /\ valid[b]

\* The inductive invariant.
Inv == TypeOK /\ CountsUsers /\ Shape /\ Owners /\ Contents
-----------------------------------------------------------------------------
\* What the constants are.
LEMMA Constants ==
    /\ Bufs \subseteq Nat /\ Blocks \subseteq Nat /\ 1 \in Bufs
    /\ None \notin Bufs /\ None \notin Blocks /\ None \notin Procs
<1>1. NUMBUF \in Nat \ {0} /\ Blocks \subseteq Nat /\ None \notin Nat /\ None \notin Procs
  BY BufCacheAssumption, Zenon
<1>2. Bufs \subseteq Nat /\ 1 \in Bufs
  BY <1>1 DEF Bufs
<1> QED BY <1>1, <1>2, Zenon

\* The search of buffer_get() for an unused buffer runs over the list from its
\* end: if there is one, it finds one.
LEMMA MaxIn ==
    ASSUME NEW S, S \subseteq Bufs, S # {}
    PROVE  Max(S) \in S
<1> DEFINE R == OpToRel(<, Nat)
           T == {NUMBUF - i : i \in S}
<1>0. NUMBUF \in Nat /\ \A i \in S : i \in Int /\ 1 <= i /\ i <= NUMBUF
  BY BufCacheAssumption DEF Bufs
<1>1. IsWellFoundedOn(R, Nat)
  BY NatLessThanWellFounded, Zenon
<1>2. T \subseteq Nat /\ T # {}
  BY <1>0
<1>3. PICK x \in T : \A y \in T : ~(<<y, x>> \in R)
  <2> HIDE DEF R, T
  <2> QED BY <1>1, <1>2, WFMin, Zenon
<1>4. \A y \in T : x <= y
  <2> TAKE y \in T
  <2>1. x \in Nat /\ y \in Nat
    BY <1>2, Zenon
  <2>2. ~(y < x)
    BY <1>3, <2>1, Zenon DEF OpToRel
  <2> QED BY <2>1, <2>2
<1>5. PICK i \in S : x = NUMBUF - i
  BY Zenon
<1>6. ASSUME NEW j \in S
      PROVE  i >= j
  <2>1. NUMBUF - i <= NUMBUF - j
    BY <1>4, <1>5, Zenon
  <2> QED BY <1>0, <2>1
<1> QED BY <1>6, Zenon DEF Max

\* The users of a buffer can be counted.
LEMMA UsersFinite ==
    ASSUME NEW b
    PROVE  /\ IsFiniteSet(Users(b)) /\ Cardinality(Users(b)) \in Nat
           /\ Cardinality(Users(b)) = 0 <=> Users(b) = {}
<1>1. IsFiniteSet(Procs) /\ Users(b) \subseteq Procs
  BY BufCacheAssumption, Zenon DEF Users
<1>2. IsFiniteSet(Users(b))
  BY <1>1, FS_Subset, Zenon
<1> QED BY <1>2, FS_CardinalityType, FS_EmptySet, Zenon

\* A buffer that somebody uses is counted, and has a block.
LEMMA Used ==
    ASSUME Inv, NEW b \in Bufs, Users(b) # {}
    PROVE  refcount[b] \in Nat \ {0} /\ blockno[b] \in Blocks
<1>1. Cardinality(Users(b)) > 0
  BY UsersFinite
<1>2. refcount[b] = Cardinality(Users(b)) + (IF blockno[b] \in pinned THEN 1 ELSE 0)
  BY Zenon DEF Inv, CountsUsers
<1>3. refcount[b] > 0 /\ refcount[b] \in Nat
  BY <1>1, <1>2, UsersFinite
<1> QED BY <1>3 DEF Inv, Owners, TypeOK

\* A buffer with count zero is nobody's, and its block is not in the log.
LEMMA Unused ==
    ASSUME Inv, NEW b \in Bufs, refcount[b] = 0
    PROVE  Users(b) = {} /\ blockno[b] \notin pinned
<1>1. refcount[b] = Cardinality(Users(b)) + (IF blockno[b] \in pinned THEN 1 ELSE 0)
  BY Zenon DEF Inv, CountsUsers
<1>2. Cardinality(Users(b)) = 0 /\ blockno[b] \notin pinned
  BY <1>1, UsersFinite
<1> QED BY <1>2, UsersFinite, Zenon

\* Putting a buffer at the front keeps every buffer in the list once.
LEMMA ToFrontType ==
    ASSUME TypeOK, NEW b \in Bufs
    PROVE  ToFront(b) \in [Bufs -> Bufs] /\ \A c \in Bufs : \E i \in Bufs : ToFront(b)[i] = c
<1> DEFINE place == CHOOSE i \in DOMAIN lru : lru[i] = b
<1>1. lru \in [Bufs -> Bufs] /\ DOMAIN lru = Bufs
  BY Zenon DEF TypeOK
<1>2. place \in Bufs /\ lru[place] = b
  BY <1>1, Zenon DEF TypeOK
<1>3. ToFront(b) = [i \in Bufs |-> IF i = 1 THEN b
                                   ELSE IF i <= place THEN lru[i - 1] ELSE lru[i]]
  BY <1>1, Zenon DEF ToFront
<1> HIDE DEF place
<1>4. NUMBUF \in Nat /\ \A i \in Bufs : i \in Nat /\ (i # 1 => i - 1 \in Bufs)
  BY BufCacheAssumption DEF Bufs
<1>5. ToFront(b) \in [Bufs -> Bufs]
  BY <1>1, <1>3, <1>4
<1>6. ASSUME NEW c \in Bufs
      PROVE  \E i \in Bufs : ToFront(b)[i] = c
  <2>1. PICK j \in Bufs : lru[j] = c
    BY Zenon DEF TypeOK
  <2>2. CASE c = b
    BY <2>2, <1>3, Constants, Zenon
  <2>3. CASE c # b /\ j < place
    <3>1. j + 1 \in Bufs /\ j + 1 # 1 /\ j + 1 <= place /\ (j + 1) - 1 = j
      BY <2>3, <1>2, BufCacheAssumption DEF Bufs
    <3> QED BY <3>1, <1>3, <2>1, Zenon
  <2>4. CASE c # b /\ ~(j < place) /\ j # 1
    <3>1. j # place
      BY <2>1, <2>4, <1>2, Zenon
    <3>2. j \in Nat /\ place \in Nat
      BY <1>2, <1>4, Zenon
    <3>3. ~(j <= place)
      BY <3>1, <3>2, <2>4
    <3> QED BY <3>3, <2>4, <1>3, <2>1, Zenon
  <2>5. CASE c # b /\ ~(j < place) /\ j = 1
    <3>1. place \in Nat /\ place >= 1 /\ place # 1
      BY <2>1, <2>5, <1>2, <1>4 DEF Bufs
    <3> QED BY <3>1, <2>5
  <2> QED BY <2>2, <2>3, <2>4, <2>5, Zenon
<1> QED BY <1>5, <1>6, Zenon
-----------------------------------------------------------------------------
\* A process that gets a buffer it does not use yet is one user more.
LEMMA OneMore ==
    ASSUME TypeOK, NEW p \in Procs, NEW b \in Bufs, p \notin Users(b),
           cur[p] = None, cur' = [cur EXCEPT ![p] = b], UNCHANGED held
    PROVE  /\ Users(b)' = Users(b) \cup {p}
           /\ Cardinality(Users(b)') = Cardinality(Users(b)) + 1
           /\ \A c \in Bufs \ {b} : Users(c)' = Users(c)
<1>1. Users(b)' = Users(b) \cup {p}
  BY DEF Users, TypeOK
<1>2. \A c \in Bufs \ {b} : Users(c)' = Users(c)
  BY Constants, Zenon DEF Users, TypeOK
<1>3. Cardinality(Users(b) \cup {p}) = Cardinality(Users(b)) + 1
  BY UsersFinite, FS_AddElement, Zenon
<1> QED BY <1>1, <1>2, <1>3, Zenon

\* A cached buffer is not one the process has: those have lower numbers.
LEMMA buffer_getInv ==
    ASSUME Inv, NEW p \in Procs, NEW n \in Blocks, buffer_get(p, n)
    PROVE  Inv'
<1>1. PICK b \in Cached(n) : refcount' = [refcount EXCEPT ![b] = @ + 1] /\ Getting(p, b)
  BY Zenon DEF buffer_get
<1>2. b \in Bufs /\ blockno[b] = n /\ n # None
  BY Constants, Zenon DEF Cached
<1>3. pc[p] = "idle" /\ cur[p] = None /\ \A c \in held[p] : blockno[c] < n
  BY Zenon DEF buffer_get, MayGet, Inv, Shape
<1>4. b \notin held[p]
  BY <1>2, <1>3, Constants
<1>5. p \notin Users(b)
  BY <1>2, <1>3, <1>4, Constants, Zenon DEF Users
<1>6. /\ cur' = [cur EXCEPT ![p] = b] /\ pc' = [pc EXCEPT ![p] = "lock"]
      /\ UNCHANGED <<lru, blockno, valid, data, disk, latest, owner, held, pinned, panicked>>
  BY <1>1, Zenon DEF buffer_get, Getting, store
<1>t. TypeOK
  BY Zenon DEF Inv
<1>7. TypeOK'
  BY <1>t, <1>1, <1>2, <1>6 DEF TypeOK, Points
<1>8. CountsUsers'
  <2>1. /\ Cardinality(Users(b)') = Cardinality(Users(b)) + 1
        /\ \A c \in Bufs \ {b} : Users(c)' = Users(c)
    BY <1>t, <1>2, <1>3, <1>5, <1>6, OneMore, Zenon
  <2>2. \A c \in Bufs : refcount[c] \in Nat
    BY <1>t, Zenon DEF TypeOK
  <2>3. \A c \in Bufs : refcount[c] = Cardinality(Users(c)) + (IF blockno[c] \in pinned THEN 1 ELSE 0)
    BY Zenon DEF Inv, CountsUsers
  <2>4. DOMAIN refcount = Bufs
    BY <1>t, Zenon DEF TypeOK
  <2>5. ASSUME NEW c \in Bufs
        PROVE  refcount'[c] = Cardinality(Users(c)') + (IF blockno[c] \in pinned THEN 1 ELSE 0)
    BY <2>1, <2>2, <2>3, <2>4, <1>1, <1>2, UsersFinite
  <2> QED BY <2>5, <1>6, Zenon DEF CountsUsers
<1>9. Shape'
  BY <1>t, <1>2, <1>4, <1>6, Constants, Zenon DEF Inv, Shape, TypeOK
<1>10. Owners'
  <2>1. \A c \in Bufs : refcount'[c] > 0 => refcount[c] > 0 \/ c = b
    BY <1>t, <1>1, <1>2, Zenon DEF TypeOK
  <2> QED BY <1>t, <2>1, <1>2, <1>3, <1>6 DEF Inv, Owners, TypeOK
<1>11. Contents'
  BY <1>6, Zenon DEF Inv, Contents
<1> QED BY <1>7, <1>8, <1>9, <1>10, <1>11, Zenon DEF Inv

\* The recycled buffer is unused and unpinned, and the new block is in no buffer,
\* hence not pinned either.
LEMMA buffer_recycleInv ==
    ASSUME Inv, NEW p \in Procs, NEW n \in Blocks, buffer_recycle(p, n)
    PROVE  Inv'
<1>t. TypeOK
  BY Zenon DEF Inv
<1>1. CASE Recyclable = {}
  <2>1. /\ UNCHANGED <<lru, blockno, refcount, valid, data, disk, latest, owner, held, pinned, cur, pc>>
        /\ panicked' \in BOOLEAN
    BY <1>1, Zenon DEF buffer_recycle
  <2>2. TypeOK'
    BY <1>t, <2>1, Zenon DEF TypeOK
  <2>3. CountsUsers' /\ Shape'
    BY <2>1, Zenon DEF Inv, CountsUsers, Users, Shape
  <2>4. Owners' /\ Contents'
    BY <2>1 DEF Inv, Owners, Contents
  <2> QED BY <2>2, <2>3, <2>4, Zenon DEF Inv
<1>2. CASE Recyclable # {}
  <2>1. Recyclable \subseteq Bufs
    BY <1>t, Zenon DEF Recyclable, TypeOK
  <2>2. Max(Recyclable) \in Recyclable
    BY <1>2, <2>1, MaxIn, Zenon
  <2>3. PICK b \in Bufs : b = lru[Max(Recyclable)] /\ refcount[b] = 0
    BY <1>t, <2>1, <2>2, Zenon DEF Recyclable, TypeOK
  <2>4. /\ blockno' = [blockno EXCEPT ![b] = n] /\ refcount' = [refcount EXCEPT ![b] = 1]
        /\ valid' = [valid EXCEPT ![b] = FALSE]
        /\ cur' = [cur EXCEPT ![p] = b] /\ pc' = [pc EXCEPT ![p] = "lock"]
        /\ UNCHANGED <<lru, data, disk, latest, owner, held, pinned>>
        /\ panicked' \in BOOLEAN
    BY <1>2, <2>3, Zenon DEF buffer_recycle, Getting
  <2>5. Users(b) = {} /\ blockno[b] \notin pinned
    BY <2>3, Unused, Zenon
  <2>6. /\ pc[p] = "idle" /\ cur[p] = None /\ n # None
        /\ \A c \in Bufs : blockno[c] # n
    BY Constants, Zenon DEF buffer_recycle, MayGet, Cached, Inv, Shape
  <2>7. n \notin pinned
    BY <2>6, Zenon DEF Inv, Contents
  <2>8. \A q \in Procs : b \notin held[q] /\ cur[q] # b
    BY <2>5, Zenon DEF Users
  <2>9. TypeOK'
    BY <1>t, <2>4, Zenon DEF TypeOK, Points
  <2>10. CountsUsers'
    <3>0. p \notin Users(b) /\ UNCHANGED held
      BY <2>4, <2>5, Zenon
    <3>1. /\ Cardinality(Users(b)') = Cardinality(Users(b)) + 1
          /\ \A c \in Bufs \ {b} : Users(c)' = Users(c)
      BY <1>t, <2>4, <2>6, <3>0, OneMore, Zenon
    <3>2. Cardinality(Users(b)') = 1
      BY <3>1, <2>5, FS_EmptySet
    <3>3. ASSUME NEW c \in Bufs
          PROVE  refcount'[c] = Cardinality(Users(c)') + (IF blockno'[c] \in pinned THEN 1 ELSE 0)
      <4>1. CASE c = b
        <5>1. refcount'[b] = 1 /\ blockno'[b] = n
          BY <1>t, <2>4, Zenon DEF TypeOK
        <5> QED BY <4>1, <5>1, <3>2, <2>7
      <4>2. CASE c # b
        BY <4>2, <1>t, <3>1, <2>4, Zenon DEF TypeOK, Inv, CountsUsers
      <4> QED BY <4>1, <4>2, Zenon
    <3> QED BY <3>3, <2>4, Zenon DEF CountsUsers
  <2>11. Shape'
    BY <1>t, <2>4, <2>6, <2>8, Constants, Zenon DEF Inv, Shape, TypeOK
  <2>12. Owners'
    BY <1>t, <2>4, <2>6, <2>8, SMTT(20) DEF Inv, Owners, TypeOK
  <2>13. Contents'
    <3>1. \A m \in pinned : \E c \in Bufs : c # b /\ blockno[c] = m /\ valid[c]
      BY <2>5 DEF Inv, Contents
    <3>2. \A c \in Bufs \ {b} : blockno'[c] = blockno[c] /\ valid'[c] = valid[c]
      BY <1>t, <2>4, Zenon DEF TypeOK
    <3>3. ~valid'[b]
      BY <1>t, <2>4, Zenon DEF TypeOK
    <3> QED BY <1>t, <2>4, <2>8, <3>1, <3>2, <3>3 DEF Inv, Contents, TypeOK
  <2> QED BY <2>9, <2>10, <2>11, <2>12, <2>13, Zenon DEF Inv
<1> QED BY <1>1, <1>2, Zenon
-----------------------------------------------------------------------------
\* The sleeplock was free, hence nobody had the buffer.
LEMMA acquire_sleeplockInv ==
    ASSUME Inv, NEW p \in Procs, acquire_sleeplock(p)
    PROVE  Inv'
<1>t. TypeOK
  BY Zenon DEF Inv
<1> DEFINE b == cur[p]
<1>1. pc[p] = "lock" /\ owner[b] = None
  BY Zenon DEF acquire_sleeplock
<1>2. b \in Bufs
  BY <1>t, <1>1 DEF TypeOK, Inv, Shape
<1>3. /\ owner' = [owner EXCEPT ![b] = p] /\ pc' = [pc EXCEPT ![p] = "read"]
      /\ UNCHANGED <<lru, blockno, refcount, valid, data, disk, latest, cur, held, pinned, panicked>>
  BY Zenon DEF acquire_sleeplock, list, store
<1>4. TypeOK'
  BY <1>t, <1>2, <1>3, Zenon DEF TypeOK, Points
<1>5. CountsUsers' /\ Shape'
  BY <1>t, <1>1, <1>3 DEF Inv, CountsUsers, Users, Shape, TypeOK
<1>6. Owners'
  <2>1. ASSUME NEW q \in Procs, NEW c \in Bufs
        PROVE  owner'[c] = q <=> c \in held[q] \/ (pc'[q] = "read" /\ cur[q] = c)
    <3>0. owner[c] = q <=> c \in held[q] \/ (pc[q] = "read" /\ cur[q] = c)
      BY Zenon DEF Inv, Owners
    <3>1. CASE c = b
      BY <3>0, <3>1, <1>t, <1>1, <1>2, <1>3, Constants, Zenon DEF TypeOK
    <3>2. CASE c # b
      BY <3>0, <3>2, <1>t, <1>1, <1>2, <1>3, Zenon DEF TypeOK
    <3> QED BY <3>1, <3>2, Zenon
  <2> QED BY <2>1, <1>3 DEF Inv, Owners
<1>7. Contents'
  BY <1>3, Zenon DEF Inv, Contents
<1> QED BY <1>4, <1>5, <1>6, <1>7, Zenon DEF Inv

\* A process that sleeps stays a user.
LEMMA acquire_sleepInv ==
    ASSUME Inv, NEW p \in Procs, acquire_sleep(p)
    PROVE  Inv'
<1>t. TypeOK
  BY Zenon DEF Inv
<1>1. /\ pc[p] = "lock" /\ pc' = [pc EXCEPT ![p] = "asleep"]
      /\ UNCHANGED <<lru, blockno, refcount, valid, data, disk, latest, owner, cur, held, pinned, panicked>>
  BY Zenon DEF acquire_sleep, list, store
<1>2. TypeOK'
  BY <1>t, <1>1, Zenon DEF TypeOK, Points
<1>3. CountsUsers' /\ Shape'
  BY <1>t, <1>1 DEF Inv, CountsUsers, Users, Shape, TypeOK
<1>4. Owners' /\ Contents'
  BY <1>t, <1>1 DEF Inv, Owners, Contents, TypeOK
<1> QED BY <1>2, <1>3, <1>4, Zenon DEF Inv

\* A buffer that is not valid has a block that is not pinned: the disk has the
\* last write.
LEMMA buffer_readInv ==
    ASSUME Inv, NEW p \in Procs, buffer_read(p)
    PROVE  Inv'
<1>t. TypeOK
  BY Zenon DEF Inv
<1> DEFINE b == cur[p]
<1>1. pc[p] = "read"
  BY Zenon DEF buffer_read
<1>2. b \in Bufs /\ b \notin held[p]
  BY <1>t, <1>1, Zenon DEF TypeOK, Inv, Shape
<1>3. /\ data' = [data EXCEPT ![b] = IF valid[b] THEN @ ELSE disk[blockno[b]]]
      /\ valid' = [valid EXCEPT ![b] = TRUE]
      /\ held' = [held EXCEPT ![p] = @ \cup {b}]
      /\ pc' = [pc EXCEPT ![p] = "idle"] /\ cur' = [cur EXCEPT ![p] = None]
      /\ UNCHANGED <<lru, blockno, refcount, owner, disk, latest, pinned, panicked>>
  BY Zenon DEF buffer_read, list
<1>4. b \in Bufs /\ Users(b) # {}
  BY <1>2, Zenon DEF Users
<1>5. blockno[b] \in Blocks
  BY <1>4, Used, Zenon
<1> HIDE DEF b
<1>6. TypeOK'
  BY <1>t, <1>2, <1>3, <1>5, Zenon DEF TypeOK, Points
<1>7. CountsUsers'
  <2>1. \A c \in Bufs : Users(c)' = Users(c)
    BY <1>t, <1>2, <1>3, Constants DEF TypeOK, Users, b
  <2> QED BY <2>1, <1>3, Zenon DEF Inv, CountsUsers
<1>8. Shape'
  BY <1>t, <1>2, <1>3, Constants, Zenon DEF TypeOK, Inv, Shape
<1>9. Owners'
  <2>1. ASSUME NEW q \in Procs, NEW c \in Bufs
        PROVE  owner[c] = q <=> c \in held'[q] \/ (pc'[q] = "read" /\ cur'[q] = c)
    <3>0. owner[c] = q <=> c \in held[q] \/ (pc[q] = "read" /\ cur[q] = c)
      BY Zenon DEF Inv, Owners
    <3>1. CASE q = p
      BY <3>0, <3>1, <1>t, <1>1, <1>2, <1>3, Zenon DEF TypeOK, b
    <3>2. CASE q # p
      BY <3>0, <3>2, <1>t, <1>1, <1>2, <1>3, Zenon DEF TypeOK
    <3> QED BY <3>1, <3>2, Zenon
  <2> QED BY <2>1, <1>3 DEF Inv, Owners
<1>10. Contents'
  <2>1. \A c \in Bufs \ {b} : valid'[c] = valid[c] /\ data'[c] = data[c]
    BY <1>t, <1>2, <1>3, Zenon DEF TypeOK
  <2>2. valid'[b] /\ data'[b] = IF valid[b] THEN data[b] ELSE disk[blockno[b]]
    BY <1>t, <1>2, <1>3, Zenon DEF TypeOK
  <2>3. data'[b] = latest[blockno[b]]
    <3>1. CASE valid[b]
      BY <3>1, <2>2, <1>2, <1>5, Constants, Zenon DEF Inv, Contents
    <3>2. CASE ~valid[b]
      <4>1. blockno[b] \notin pinned
        BY <3>2, <1>2, <1>5, Constants, Zenon DEF Inv, Contents, Shape
      <4> QED BY <4>1, <3>2, <2>2, <1>5, Zenon DEF Inv, Contents
    <3> QED BY <3>1, <3>2, Zenon
  <2>4. \A q \in Procs : \A c \in held'[q] : c \in held[q] \/ c = b
    BY <1>t, <1>3, Zenon DEF TypeOK
  <2> QED BY <1>t, <1>3, <2>1, <2>2, <2>3, <2>4 DEF Inv, Contents, TypeOK
<1> QED BY <1>6, <1>7, <1>8, <1>9, <1>10, Zenon DEF Inv
-----------------------------------------------------------------------------
\* A buffer that a process has locked: it is valid, and holds what was last
\* written to its block.
LEMMA InUse ==
    ASSUME Inv, NEW p \in Procs, NEW b \in Bufs, Using(p, b)
    PROVE  /\ b \in held[p] /\ pc[p] = "idle" /\ cur[p] = None
           /\ owner[b] = p /\ valid[b] /\ refcount[b] \in Nat \ {0}
           /\ blockno[b] \in Blocks /\ data[b] = latest[blockno[b]]
           /\ \A c \in Bufs \ {b} : blockno[c] # blockno[b]
<1>1. b \in held[p] /\ pc[p] = "idle" /\ cur[p] = None
  BY Zenon DEF Using, Inv, Shape
<1>2. Users(b) # {}
  BY <1>1, Zenon DEF Users
<1>3. refcount[b] \in Nat \ {0} /\ blockno[b] \in Blocks
  BY <1>2, Used, Zenon
<1>4. owner[b] = p /\ valid[b] /\ data[b] = latest[blockno[b]]
  BY <1>1, <1>3, Constants DEF Inv, Owners, Contents
<1>5. \A c \in Bufs \ {b} : blockno[c] # blockno[b]
  BY <1>3, Constants, Zenon DEF Inv, Shape
<1> QED BY <1>1, <1>3, <1>4, <1>5, Zenon

\* What log_write() and buffer_write() have in common: the block and the
\* buffer change together.
LEMMA Changed ==
    ASSUME Inv, NEW p \in Procs, NEW b \in Bufs, NEW v \in Values, Using(p, b), Change(b, v),
           UNCHANGED <<blockno, valid, held>>
    PROVE  /\ data' \in [Bufs -> Values] /\ latest' \in [Blocks -> Values]
           /\ latest'[blockno[b]] = v
           /\ \A m \in Blocks \ {blockno[b]} : latest'[m] = latest[m]
           /\ \A c \in Bufs : valid'[c] /\ blockno'[c] # None => data'[c] = latest'[blockno'[c]]
           /\ \A q \in Procs : \A c \in held'[q] : valid'[c]
<1>t. TypeOK
  BY Zenon DEF Inv
<1>1. blockno[b] \in Blocks /\ \A c \in Bufs \ {b} : blockno[c] # blockno[b]
  BY InUse, Zenon
<1>2. /\ data' \in [Bufs -> Values] /\ latest' \in [Blocks -> Values]
      /\ data'[b] = v /\ latest'[blockno[b]] = v
      /\ \A c \in Bufs \ {b} : data'[c] = data[c]
      /\ \A m \in Blocks \ {blockno[b]} : latest'[m] = latest[m]
  BY <1>t, <1>1, Zenon DEF Change, TypeOK
<1>3. ASSUME NEW c \in Bufs, valid[c], blockno[c] # None
      PROVE  data'[c] = latest'[blockno[c]]
  <2>1. CASE c = b
    BY <2>1, <1>2, Zenon
  <2>2. CASE c # b
    <3>1. data[c] = latest[blockno[c]]
      BY <1>3, Zenon DEF Inv, Contents
    <3>2. blockno[c] \in Blocks \ {blockno[b]}
      BY <1>t, <1>1, <1>3, <2>2, Zenon DEF TypeOK
    <3> QED BY <3>1, <3>2, <2>2, <1>2, Zenon
  <2> QED BY <2>1, <2>2, Zenon
<1>4. \A q \in Procs : \A c \in held'[q] : valid'[c]
  BY Zenon DEF Inv, Contents
<1> QED BY <1>2, <1>3, <1>4, Zenon

\* The log counts a block once, whoever writes it and however often.
LEMMA log_writeInv ==
    ASSUME Inv, NEW p \in Procs, NEW b \in Bufs, NEW v \in Values, log_write(p, b, v)
    PROVE  Inv'
<1>t. TypeOK
  BY Zenon DEF Inv
<1>1. /\ Using(p, b) /\ Change(b, v) /\ pinned' = pinned \cup {blockno[b]}
      /\ refcount' = IF blockno[b] \in pinned THEN refcount ELSE [refcount EXCEPT ![b] = @ + 1]
      /\ UNCHANGED <<lru, blockno, valid, disk, owner, pc, cur, held, panicked>>
  BY Zenon DEF log_write
<1>2. /\ valid[b] /\ blockno[b] \in Blocks /\ refcount[b] \in Nat \ {0}
      /\ \A c \in Bufs \ {b} : blockno[c] # blockno[b]
  BY <1>1, InUse, Zenon
<1>3. /\ data' \in [Bufs -> Values] /\ latest' \in [Blocks -> Values]
      /\ \A m \in Blocks \ {blockno[b]} : latest'[m] = latest[m]
      /\ \A c \in Bufs : valid'[c] /\ blockno'[c] # None => data'[c] = latest'[blockno'[c]]
      /\ \A q \in Procs : \A c \in held'[q] : valid'[c]
  BY <1>1, Changed, Zenon
<1>4. TypeOK'
  BY <1>t, <1>1, <1>2, <1>3 DEF TypeOK
<1>5. CountsUsers'
  <2>1. ASSUME NEW c \in Bufs
        PROVE  refcount'[c] = Cardinality(Users(c)) + (IF blockno[c] \in pinned' THEN 1 ELSE 0)
    <3>0. /\ refcount[c] = Cardinality(Users(c)) + (IF blockno[c] \in pinned THEN 1 ELSE 0)
          /\ Cardinality(Users(c)) \in Nat
      BY UsersFinite, Zenon DEF Inv, CountsUsers
    <3>1. CASE c = b
      BY <3>0, <3>1, <1>t, <1>1, <1>2 DEF TypeOK
    <3>2. CASE c # b
      BY <3>0, <3>2, <1>t, <1>1, <1>2, Zenon DEF TypeOK
    <3> QED BY <3>1, <3>2, Zenon
  <2>2. \A c \in Bufs : Users(c)' = Users(c)
    BY <1>1, Zenon DEF Users
  <2> QED BY <2>1, <2>2, <1>1, Zenon DEF CountsUsers
<1>6. Shape'
  BY <1>1, Zenon DEF Inv, Shape
<1>7. Owners'
  <2>1. \A c \in Bufs : blockno[c] = None => refcount'[c] = refcount[c]
    BY <1>t, <1>1, <1>2, Constants DEF TypeOK
  <2> QED BY <1>1, <2>1 DEF Inv, Owners
<1>8. Contents'
  <2>1. \A n \in Blocks \ pinned' : disk'[n] = latest'[n]
    BY <1>1, <1>3, Zenon DEF Inv, Contents
  <2>2. \A n \in pinned' : \E c \in Bufs : blockno'[c] = n /\ valid'[c]
    BY <1>1, <1>2, Zenon DEF Inv, Contents
  <2> QED BY <1>3, <2>1, <2>2, Zenon DEF Contents
<1> QED BY <1>4, <1>5, <1>6, <1>7, <1>8, Zenon DEF Inv

\* A block of the log area reaches the disk as it changes.
LEMMA buffer_writeInv ==
    ASSUME Inv, NEW p \in Procs, NEW b \in Bufs, NEW v \in Values, buffer_write(p, b, v)
    PROVE  Inv'
<1>t. TypeOK
  BY Zenon DEF Inv
<1>1. /\ Using(p, b) /\ Change(b, v) /\ disk' = [disk EXCEPT ![blockno[b]] = v]
      /\ UNCHANGED <<lru, refcount, blockno, valid, owner, pc, cur, held, pinned, panicked>>
  BY Zenon DEF buffer_write, list
<1>2. blockno[b] \in Blocks
  BY <1>1, InUse, Zenon
<1>3. /\ data' \in [Bufs -> Values] /\ latest' \in [Blocks -> Values]
      /\ latest'[blockno[b]] = v
      /\ \A m \in Blocks \ {blockno[b]} : latest'[m] = latest[m]
      /\ \A c \in Bufs : valid'[c] /\ blockno'[c] # None => data'[c] = latest'[blockno'[c]]
      /\ \A q \in Procs : \A c \in held'[q] : valid'[c]
  BY <1>1, Changed, Zenon
<1>4. TypeOK'
  BY <1>t, <1>1, <1>2, <1>3, Zenon DEF TypeOK
<1>5. CountsUsers' /\ Shape' /\ Owners'
  BY <1>1 DEF Inv, CountsUsers, Users, Shape, Owners
<1>6. Contents'
  <2>1. \A n \in Blocks \ pinned' : disk'[n] = latest'[n]
    BY <1>t, <1>1, <1>2, <1>3 DEF Inv, Contents, TypeOK
  <2>2. \A n \in pinned' : \E c \in Bufs : blockno'[c] = n /\ valid'[c]
    BY <1>1, Zenon DEF Inv, Contents
  <2> QED BY <1>3, <2>1, <2>2, Zenon DEF Contents
<1> QED BY <1>4, <1>5, <1>6, Zenon DEF Inv

\* The pinned block goes home from the buffer, which has the last write.
LEMMA dec_buf_refcountInv ==
    ASSUME Inv, NEW p \in Procs, NEW b \in Bufs, dec_buf_refcount(p, b)
    PROVE  Inv'
<1>t. TypeOK
  BY Zenon DEF Inv
<1>1. /\ Using(p, b) /\ blockno[b] \in pinned /\ disk' = [disk EXCEPT ![blockno[b]] = data[b]]
      /\ pinned' = pinned \ {blockno[b]} /\ refcount' = [refcount EXCEPT ![b] = @ - 1]
      /\ UNCHANGED <<lru, blockno, valid, data, latest, owner, pc, cur, held, panicked>>
  BY Zenon DEF dec_buf_refcount
<1>2. /\ blockno[b] \in Blocks /\ refcount[b] \in Nat \ {0} /\ data[b] = latest[blockno[b]]
      /\ \A c \in Bufs \ {b} : blockno[c] # blockno[b]
  BY <1>1, InUse, Zenon
<1>3. TypeOK'
  <2>0. refcount \in [Bufs -> Nat] /\ refcount[b] - 1 \in Nat
    BY <1>t, <1>2 DEF TypeOK
  <2>1. refcount' \in [Bufs -> Nat]
    BY <1>1, <2>0, Zenon
  <2>2. data[b] \in Values
    BY <1>t, Zenon DEF TypeOK
  <2>3. disk' \in [Blocks -> Values]
    BY <1>t, <1>1, <2>2, Zenon DEF TypeOK
  <2> QED BY <1>t, <1>1, <2>1, <2>3, Zenon DEF TypeOK
<1>4. CountsUsers'
  <2>1. ASSUME NEW c \in Bufs
        PROVE  refcount'[c] = Cardinality(Users(c)) + (IF blockno[c] \in pinned' THEN 1 ELSE 0)
    <3>0. /\ refcount[c] = Cardinality(Users(c)) + (IF blockno[c] \in pinned THEN 1 ELSE 0)
          /\ Cardinality(Users(c)) \in Nat
      BY UsersFinite, Zenon DEF Inv, CountsUsers
    <3>1. CASE c = b
      BY <3>0, <3>1, <1>t, <1>1, <1>2 DEF TypeOK
    <3>2. CASE c # b
      BY <3>0, <3>2, <1>t, <1>1, <1>2, Zenon DEF TypeOK
    <3> QED BY <3>1, <3>2, Zenon
  <2>2. \A c \in Bufs : Users(c)' = Users(c)
    BY <1>1, Zenon DEF Users
  <2> QED BY <2>1, <2>2, <1>1, Zenon DEF CountsUsers
<1>5. Shape'
  BY <1>1, Zenon DEF Inv, Shape
<1>6. Owners'
  <2>1. \A c \in Bufs : refcount'[c] > 0 => refcount[c] > 0
    BY <1>t, <1>1, <1>2 DEF TypeOK
  <2> QED BY <1>1, <2>1, Zenon DEF Inv, Owners
<1>7. Contents'
  <2>1. \A n \in Blocks \ pinned' : disk'[n] = latest'[n]
    BY <1>t, <1>1, <1>2, Zenon DEF Inv, Contents, TypeOK
  <2> QED BY <1>1, <2>1, Zenon DEF Inv, Contents
<1> QED BY <1>3, <1>4, <1>5, <1>6, <1>7, Zenon DEF Inv

\* The process is still a user until it drops its count.
LEMMA release_sleeplockInv ==
    ASSUME Inv, NEW p \in Procs, NEW b \in Bufs, release_sleeplock(p, b)
    PROVE  Inv'
<1>t. TypeOK
  BY Zenon DEF Inv
<1>1. /\ owner' = [owner EXCEPT ![b] = None] /\ held' = [held EXCEPT ![p] = @ \ {b}]
      /\ cur' = [cur EXCEPT ![p] = b]
      /\ UNCHANGED <<lru, blockno, refcount, valid, data, disk, latest, pinned, panicked>>
  BY Zenon DEF release_sleeplock, Unlock, list, store
<1>2. /\ pc' \in [Procs -> Points] /\ pc'[p] = "release"
      /\ \A q \in Procs \ {p} : \/ pc'[q] = pc[q]
                                \/ pc[q] = "asleep" /\ pc'[q] = "lock"
  BY <1>t, Zenon DEF release_sleeplock, TypeOK, Points
<1>3. b \in held[p] /\ pc[p] = "idle" /\ cur[p] = None /\ owner[b] = p
  BY InUse, Zenon DEF release_sleeplock
<1>4. TypeOK'
  BY <1>t, <1>1, <1>2, Zenon DEF TypeOK
<1>5. CountsUsers'
  <2>1. \A c \in Bufs : Users(c)' = Users(c)
    BY <1>t, <1>1, <1>3, Constants DEF Users, TypeOK
  <2> QED BY <2>1, <1>1, Zenon DEF Inv, CountsUsers
<1>6. Shape'
  BY <1>t, <1>1, <1>2, Constants, Zenon DEF Inv, Shape, TypeOK
<1>7. Owners'
  <2>1. ASSUME NEW q \in Procs, NEW c \in Bufs
        PROVE  owner'[c] = q <=> c \in held'[q] \/ (pc'[q] = "read" /\ cur'[q] = c)
    <3>0. owner[c] = q <=> c \in held[q] \/ (pc[q] = "read" /\ cur[q] = c)
      BY Zenon DEF Inv, Owners
    <3>1. CASE q = p
      BY <3>0, <3>1, <1>t, <1>1, <1>2, <1>3, Constants, Zenon DEF TypeOK
    <3>2. CASE q # p
      BY <3>0, <3>2, <1>t, <1>1, <1>2, <1>3, Constants DEF TypeOK
    <3> QED BY <3>1, <3>2, Zenon
  <2> QED BY <2>1, <1>1, Zenon DEF Inv, Owners
<1>8. Contents'
  <2>1. \A q \in Procs : held'[q] \subseteq held[q]
    BY <1>t, <1>1, Zenon DEF TypeOK
  <2> QED BY <1>1, <2>1, Zenon DEF Inv, Contents
<1> QED BY <1>4, <1>5, <1>6, <1>7, <1>8, Zenon DEF Inv

\* The count was one for this process at least.
LEMMA buffer_releaseInv ==
    ASSUME Inv, NEW p \in Procs, buffer_release(p)
    PROVE  Inv'
<1>t. TypeOK
  BY Zenon DEF Inv
<1>1. PICK b \in Bufs : b = cur[p] /\ b \notin held[p]
  BY <1>t, Zenon DEF buffer_release, TypeOK, Inv, Shape
<1>2. /\ refcount' = [refcount EXCEPT ![b] = @ - 1]
      /\ lru' = IF refcount[b] = 1 THEN ToFront(b) ELSE lru
      /\ pc[p] = "release" /\ pc' = [pc EXCEPT ![p] = "idle"] /\ cur' = [cur EXCEPT ![p] = None]
      /\ UNCHANGED <<blockno, valid, data, disk, latest, owner, held, pinned, panicked>>
  BY <1>1, Zenon DEF buffer_release, store
<1>3. p \in Users(b)
  BY <1>1, Zenon DEF Users
<1>4. refcount[b] \in Nat \ {0}
  BY <1>3, Used, Zenon
<1>5. lru' \in [Bufs -> Bufs] /\ \A c \in Bufs : \E i \in Bufs : lru'[i] = c
  <2>1. CASE refcount[b] = 1
    BY <2>1, <1>t, <1>2, ToFrontType, Zenon
  <2>2. CASE refcount[b] # 1
    BY <2>2, <1>t, <1>2, Zenon DEF TypeOK
  <2> QED BY <2>1, <2>2, Zenon
<1>6. TypeOK'
  <2>0. refcount \in [Bufs -> Nat] /\ refcount[b] - 1 \in Nat
    BY <1>t, <1>4 DEF TypeOK
  <2>1. refcount' \in [Bufs -> Nat] /\ pc' \in [Procs -> Points]
    BY <1>t, <1>2, <2>0, Zenon DEF TypeOK, Points
  <2>2. cur' \in [Procs -> Bufs \cup {None}]
    BY <1>t, <1>2, Zenon DEF TypeOK
  <2> QED BY <1>t, <1>2, <1>5, <2>1, <2>2, Zenon DEF TypeOK
<1>7. CountsUsers'
  <2>1. Users(b)' = Users(b) \ {p}
    BY <1>t, <1>1, <1>2, Constants, Zenon DEF Users, TypeOK
  <2>2. \A c \in Bufs \ {b} : Users(c)' = Users(c)
    BY <1>t, <1>1, <1>2, Constants DEF Users, TypeOK
  <2>3. Cardinality(Users(b)') = Cardinality(Users(b)) - 1
    BY <2>1, <1>3, UsersFinite, FS_RemoveElement, Zenon
  <2>4. ASSUME NEW c \in Bufs
        PROVE  refcount'[c] = Cardinality(Users(c)') + (IF blockno[c] \in pinned THEN 1 ELSE 0)
    <3>0. /\ refcount[c] = Cardinality(Users(c)) + (IF blockno[c] \in pinned THEN 1 ELSE 0)
          /\ Cardinality(Users(c)) \in Nat
      BY UsersFinite, Zenon DEF Inv, CountsUsers
    <3>1. CASE c = b
      BY <3>0, <3>1, <2>3, <1>t, <1>2 DEF TypeOK
    <3>2. CASE c # b
      BY <3>0, <3>2, <2>2, <1>t, <1>2, Zenon DEF TypeOK
    <3> QED BY <3>1, <3>2, Zenon
  <2> QED BY <2>4, <1>2, Zenon DEF CountsUsers
<1>8. Shape'
  BY <1>t, <1>2, Constants, Zenon DEF Inv, Shape, TypeOK
<1>9. Owners'
  <2>1. \A c \in Bufs : refcount'[c] > 0 => refcount[c] > 0
    BY <1>t, <1>2, <1>4 DEF TypeOK
  <2> QED BY <1>t, <1>2, <2>1, Constants DEF Inv, Owners, TypeOK
<1>10. Contents'
  BY <1>2, Zenon DEF Inv, Contents
<1> QED BY <1>6, <1>7, <1>8, <1>9, <1>10, Zenon DEF Inv

-----------------------------------------------------------------------------
\* buffer_init() establishes it.
LEMMA InitInv == Init => Inv
<1> SUFFICES ASSUME Init
             PROVE  Inv
  BY Zenon
<1>1. TypeOK
  <2>1. NUMBUF \in Nat /\ \A i \in Bufs : NUMBUF + 1 - i \in Bufs /\ NUMBUF + 1 - (NUMBUF + 1 - i) = i
    BY BufCacheAssumption DEF Bufs
  <2>2. lru \in [Bufs -> Bufs] /\ \A b \in Bufs : \E i \in Bufs : lru[i] = b
    BY <2>1, Zenon DEF Init
  <2> QED BY <2>2, Zenon DEF Init, TypeOK, Points
<1>2. CountsUsers
  <2>1. \A b \in Bufs : Users(b) = {}
    BY Constants, Zenon DEF Init, Users
  <2>2. \A b \in Bufs : Cardinality(Users(b)) = 0
    BY <2>1, FS_EmptySet, Zenon
  <2> QED BY <2>2 DEF Init, CountsUsers
<1>3. Shape /\ Owners
  BY Constants DEF Init, Shape, Owners
<1>4. Contents
  BY Zenon DEF Init, Contents
<1> QED BY <1>1, <1>2, <1>3, <1>4, Zenon DEF Inv

\* Every step preserves it.
LEMMA NextInv == Inv /\ [Next]_vars => Inv'
<1> SUFFICES ASSUME Inv, [Next]_vars
             PROVE  Inv'
  BY Zenon
<1>1. CASE UNCHANGED vars
  <2>1. TypeOK'
    BY <1>1, Zenon DEF Inv, TypeOK, vars
  <2>2. CountsUsers' /\ Shape' /\ Owners' /\ Contents'
    BY <1>1 DEF Inv, CountsUsers, Users, Shape, Owners, Contents, vars
  <2> QED BY <2>1, <2>2, Zenon DEF Inv
<1>2. ASSUME NEW p \in Procs, NEW n \in Blocks, buffer_get(p, n) \/ buffer_recycle(p, n)
      PROVE  Inv'
  BY <1>2, buffer_getInv, buffer_recycleInv, Zenon
<1>3. ASSUME NEW p \in Procs, GetStep(p) \/ buffer_release(p)
      PROVE  Inv'
  BY <1>3, acquire_sleeplockInv, acquire_sleepInv, buffer_readInv, buffer_releaseInv, Zenon DEF GetStep
<1>4. ASSUME NEW p \in Procs, NEW b \in Bufs,
             \/ \E v \in Values : log_write(p, b, v) \/ buffer_write(p, b, v)
             \/ dec_buf_refcount(p, b)
             \/ release_sleeplock(p, b)
      PROVE  Inv'
  BY <1>4, log_writeInv, buffer_writeInv, dec_buf_refcountInv, release_sleeplockInv, Zenon
<1> QED BY <1>1, <1>2, <1>3, <1>4, Zenon DEF Next

\* The invariant holds throughout.
LEMMA InvAlways == Spec => []Inv
BY InitInv, NextInv, PTL DEF Spec

\* Every buffer stays in the list, whatever order releases and recycling
\* leave it in, and no count goes below zero.
THEOREM TypesHold == Spec => []TypeOK
<1>1. Inv => TypeOK
  BY Zenon DEF Inv
<1> QED BY <1>1, InvAlways, PTL

\* CountsUsers of the run, for every number of processes, buffers and blocks:
\* a reference count is the number of users, plus one for the log.
THEOREM CountsUsersHolds == Spec => []CountsUsers
<1>1. Inv => CountsUsers
  BY Zenon DEF Inv
<1> QED BY <1>1, InvAlways, PTL

\* ReadsLatest of the run: what a process has locked holds what was last
\* written to its block, and is nobody else's.
THEOREM ReadsLatestHolds == Spec => []ReadsLatest
<1>1. ASSUME Inv, NEW p \in Procs, NEW b \in held[p]
      PROVE  owner[b] = p /\ data[b] = latest[blockno[b]]
  <2>1. b \in Bufs /\ Users(b) # {}
    BY <1>1, Zenon DEF Inv, TypeOK, Users
  <2>2. blockno[b] \in Blocks
    BY <1>1, <2>1, Used, Zenon
  <2> QED BY <1>1, <2>1, <2>2, Constants, Zenon DEF Inv, Owners, Contents
<1>2. Inv => ReadsLatest
  BY <1>1, Zenon DEF ReadsLatest
<1> QED BY <1>2, InvAlways, PTL

=============================================================================
