------------------------------ MODULE PmmProof ------------------------------
(***************************************************************************)
(* Proofs about the allocator of module Pmm, for any number of pages and   *)
(* of processes: kalloc() is right until the first kfree(); and in the     *)
(* build kfree() never makes free the page it is given.                    *)
(***************************************************************************)
EXTENDS Pmm, TLAPS

\* A rounded size is a size: PGROUNDUP() of pmm.c.
LEMMA RoundUp == \A x \in Nat : PGROUNDUP(x) \in Nat
  BY FramesAssumption DEF PGROUNDUP

\* The number of pages kalloc() looks at, and their indices.
LEMMA FramesNat == num_pages \in Int /\ Frames \subseteq Nat
  BY RoundUp, FramesAssumption DEF num_pages, start_addr, Frames

\* Multiplying by the page size and dividing by it, as kalloc() and kfree() do.
LEMMA DivMul ==
    ASSUME NEW a \in Nat, NEW b \in Nat \ {0}
    PROVE  (a * b) \div b = a
  OBVIOUS

\* kalloc() returns different pages for different bits.
LEMMA PagesDistinct ==
    ASSUME NEW i \in Frames, NEW j \in Frames, Page(i) = Page(j)
    PROVE  i = j
<1>1. i \in Nat /\ j \in Nat /\ PGESIZE \in Nat \ {0} /\ AllocStart \in Int
  BY FramesAssumption, FramesNat DEF AllocStart, PGROUNDUP
<1>2. i * PGESIZE = j * PGESIZE
  <2>1. i * PGESIZE \in Int /\ j * PGESIZE \in Int
    BY <1>1
  <2> QED BY <1>1, <2>1 DEF Page
<1> QED BY <1>1, <1>2, DivMul

\* The page of every bit has an entry in users.
LEMMA PageHanded == \A i \in Frames : Page(i) \in Handed
  BY DEF Handed, Page

\* kalloc() before its critical section.
LEMMA StartStep ==
    ASSUME BitsExact, NEW p \in Procs, kalloc(p)
    PROVE  BitsExact'
  BY DEF kalloc, BitsExact

\* kalloc() in its critical section: the bit it takes was clear.
LEMMA SearchStep ==
    ASSUME BitsExact, NEW p \in Procs, search(p)
    PROVE  BitsExact'
<1>1. PICK i \in Clear(bits) : bits' = bits \cup {i} /\ taken' = [taken EXCEPT ![p] = i]
  BY DEF search
<1>2. i \in Frames /\ i \notin bits /\ i \in Int
  BY FramesNat DEF Clear
<1>3. users[Page(i)] = 0
  BY <1>2, PageHanded DEF BitsExact
<1>4. pc' = [pc EXCEPT ![p] = "return"] /\ UNCHANGED <<alloc_start, users, panicked>> /\ ~panicked
  BY DEF search
<1>5. alloc_start = AllocStart
  BY DEF search, BitsExact
<1>6. \A q \in Procs : pc[q] = "return" => taken[q] # i
  BY <1>2 DEF BitsExact
<1> USE <1>1, <1>2, <1>4 DEF BitsExact
<1>7. \A q \in Procs :
        /\ pc'[q] # "idle" => alloc_start' = AllocStart
        /\ pc'[q] = "return" => taken'[q] \in bits' /\ users'[Page(taken'[q])] = 0
  BY <1>3, <1>5
<1>8. \A q, r \in Procs : pc'[q] = "return" /\ pc'[r] = "return" /\ taken'[q] = taken'[r] => q = r
  BY <1>6
<1>9. \A j \in bits' : users'[Page(j)] = 1 \/ \E q \in Procs : pc'[q] = "return" /\ taken'[q] = j
  <2> TAKE j \in bits'
  <2>1. CASE j = i
    BY <2>1
  <2>2. CASE j # i /\ users[Page(j)] # 1
    <3>1. PICK q \in Procs : pc[q] = "return" /\ taken[q] = j
      BY <2>2
    <3>2. q # p
      BY <3>1 DEF search
    <3> QED BY <3>1, <3>2
  <2>3. CASE users[Page(j)] = 1
    BY <2>3
  <2> QED BY <2>1, <2>2, <2>3
<1> QED BY <1>7, <1>8, <1>9 DEF Page

\* kalloc() after its critical section: the page it returns has no other user.
LEMMA ReturnStep ==
    ASSUME BitsExact, NEW p \in Procs, return(p)
    PROVE  BitsExact'
<1> DEFINE i == taken[p]
<1>1. i \in bits /\ i \in Frames /\ users[Page(i)] = 0 /\ alloc_start = AllocStart
  BY DEF return, BitsExact
<1>2. Page(i) \in Handed
  BY <1>1, PageHanded
<1>3. users' = [users EXCEPT ![Page(i)] = 1]
  <2>1. Page(i) = alloc_start + taken[p] * PGESIZE
    BY <1>1 DEF Page
  <2>2. users' = [users EXCEPT ![Page(i)] = users[Page(i)] + 1]
    BY <2>1 DEF return
  <2> HIDE DEF i
  <2> QED BY <1>1, <2>2
<1>4. pc' = [pc EXCEPT ![p] = "idle"] /\ UNCHANGED <<bits, alloc_start, taken, panicked>>
  BY DEF return
<1>5. \A q \in Procs : q # p /\ pc[q] = "return" => taken[q] # i /\ taken[q] \in Frames
  BY DEF BitsExact, return
<1>6. \A j \in Frames : Page(j) \in Handed /\ (j # i => Page(j) # Page(i))
  BY <1>1, PageHanded, PagesDistinct
<1>7. \A j \in Frames : users'[Page(j)] = IF j = i THEN 1 ELSE users[Page(j)]
  BY <1>2, <1>3, <1>6 DEF BitsExact
<1> HIDE DEF i
<1>8. users' \in [Handed -> {0, 1}]
  BY <1>3 DEF BitsExact
<1>9. \A q \in Procs :
        /\ pc'[q] # "idle" => alloc_start' = AllocStart
        /\ pc'[q] = "return" => taken'[q] \in bits' /\ users'[Page(taken'[q])] = 0
  BY <1>4, <1>5, <1>7 DEF BitsExact
<1>10. \A j \in bits' : users'[Page(j)] = 1 \/ \E q \in Procs : pc'[q] = "return" /\ taken'[q] = j
  BY <1>4, <1>7 DEF BitsExact, i
<1>11. \A j \in Frames : users'[Page(j)] = 1 => j \in bits'
  BY <1>1, <1>4, <1>7 DEF BitsExact
<1> QED BY <1>4, <1>8, <1>9, <1>10, <1>11 DEF BitsExact, Page

\* kalloc() panics with every bit set.
LEMMA FullStep ==
    ASSUME BitsExact, NEW p \in Procs, no_memory(p)
    PROVE  BitsExact'
  BY DEF no_memory, BitsExact, Page

\* The initial state of pmm_init() is exact.
LEMMA InitExact == Init => BitsExact
  BY PageHanded DEF Init, BitsExact

\* Every step of kalloc() keeps the bits exact, and freed never becomes FALSE.
LEMMA StepExact ==
    ASSUME ExactUntilFreed, [Next]_vars
    PROVE  ExactUntilFreed'
<1>1. CASE freed
  BY <1>1 DEF Next, Step, kalloc, search, return, no_memory, kfree, vars, ExactUntilFreed
<1>2. CASE BitsExact /\ Next
  <2>1. PICK p \in Procs : Step(p)
    BY <1>2 DEF Next
  <2>2. CASE \E pg \in Handed : kfree(p, pg)
    BY <2>2 DEF kfree, ExactUntilFreed
  <2> QED BY <1>2, <2>1, <2>2, StartStep, SearchStep, ReturnStep, FullStep DEF Step, ExactUntilFreed
<1>3. CASE BitsExact /\ UNCHANGED vars
  BY <1>3 DEF vars, BitsExact, Page, ExactUntilFreed
<1> QED BY <1>1, <1>2, <1>3 DEF ExactUntilFreed

\* In the build they do not agree: with the page size, PHYSTOP and MAXVA of
\* paging.h, and wherever the kernel image ends, kfree() takes the pages to
\* begin 119 or 120 pages after where kalloc() takes them from.
THEOREM BuildStartsDiffer ==
    ASSUME PGESIZE = 4096, PHYSTOP = 2281701376, MAXVA = 4294967295
    PROVE  FreeStart - AllocStart \in {119 * PGESIZE, 120 * PGESIZE}
<1> DEFINE q == mem_end \div 4096
           up == (mem_end + 4095) \div 4096
<1>1. q \in Nat /\ up \in {q, q + 1} /\ mem_end \in Nat /\ mem_end <= 2281701376
  BY FramesAssumption
<1>2. num_pages = 557056 - up
  BY <1>1 DEF num_pages, start_addr, PGROUNDUP
<1>3. (MAXVA - mem_end) \div PGESIZE = 1048575 - q
  BY <1>1
<1> HIDE DEF q, up
<1>4. FreeStart = ((mem_end + 1048575 - q + 4095) \div 4096) * 4096
  BY <1>1, <1>3 DEF FreeStart, PGROUNDUP
<1>5. AllocStart = ((mem_end + 557056 - up + 4095) \div 4096) * 4096
  BY <1>1, <1>2 DEF AllocStart, PGROUNDUP
<1> QED BY <1>1, <1>4, <1>5

\* The bit kfree() computes for a page in the build: another one, or none of
\* the bitmap.
LEMMA BuildIndex ==
    ASSUME PGESIZE = 4096, PHYSTOP = 2281701376, MAXVA = 4294967295, NEW i \in Frames
    PROVE  FreeIndex(Page(i)) # i /\ (FreeIndex(Page(i)) \in Frames => FreeIndex(Page(i)) \in {i - 119, i - 120})
<1>1. num_pages \in Int /\ num_pages <= 557056
  BY RoundUp, FramesAssumption, SMT DEF num_pages, start_addr
<1>2. i \in Nat /\ i < num_pages
  BY <1>1, FramesNat, SMT DEF Frames
<1>3. AllocStart \in Int /\ FreeStart \in Int
  BY FramesAssumption, FramesNat, SMT DEF AllocStart, FreeStart, PGROUNDUP
<1>4. PICK d \in {119, 120} : FreeStart - AllocStart = d * 4096
  BY BuildStartsDiffer, SMT
<1>5. Page(i) - FreeStart = (i - d) * 4096
  BY <1>2, <1>3, <1>4, SMT DEF Page
<1>6. FreeIndex(Page(i)) = (((i - d) * 4096) % 4294967296) \div 4096
  BY <1>5, SMT DEF FreeIndex
<1>7. CASE i >= d
  <2>1. FreeIndex(Page(i)) = i - d
    BY <1>1, <1>2, <1>6, <1>7, SMT
  <2> QED BY <1>2, <2>1, SMT
<1>8. CASE i < d
  <2>1. FreeIndex(Page(i)) = i - d + 1048576
    BY <1>2, <1>6, <1>8, SMT
  <2> QED BY <1>1, <1>2, <1>8, <2>1, SMT DEF Frames
<1> QED BY <1>2, <1>7, <1>8, SMT

\* Up to the first kfree(), that of the first exec(), a bit is set
\* exactly for the pages in use or about to be returned, and alloc_start is
\* kalloc()'s whenever it reads it: kalloc() hands out no page twice.
THEOREM BitsExactUntilFreed == Spec => []ExactUntilFreed
<1>1. Init => ExactUntilFreed
  BY InitExact DEF ExactUntilFreed
<1>2. ExactUntilFreed /\ [Next]_vars => ExactUntilFreed'
  BY StepExact
<1> QED BY <1>1, <1>2, PTL DEF Spec

\* The bits kalloc() sets are those of the bitmap.
LEMMA BitsInMap == Spec => [](bits \subseteq Frames)
<1>1. Init => bits \subseteq Frames
  BY DEF Init
<1>2. bits \subseteq Frames /\ [Next]_vars => (bits \subseteq Frames)'
  BY DEF Next, Step, kalloc, search, return, no_memory, kfree, vars, Clear
<1> QED BY <1>1, <1>2, PTL DEF Spec

\* A kfree() that computes another bit leaves that of the page alone.
LEMMA MissingStep ==
    ASSUME bits \subseteq Frames, NEW p \in Procs, NEW i \in Frames, kfree(p, Page(i)),
           FreeIndex(Page(i)) # i,
           FreeIndex(Page(i)) \in Frames => FreeIndex(Page(i)) \in {i - 119, i - 120}
    PROVE  (i \in bits' <=> i \in bits) /\ bits \ bits' \subseteq {i - 119, i - 120}
  BY DEF kfree

\* In the build kfree() never clears the bit of the page it is given, in any
\* state and for any page of the bitmap.
THEOREM BuildFreeMisses ==
    ASSUME PGESIZE = 4096, PHYSTOP = 2281701376, MAXVA = 4294967295
    PROVE  Spec => FreeMissesPage
<1>1. bits \subseteq Frames =>
        [\A p \in Procs, i \in Frames : kfree(p, Page(i)) =>
            /\ i \in bits' <=> i \in bits
            /\ bits \ bits' \subseteq {i - 119, i - 120}]_vars
  BY BuildIndex, MissingStep, SMT
<1> QED BY <1>1, BitsInMap, PTL DEF FreeMissesPage
=============================================================================
