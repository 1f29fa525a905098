------------------------------ MODULE Modular ------------------------------
(***************************************************************************)
(* Facts about remainders for the rings of the kernel: the pipe's and      *)
(* those of the virtio disk are indexed by unsigned counters that wrap at  *)
(* a multiple of the ring's size.                                          *)
(***************************************************************************)
EXTENDS Integers, TLAPS

\* Division of an index, as in data[x % PIPESIZE] or avail[idx % NUM].
LEMMA Quotient ==
    ASSUME NEW x \in Int, NEW b \in Nat \ {0}
    PROVE  /\ x \div b \in Int /\ x % b \in 0 .. b - 1
           /\ x = b * (x \div b) + (x % b)
  OBVIOUS

\* Quotient and remainder are unique.
LEMMA SameQuotient ==
    ASSUME NEW b \in Nat \ {0}, NEW q1 \in Int, NEW q2 \in Int,
           NEW r1 \in 0 .. b - 1, NEW r2 \in 0 .. b - 1, b * q1 + r1 = b * q2 + r2
    PROVE  q1 = q2 /\ r1 = r2
<1>1. CASE q1 = q2
  BY <1>1
<1>2. CASE q1 > q2
  <2>1. PICK d \in Nat : d >= 1 /\ q1 = q2 + d
    BY <1>2
  <2>2. b * q1 = b * q2 + b * d
    BY <2>1
  <2>3. b * d >= b
    BY <2>1
  <2> QED BY <2>2, <2>3
<1>3. CASE q2 > q1
  <2>1. PICK d \in Nat : d >= 1 /\ q2 = q1 + d
    BY <1>3
  <2>2. b * q2 = b * q1 + b * d
    BY <2>1
  <2>3. b * d >= b
    BY <2>1
  <2> QED BY <2>2, <2>3
<1> QED BY <1>1, <1>2, <1>3

\* Adding whole rings to a counter leaves its cell the same.
LEMMA ModShift ==
    ASSUME NEW x \in Int, NEW b \in Nat \ {0}, NEW t \in Int
    PROVE  (x + b * t) % b = x % b
<1>1. b * t \in Int /\ x + b * t \in Int
  OBVIOUS
<1> DEFINE y == x + b * t
<1>2. x = b * (x \div b) + (x % b) /\ x \div b \in Int /\ x % b \in 0 .. b - 1
  BY Quotient
<1>3. y = b * (y \div b) + (y % b) /\ y \div b \in Int /\ y % b \in 0 .. b - 1
  BY <1>1, Quotient
<1>4. b * (x \div b + t) = b * (x \div b) + b * t
  BY <1>2
<1>5. b * (y \div b) + (y % b) = b * (x \div b + t) + (x % b)
  BY <1>2, <1>3, <1>4
<1> HIDE DEF y
<1> DEFINE qx == x \div b + t
           qy == y \div b
           rx == x % b
           ry == y % b
<1>6. qx \in Int /\ qy \in Int /\ rx \in 0 .. b - 1 /\ ry \in 0 .. b - 1 /\ b * qy + ry = b * qx + rx
  BY <1>2, <1>3, <1>5
<1> HIDE DEF qx, qy, rx, ry
<1>7. ry = rx
  BY <1>6, SameQuotient
<1> QED BY <1>7 DEF rx, ry, y

\* Counters less than a ring apart have different cells.
LEMMA ModDiffer ==
    ASSUME NEW x \in Int, NEW y \in Int, NEW b \in Nat \ {0}, x < y, y < x + b
    PROVE  x % b # y % b
<1>1. x = b * (x \div b) + (x % b) /\ x \div b \in Int /\ x % b \in 0 .. b - 1
  BY Quotient
<1>2. y = b * (y \div b) + (y % b) /\ y \div b \in Int /\ y % b \in 0 .. b - 1
  BY Quotient
<1> DEFINE qx == x \div b
           qy == y \div b
           rx == x % b
           ry == y % b
<1>3. /\ qx \in Int /\ qy \in Int /\ rx \in 0 .. b - 1 /\ ry \in 0 .. b - 1
      /\ x = b * qx + rx /\ y = b * qy + ry
  BY <1>1, <1>2
<1> HIDE DEF qx, qy, rx, ry
<1>4. ASSUME rx = ry PROVE FALSE
  <2>1. b * qy - b * qx = y - x
    BY <1>3, <1>4
  <2>2. b * (qy - qx) = y - x
    BY <1>3, <2>1
  <2>3. CASE qy - qx <= 0
    <3>1. b * (qy - qx) <= 0
      BY <2>3, <1>3
    <3> QED BY <3>1, <2>2
  <2>4. CASE qy - qx >= 1
    <3>1. b * (qy - qx) >= b
      BY <2>4, <1>3
    <3> QED BY <3>1, <2>2
  <2> QED BY <2>3, <2>4, <1>3
<1> QED BY <1>4 DEF rx, ry

\* A remainder within one period of its argument.
LEMMA ModCases ==
    ASSUME NEW x \in Int, NEW b \in Nat \ {0}, - b <= x, x < 2 * b
    PROVE  x % b = IF x < 0 THEN x + b ELSE IF x < b THEN x ELSE x - b
<1>1. \A z \in 0 .. b - 1 : z % b = z
  OBVIOUS
<1>2. CASE x < 0
  <2> 1 \in Int
    OBVIOUS
  <2>1. (x + b * 1) % b = x % b
    BY ModShift, Zenon
  <2>2. (x + b) % b = x + b
    BY <1>1, <1>2
  <2> QED BY <1>2, <2>1, <2>2
<1>3. CASE 0 <= x /\ x < b
  BY <1>1, <1>3
<1>4. CASE x >= b
  <2>1. (x + b * (-1)) % b = x % b
    BY ModShift
  <2>2. (x - b) % b = x - b
    BY <1>1, <1>4
  <2>3. x + b * (-1) = x - b
    OBVIOUS
  <2> QED BY <1>4, <2>1, <2>2, <2>3
<1> QED BY <1>2, <1>3, <1>4

\* A counter that wraps at a multiple of the ring's size goes on with the
\* next cell of the ring.
LEMMA ModOfMultiple ==
    ASSUME NEW x \in Int, NEW k \in Int, NEW b \in Nat \ {0}, NEW t \in Nat \ {0}
    PROVE  ((x % (b * t)) + k) % b = (x + k) % b
<1> DEFINE m == b * t
           q == x \div m
           r == x % m
<1>1. m \in Nat \ {0}
  OBVIOUS
<1> HIDE DEF m
<1>2. q \in Int /\ r \in Int /\ x = m * q + r
  BY <1>1, Quotient
<1> HIDE DEF q, r
<1>3. m * q = b * (t * q)
  BY <1>2 DEF m
<1>4. t * q \in Int /\ r + k \in Int
  BY <1>2
<1>5. (r + k + b * (t * q)) % b = (r + k) % b
  BY <1>4, ModShift, Zenon
<1>6. r + k + b * (t * q) = x + k
  BY <1>2, <1>3, <1>4
<1> QED BY <1>5, <1>6 DEF r, m

\* The same for the ring itself.
LEMMA ModAdd ==
    ASSUME NEW x \in Int, NEW k \in Int, NEW b \in Nat \ {0}
    PROVE  ((x % b) + k) % b = (x + k) % b
<1>1. 1 \in Nat \ {0} /\ b * 1 = b
  OBVIOUS
<1>2. ((x % (b * 1)) + k) % b = (x + k) % b
  BY <1>1, ModOfMultiple, Zenon
<1> QED BY <1>1, <1>2

=============================================================================
