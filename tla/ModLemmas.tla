----------------------------- MODULE ModLemmas -----------------------------
(***************************************************************************)
(* Facts about % for a symbolic modulus.  The firmware counts in machine   *)
(* words that wrap and masks them into power-of-two tables; these lemmas   *)
(* are what makes that arithmetic agree with counting in Nat.              *)
(***************************************************************************)
EXTENDS Integers, TLAPS

\* Quotient and remainder are determined by the number.
LEMMA DivisionUnique ==
    ASSUME NEW m \in Nat \ {0}, NEW q1 \in Int, NEW q2 \in Int,
           NEW r1 \in 0 .. m - 1, NEW r2 \in 0 .. m - 1,
           m * q1 + r1 = m * q2 + r2
    PROVE  r1 = r2
<1>1. CASE q1 < q2
  <2>1. m * (q2 - q1) >= m
    BY <1>1
  <2>2. m * (q2 - q1) = m * q2 - m * q1
    OBVIOUS
  <2> QED
    BY <2>1, <2>2
<1>2. CASE q2 < q1
  <2>1. m * (q1 - q2) >= m
    BY <1>2
  <2>2. m * (q1 - q2) = m * q1 - m * q2
    OBVIOUS
  <2> QED
    BY <2>1, <2>2
<1>3. CASE q1 = q2
  BY <1>3
<1> QED
  BY <1>1, <1>2, <1>3

\* A number is its own remainder plus a multiple of the modulus.
LEMMA Division ==
    ASSUME NEW a \in Int, NEW m \in Nat \ {0}
    PROVE  /\ a \div m \in Int
           /\ a % m \in 0 .. m - 1
           /\ a = (m * (a \div m)) + (a % m)
OBVIOUS

\* Adding a multiple of the modulus does not change the remainder.
LEMMA ModShift ==
    ASSUME NEW a \in Int, NEW k \in Int, NEW m \in Nat \ {0}
    PROVE  (a + m * k) % m = a % m
<1> DEFINE b == a + m * k
           qa == a \div m
           qb == b \div m
<1>1. b \in Int
  OBVIOUS
<1>2. a = m * qa + (a % m) /\ qa \in Int /\ a % m \in 0 .. m - 1
  BY Division
<1>3. b = m * qb + (b % m) /\ qb \in Int /\ b % m \in 0 .. m - 1
  BY Division, <1>1
<1> HIDE DEF qa, qb
<1>4. m * (qa + k) = m * qa + m * k
  BY <1>2
<1>5. m * (qa + k) + (a % m) = m * qb + (b % m)
  BY <1>2, <1>3, <1>4
<1> HIDE DEF b
<1>6. a % m = b % m
  BY <1>2, <1>3, <1>5, qa + k \in Int, DivisionUnique
<1> QED
  BY <1>6 DEF b

\* A number below the modulus is its own remainder.
LEMMA ModSmall ==
    ASSUME NEW m \in Nat \ {0}, NEW a \in 0 .. m - 1
    PROVE  a % m = a
OBVIOUS

\* A wrapped sum may be taken of a wrapped operand.
LEMMA ModAdd ==
    ASSUME NEW a \in Int, NEW b \in Int, NEW m \in Nat \ {0}
    PROVE  ((a % m) + b) % m = (a + b) % m
<1> DEFINE q == a \div m
           r == a % m
           p == m * q
<1>1. a = p + r /\ q \in Int /\ r \in Int /\ p \in Int
  BY Division
<1>2. p = m * q
  OBVIOUS
<1> HIDE DEF q, r, p
<1> DEFINE x == a + b
           y == r + b
<1>3. x \in Int /\ y \in Int /\ x = y + m * q
  BY <1>1, <1>2
<1> HIDE DEF x, y
<1>4. (y + m * q) % m = y % m
  BY <1>1, <1>3, ModShift
<1>5. x % m = y % m
  BY <1>3, <1>4
<1> QED
  BY <1>5 DEF r, x, y

\* Two wrapped counters subtract to their distance, while it is short.
LEMMA ModDistance ==
    ASSUME NEW a \in Int, NEW b \in Int, NEW m \in Nat \ {0},
           a - b \in 0 .. m - 1
    PROVE  ((a % m) - (b % m)) % m = a - b
<1> DEFINE qa == a \div m
           qb == b \div m
           ra == a % m
           rb == b % m
           pa == m * qa
           pb == m * qb
<1>1. a = pa + ra /\ qa \in Int /\ ra \in Int /\ pa \in Int
  BY Division
<1>2. b = pb + rb /\ qb \in Int /\ rb \in Int /\ pb \in Int
  BY Division
<1>3. qa \in Int /\ qb \in Int => m * (qa - qb) = pa - pb
  OBVIOUS
<1> HIDE DEF qa, qb, ra, rb, pa, pb
<1> DEFINE x == a - b
           y == ra - rb
           k == qa - qb
<1>4. x \in Int /\ y \in Int /\ k \in Int
  BY <1>1, <1>2
<1>5. x = y + m * k
  BY <1>1, <1>2, <1>3
<1>6. x % m = x
  BY ModSmall
<1> HIDE DEF x, y, k
<1>7. (y + m * k) % m = y % m
  BY <1>4, ModShift
<1>8. x % m = y % m
  BY <1>5, <1>7
<1> QED
  BY <1>6, <1>8 DEF x, y, ra, rb

\* Masking a wrapped counter is masking the counter, when the wrap is at a
\* multiple of the table's size.
LEMMA ModOfMultiple ==
    ASSUME NEW a \in Int, NEW m \in Nat \ {0}, NEW l \in Nat \ {0}
    PROVE  (a % (l * m)) % m = a % m
<1> DEFINE w == l * m
           q == a \div w
           r == a % w
           p == w * q
           k == l * q
<1>1. w \in Nat \ {0}
  OBVIOUS
<1> HIDE DEF w
<1>2. a = p + r /\ q \in Int /\ r \in Int /\ p \in Int
  BY <1>1, Division
<1>3. k \in Int /\ p = m * k
  BY <1>2 DEF w
<1> HIDE DEF q, r, p, k
<1>4. (r + m * k) % m = r % m
  BY <1>2, <1>3, ModShift
<1>5. a = r + m * k
  BY <1>2, <1>3
<1> QED
  BY <1>4, <1>5 DEF r, w

\* Fewer than m consecutive counters mask to distinct slots.
LEMMA ModDistinct ==
    ASSUME NEW a \in Int, NEW b \in Int, NEW m \in Nat \ {0},
           a # b, a - b \in (0 - m) + 1 .. m - 1
    PROVE  a % m # b % m
<1> SUFFICES ASSUME a % m = b % m
             PROVE  FALSE
  OBVIOUS
<1>1. CASE a - b \in 0 .. m - 1
  BY <1>1, ModDistance, ModSmall
<1>2. CASE b - a \in 0 .. m - 1
  BY <1>2, ModDistance, ModSmall
<1> QED
  BY <1>1, <1>2
=============================================================================
