------------------------------- MODULE DivMod -------------------------------
(***************************************************************************)
(* Division with a rest, for addresses that are cut into blocks, chunks    *)
(* and pages whose size is a constant.                                     *)
(***************************************************************************)
EXTENDS Integers, TLAPS

(* What \div and % undo.                                                   *)
LEMMA QuotientAndRest ==
  ASSUME NEW k \in Nat \ {0}, NEW b \in Nat, NEW c \in 0 .. k - 1
  PROVE  (b * k + c) \div k = b /\ (b * k + c) % k = c
<1> DEFINE low == b * k
           n == low + c
           q == n \div k
           r == n % k
           whole == q * k
<1>1. low \in Nat /\ n \in Nat
  OBVIOUS
<1>2. q \in Nat /\ r \in 0 .. k - 1 /\ n = whole + r
  <2> HIDE DEF n
  <2>1. q \in Nat /\ r \in 0 .. k - 1
    BY <1>1
  <2>2. n = k * q + r
    BY <1>1
  <2>3. k * q = whole
    BY <2>1
  <2> QED
    BY <2>1, <2>2, <2>3
<1>3. n = low + c
  OBVIOUS
<1>4. \A x, y \in Nat : x < y => x * k + k <= y * k /\ x * k \in Nat
  <2> SUFFICES ASSUME NEW x \in Nat, NEW y \in Nat, x < y
               PROVE  x * k + k <= y * k /\ x * k \in Nat
    OBVIOUS
  <2>1. y = x + 1 + (y - x - 1) /\ y - x - 1 \in Nat
    OBVIOUS
  <2>2. PICK m \in Nat : y = x + 1 + m
    BY <2>1
  <2>3. y * k = x * k + k + m * k /\ m * k \in Nat /\ x * k \in Nat
    BY <2>2
  <2> DEFINE X == x * k
             M == m * k
             Y == y * k
  <2>4. Y = X + k + M /\ M \in Nat /\ X \in Nat
    BY <2>3
  <2> HIDE DEF X, M, Y
  <2>5. X + k <= Y
    BY <2>4
  <2> QED
    BY <2>4, <2>5 DEF X, Y
<1>5. (q < b => whole + k <= low) /\ (b < q => low + k <= whole)
      /\ whole \in Nat
  BY <1>2, <1>4
<1>6. q = b
  <2> HIDE DEF low, n, q, r, whole
  <2> QED
    BY <1>1, <1>2, <1>3, <1>5
<1>7. r = c
  <2>1. whole = low
    BY <1>6
  <2> HIDE DEF low, n, q, r, whole
  <2> QED
    BY <1>1, <1>2, <1>3, <2>1
<1> QED
  BY <1>6, <1>7

(* A number below the modulus.                                             *)
LEMMA RestOfSmall ==
  ASSUME NEW k \in Nat \ {0}, NEW x \in 0 .. k - 1
  PROVE  x % k = x
  OBVIOUS

(* What \div and % make of a number.                                       *)
LEMMA Division ==
  ASSUME NEW k \in Nat \ {0}, NEW a \in Nat
  PROVE  /\ a \div k \in Nat /\ a % k \in 0 .. k - 1
         /\ (a \div k) * k \in Nat
         /\ a = (a \div k) * k + (a % k)
<1> DEFINE q == a \div k
<1>1. q \in Nat /\ a % k \in 0 .. k - 1
  OBVIOUS
<1>2. a = k * q + (a % k)
  OBVIOUS
<1>3. k * q = q * k /\ q * k \in Nat
  BY <1>1
<1> QED
  BY <1>1, <1>2, <1>3

(* How the rest changes on the way to the end of the page, and in the next *)
(* one.                                                                    *)
LEMMA RestOfSum ==
  ASSUME NEW k \in Nat \ {0}, NEW a \in Nat, NEW d \in Nat
  PROVE  /\ (a % k) + d < k => (a + d) % k = (a % k) + d
         /\ (a % k) + d \in k .. 2 * k - 1 => (a + d) % k = (a % k) + d - k
<1> DEFINE q == a \div k
           r == a % k
<1>1. q \in Nat /\ r \in 0 .. k - 1 /\ a = q * k + r /\ q * k \in Nat
  BY Division
<1>2. (q + 1) * k = q * k + k
  BY <1>1
<1> HIDE DEF q, r
<1>3. ASSUME r + d < k PROVE (a + d) % k = r + d
  <2>1. r + d \in 0 .. k - 1
    BY <1>1, <1>3
  <2>2. a + d = q * k + (r + d)
    BY <1>1
  <2> QED
    BY <1>1, <2>1, <2>2, QuotientAndRest
<1>4. ASSUME r + d \in k .. 2 * k - 1 PROVE (a + d) % k = r + d - k
  <2> DEFINE c == r + d - k
             p == q + 1
  <2>1. c \in 0 .. k - 1 /\ p \in Nat
    BY <1>1, <1>4
  <2>2. a + d = p * k + c
    BY <1>1, <1>2
  <2> HIDE DEF c, p
  <2>3. (p * k + c) % k = c
    BY <2>1, QuotientAndRest
  <2> QED
    BY <2>2, <2>3 DEF c
<1> QED
  BY <1>3, <1>4 DEF r

(* Whole pages leave no rest.                                              *)
LEMMA RestOfPages ==
  ASSUME NEW k \in Nat \ {0}, NEW a \in Nat, a % k = 0, NEW b \in Nat, b % k = 0
  PROVE  (a + b) % k = 0
<1> DEFINE q == a \div k
           p == b \div k
           n == q + p
<1>1. q \in Nat /\ p \in Nat /\ q * k \in Nat /\ p * k \in Nat
  BY Division
<1>2. a = q * k + (a % k) /\ b = p * k + (b % k)
  BY Division
<1>3. n * k = q * k + p * k
  BY <1>1
<1>4. n \in Nat /\ 0 \in 0 .. k - 1
  BY <1>1
<1>5. a + b = n * k + 0
  <2> DEFINE A == q * k
             B == p * k
  <2>1. a = A /\ b = B /\ n * k = A + B /\ A \in Nat /\ B \in Nat
    <3>1. a = A + 0 /\ b = B + 0
      BY <1>2
    <3> HIDE DEF q, p, n
    <3> QED
      BY <1>1, <1>3, <3>1
  <2> HIDE DEF A, B
  <2> QED
    BY <2>1
<1> HIDE DEF n
<1>6. (n * k + 0) % k = 0
  BY <1>4, QuotientAndRest
<1> QED
  BY <1>5, <1>6

(* A negative number, above minus the modulus.                             *)
LEMMA RestOfNegative ==
  ASSUME NEW k \in Nat \ {0}, NEW x \in 1 .. k - 1
  PROVE  (-x) % k = k - x
<1> DEFINE y == -x
           q == y \div k
           r == y % k
           whole == k * q
<1>1. y \in Int /\ q \in Int /\ r \in 0 .. k - 1 /\ y = whole + r
  <2>1. y \in Int
    OBVIOUS
  <2> HIDE DEF y
  <2>2. q \in Int /\ r \in 0 .. k - 1 /\ y = k * q + r
    BY <2>1
  <2> QED
    BY <2>1, <2>2
<1>2. q >= 0 => whole >= 0
  BY <1>1
<1>3. q <= -2 => whole <= -(2 * k)
  <2> SUFFICES ASSUME q <= -2 PROVE whole <= -(2 * k)
    OBVIOUS
  <2> HIDE DEF q
  <2>1. PICK j \in Nat : q = -(2 + j)
    <3>1. -q - 2 \in Nat /\ q = -(2 + (-q - 2))
      BY <1>1
    <3> QED
      BY <3>1
  <2>2. k * q = -(2 * k) - k * j /\ k * j \in Nat
    BY <2>1
  <2> DEFINE m == k * j
  <2>3. whole = -(2 * k) - m /\ m \in Nat
    BY <2>2
  <2> HIDE DEF whole, m
  <2> QED
    BY <2>3
<1>4. q = -1 => whole = -k
  <2> HIDE DEF q
  <2> QED
    OBVIOUS
<1>5. whole \in Int
  BY <1>1
<1> HIDE DEF q, r, whole
<1>6. q = -1
  BY <1>1, <1>2, <1>3, <1>5
<1> QED
  BY <1>1, <1>4, <1>6 DEF r
=============================================================================
