----------------------------- MODULE NumberFacts -----------------------------
(***************************************************************************)
(* Facts about numbers that the proofs about the receiver rest on.         *)
(* Induction is stated as a fact about sets: of the counterexamples to a   *)
(* claim there is a first one.                                             *)
(***************************************************************************)
EXTENDS Integers, WellFoundedInduction, TLAPS

\* A set of natural numbers that is not empty has a least member.
LEMMA NatMin ==
  ASSUME NEW T, T \subseteq Nat, T # {}
  PROVE  \E x \in T : \A y \in T : x <= y
  <1> DEFINE R == OpToRel(<, Nat)
  <1>1. \A x \in Nat, y \in Nat : <<x, y>> \in R <=> x < y
    BY DEF OpToRel
  <1>2. IsWellFoundedOn(R, Nat)
    BY NatLessThanWellFounded
  <1> HIDE DEF R
  <1>3. PICK x \in T : \A y \in T : ~ (<<y, x>> \in R)
    BY <1>2, WFMin
  <1>4. ASSUME NEW y \in T PROVE x <= y
    <2>1. x \in Nat /\ y \in Nat
      OBVIOUS
    <2>2. ~(<<y, x>> \in R)
      BY <1>3
    <2>3. ~(y < x)
      BY <1>1, <2>1, <2>2, Zenon
    <2>4. QED
      BY <2>1, <2>3
  <1>5. QED
    BY <1>4

\* One that is bounded has a greatest member.
LEMMA NatMax ==
  ASSUME NEW T, T \subseteq Nat, T # {}, NEW b \in Nat, \A x \in T : x <= b
  PROVE  \E x \in T : \A y \in T : y <= x
  <1> DEFINE U == {u \in Nat : b - u \in T}
  <1>1. \A x \in T : b - x \in U
    <2>1. \A x \in T : b - x \in Nat /\ b - (b - x) = x
      OBVIOUS
    <2>2. QED
      BY <2>1
  <1>2. PICK u \in U : \A v \in U : u <= v
    <2>1. U \subseteq Nat /\ U # {}
      BY <1>1
    <2>2. QED
      BY <2>1, NatMin
  <1>3. \A y \in T : y <= b - u
    BY <1>1, <1>2
  <1>4. QED
    BY <1>3

-----------------------------------------------------------------------------
\* Quotient and remainder

LEMMA ModOf ==
  ASSUME NEW n \in Nat \ {0}, NEW q \in Int, NEW r \in 0 .. n - 1
  PROVE  (n * q + r) % n = r
  OBVIOUS

LEMMA ModDiv ==
  ASSUME NEW n \in Nat \ {0}, NEW a \in Int
  PROVE  /\ a % n \in 0 .. n - 1
         /\ a \div n \in Int
         /\ a = n * (a \div n) + (a % n)
  <1>1. a % n \in 0 .. n - 1
    OBVIOUS
  <1>2. a \div n \in Int
    OBVIOUS
  <1>3. a = n * (a \div n) + (a % n)
    OBVIOUS
  <1>4. QED
    BY <1>1, <1>2, <1>3

LEMMA DivOf ==
  ASSUME NEW n \in Nat \ {0}, NEW q \in Int, NEW r \in 0 .. n - 1
  PROVE  (n * q + r) \div n = q
  OBVIOUS

LEMMA DivMono ==
  ASSUME NEW n \in Nat \ {0}, NEW a \in Int, NEW b \in Int, a <= b
  PROVE  a \div n <= b \div n
  <1> DEFINE p == a \div n
             q == b \div n
  <1>1. /\ p \in Int /\ a % n \in 0 .. n - 1 /\ a = n * p + (a % n)
        /\ q \in Int /\ b % n \in 0 .. n - 1 /\ b = n * q + (b % n)
    BY ModDiv
  <1> HIDE DEF p, q
  <1>2. n * p < n * (q + 1)
    BY <1>1
  <1>3. CASE q + 1 <= p
    <2>1. n * (q + 1) <= n * p
      BY <1>1, <1>3
    <2>2. QED
      BY <1>1, <1>2, <2>1
  <1>4. QED
    BY <1>1, <1>3 DEF p, q

\* A remainder may be taken early.
LEMMA ModSum ==
  ASSUME NEW n \in Nat \ {0}, NEW a \in Int, NEW b \in Int
  PROVE  ((a % n) + b) % n = (a + b) % n
  <1> DEFINE q == a \div n
             r == a % n
             p == (r + b) \div n
             s == (r + b) % n
  <1>1. r \in 0 .. n - 1 /\ q \in Int /\ a = n * q + r
    BY ModDiv
  <1> HIDE DEF q, r
  <1>2. s \in 0 .. n - 1 /\ p \in Int /\ r + b = n * p + s
    <2>1. r + b \in Int
      BY <1>1
    <2>2. QED
      BY <2>1, ModDiv
  <1> HIDE DEF p, s
  <1>3. a + b = n * (q + p) + s
    <2>1. n * (q + p) = n * q + n * p
      BY <1>1, <1>2
    <2>2. n * q \in Int /\ n * p \in Int
      BY <1>1, <1>2
    <2>3. \A u, v \in Int : (u + r) + b = u + (r + b) /\ u + (v + s) = (u + v) + s
      BY <1>1, <1>2
    <2>4. QED
      BY <1>1, <1>2, <2>1, <2>2, <2>3
  <1>4. (n * (q + p) + s) % n = s
    BY <1>1, <1>2, ModOf
  <1>5. (a + b) % n = s
    BY <1>3, <1>4
  <1>6. (r + b) % n = s
    BY DEF s
  <1>7. QED
    BY <1>5, <1>6 DEF r

\* Numbers that differ by less than n have different remainders.
LEMMA ModApart ==
  ASSUME NEW n \in Nat \ {0}, NEW a \in Int, NEW d \in 1 .. n - 1
  PROVE  (a + d) % n # a % n
  <1> DEFINE r == a % n
  <1>1. r \in 0 .. n - 1 /\ d \in Int
    BY ModDiv
  <1>2. ((a % n) + d) % n = (a + d) % n
    BY <1>1, ModSum
  <1> HIDE DEF r
  <1>3. CASE r + d < n
    <2>1. (n * 0 + (r + d)) % n = r + d
      BY <1>1, <1>3, ModOf
    <2>2. QED
      BY <1>1, <1>2, <1>3, <2>1 DEF r
  <1>4. CASE r + d >= n
    <2>1. (n * 1 + (r + d - n)) % n = r + d - n
      BY <1>1, <1>4, ModOf
    <2>2. n * 1 + (r + d - n) = r + d
      BY <1>1
    <2>3. QED
      BY <1>1, <1>2, <1>4, <2>1, <2>2 DEF r
  <1>5. QED
    BY <1>1, <1>3, <1>4
=============================================================================
