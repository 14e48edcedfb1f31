----------------------------- MODULE ViterbiProofs -----------------------------
(***************************************************************************)
(* The decoder of module Viterbi returns a nearest codeword, whatever the  *)
(* length of the message, the puncturing and the number of inverted bits.  *)
(*                                                                         *)
(* A path through the trellis is the input that drives the encoder along   *)
(* it.  Inputs before bit 0 choose the state the path starts from, so that *)
(* the paths from the 63 states the encoder does not start from are inputs *)
(* like the others.                                                        *)
(***************************************************************************)
EXTENDS Viterbi, NumberFacts, SequenceTheorems, FiniteSetTheorems, TLAPS

\* The inputs of the first p passes, and the six before them.
Inputs(p) == [-6 .. p - 1 -> {0, 1}]

\* An input of zeros and ones, wherever it is looked up.
Bits(x) == \A i \in Int : Input(x, i) \in {0, 1}

\* The state input x has driven the encoder into after p passes.
StateOf(x, p) == Input(x, p - 1) + 2 * Input(x, p - 2) + 4 * Input(x, p - 3)
                 + 8 * Input(x, p - 4) + 16 * Input(x, p - 5) + 32 * Input(x, p - 6)

\* The ones of a codeword, and those received when the bits of f are inverted.
OnesOf(v, m) == {pl \in Places : Kept(v, pl[1], pl[2]) /\ Encoded(m, pl[1], pl[2]) = 1}
Air(v, m, f) == Differ(OnesOf(v, m), f)

\* The bits sent in the first p passes, and those of them where input x gives another bit
\* than the one received (R has the places of the ones).
SentBefore(v, p) == {pl \in (0 .. p - 1) \X (1 .. N) : Kept(v, pl[1], pl[2])}
WrongBefore(v, R, x, p) ==
    {pl \in SentBefore(v, p) : ~(pl \in R <=> Encoded(x, pl[1], pl[2]) = 1)}

\* The metric of a path: three for a bit that agrees, minus seven for one that does not,
\* and what the decoder starts with in the state the path starts from.
Fit(v, R, x, p) == 3 * Cardinality(SentBefore(v, p)) - 10 * Cardinality(WrongBefore(v, R, x, p))
Value(v, R, x, p) == StartMetric[StateOf(x, 0)] + Fit(v, R, x, p)

\* The decisions along the path are the ones the decoder has stored.
Decided(ps, x, p) == \A q \in 0 .. p - 1 : StateOf(x, q + 1) \in ps[q + 1] <=> Input(x, q - 6) = 1

-----------------------------------------------------------------------------
\* The encoder

LEMMA Constants == K = 7 /\ N = 4 /\ Steps47 = NBits + 6 /\ Steps47 \in Nat /\ States = 0 .. 63
  <1>1. K = 7 /\ N = 4 /\ Steps47 = NBits + 6 /\ Steps47 \in Nat
    BY NBitsAssumption DEF K, N, Steps47
  <1>2. 2^(7 - 1) = 64
    <2>1. 7 - 1 = 6
      OBVIOUS
    <2>2. 2^6 = 64
      BY SMT
    <2>3. QED
      BY <2>1, <2>2
  <1>3. QED
    BY <1>1, <1>2 DEF States

LEMMA Powers == 2^0 = 1 /\ 2^1 = 2 /\ 2^2 = 4 /\ 2^3 = 8 /\ 2^4 = 16 /\ 2^5 = 32 /\ 2^6 = 64
                /\ 2^7 = 128
  BY SMT

LEMMA InputBits ==
  ASSUME NEW a \in Int, NEW b \in Int, NEW x \in [a .. b -> {0, 1}]
  PROVE  Bits(x)
  BY DEF Bits, Input

\* The register shifts: the state before a pass is its upper six bits, the state after it
\* the lower six.
LEMMA RegisterShifts ==
  ASSUME NEW x, Bits(x), NEW p \in Int
  PROVE  /\ StateOf(x, p) \in 0 .. 63
         /\ encstate(x, p) = 2 * StateOf(x, p) + Input(x, p)
         /\ encstate(x, p) = 64 * Input(x, p - 6) + StateOf(x, p + 1)
         /\ encstate(x, p) \in 0 .. 127
         /\ Input(x, p) \in {0, 1} /\ Input(x, p - 6) \in {0, 1}
  <1>1. /\ Input(x, p) \in {0, 1} /\ Input(x, p - 1) \in {0, 1} /\ Input(x, p - 2) \in {0, 1}
        /\ Input(x, p - 3) \in {0, 1} /\ Input(x, p - 4) \in {0, 1}
        /\ Input(x, p - 5) \in {0, 1} /\ Input(x, p - 6) \in {0, 1}
    BY DEF Bits
  <1>2. /\ (p + 1) - 1 = p /\ (p + 1) - 2 = p - 1 /\ (p + 1) - 3 = p - 2
        /\ (p + 1) - 4 = p - 3 /\ (p + 1) - 5 = p - 4 /\ (p + 1) - 6 = p - 5
    OBVIOUS
  <1>3. StateOf(x, p + 1) = Input(x, p) + 2 * Input(x, p - 1) + 4 * Input(x, p - 2)
                 + 8 * Input(x, p - 3) + 16 * Input(x, p - 4) + 32 * Input(x, p - 5)
    BY <1>2 DEF StateOf
  <1>4. QED
    BY <1>1, <1>3 DEF StateOf, encstate

\* A state is left by its upper six bits and what is dropped, and says the newest bit.
LEMMA Predecessor ==
  ASSUME NEW x, Bits(x), NEW p \in Int
  PROVE  /\ StateOf(x, p) = StateOf(x, p + 1) \div 2 + 32 * Input(x, p - 6)
         /\ Input(x, p) = StateOf(x, p + 1) % 2
         /\ StateOf(x, p + 1) \in 0 .. 63
  <1> DEFINE s == StateOf(x, p)
             t == StateOf(x, p + 1)
             a == Input(x, p)
             b == Input(x, p - 6)
  <1>1. s \in 0 .. 63 /\ a \in {0, 1} /\ b \in {0, 1} /\ 2 * s + a = 64 * b + t
    BY RegisterShifts
  <1>2. t \in 0 .. 63
    <2>1. p + 1 \in Int
      OBVIOUS
    <2>2. QED
      BY <2>1, RegisterShifts
  <1> HIDE DEF s, t, a, b
  <1>3. t = 2 * (s - 32 * b) + a
    BY <1>1, <1>2
  <1>4. s = t \div 2 + 32 * b /\ a = t % 2
    BY <1>1, <1>2, <1>3
  <1>5. QED
    BY <1>2, <1>4 DEF s, t, a, b

\* Inputs that agree from bit p - 6 on are in one state, and give the same bits.
LEMMA SameInputs ==
  ASSUME NEW x, NEW y, NEW p \in Int, \A i \in Int : i >= p - 6 /\ i < p => Input(x, i) = Input(y, i)
  PROVE  StateOf(x, p) = StateOf(y, p)
  BY DEF StateOf

LEMMA SameRegister ==
  ASSUME NEW x, NEW y, NEW p \in Int, \A i \in Int : i >= p - 6 /\ i <= p => Input(x, i) = Input(y, i)
  PROVE  encstate(x, p) = encstate(y, p)
  BY DEF encstate

-----------------------------------------------------------------------------
\* The bits of a branch

LEMMA RegisterOf ==
  ASSUME NEW i
  PROVE  /\ Register(i) \subseteq 0 .. 6
         /\ 0 \in Register(i) <=> i \div 1 % 2 = 1
         /\ 1 \in Register(i) <=> (i \div 2) % 2 = 1
         /\ 2 \in Register(i) <=> (i \div 4) % 2 = 1
         /\ 3 \in Register(i) <=> (i \div 8) % 2 = 1
         /\ 4 \in Register(i) <=> (i \div 16) % 2 = 1
         /\ 5 \in Register(i) <=> (i \div 32) % 2 = 1
         /\ 6 \in Register(i) <=> (i \div 64) % 2 = 1
  <1>1. Register(i) = {b \in 0 .. 6 : (i \div 2^b) % 2 = 1}
    <2>1. K - 1 = 6
      BY Constants
    <2>2. QED
      BY <2>1 DEF Register
  <1>2. \A b \in 0 .. 6 : b \in Register(i) <=> (i \div 2^b) % 2 = 1
    BY <1>1
  <1>3. Register(i) \subseteq 0 .. 6
    BY <1>1
  <1>4. 0 \in Register(i) <=> (i \div 2^0) % 2 = 1
    BY <1>2
  <1>5. 1 \in Register(i) <=> (i \div 2^1) % 2 = 1
    BY <1>2
  <1>6. 2 \in Register(i) <=> (i \div 2^2) % 2 = 1
    BY <1>2
  <1>7. 3 \in Register(i) <=> (i \div 2^3) % 2 = 1
    BY <1>2
  <1>8. 4 \in Register(i) <=> (i \div 2^4) % 2 = 1
    BY <1>2
  <1>9. 5 \in Register(i) <=> (i \div 2^5) % 2 = 1
    BY <1>2
  <1>10. 6 \in Register(i) <=> (i \div 2^6) % 2 = 1
    BY <1>2
  <1>11. QED
    BY <1>3, <1>4, <1>5, <1>6, <1>7, <1>8, <1>9, <1>10, Powers, Zenon

\* The register entered from the upper half has bit 6 besides; the one of the other state
\* of the pair differs in bit 0.
LEMMA UpperRegister ==
  ASSUME NEW s \in 0 .. 63
  PROVE  /\ 6 \notin Register(s)
         /\ Register(s + 64) = Register(s) \cup {6}
  <1>1. (s \div 64) % 2 = 0 /\ ((s + 64) \div 64) % 2 = 1
    OBVIOUS
  <1>2. (s + 64) \div 1 % 2 = s \div 1 % 2
    OBVIOUS
  <1>3. ((s + 64) \div 2) % 2 = (s \div 2) % 2
    OBVIOUS
  <1>4. ((s + 64) \div 4) % 2 = (s \div 4) % 2
    OBVIOUS
  <1>5. ((s + 64) \div 8) % 2 = (s \div 8) % 2
    OBVIOUS
  <1>6. ((s + 64) \div 16) % 2 = (s \div 16) % 2
    OBVIOUS
  <1>7. ((s + 64) \div 32) % 2 = (s \div 32) % 2
    OBVIOUS
  <1>8. 6 \notin Register(s) /\ 6 \in Register(s + 64)
    <2>1. (s \div 64) % 2 # 1
      BY <1>1
    <2>2. QED
      BY <2>1, <1>1, RegisterOf
  <1>9. \A b \in 0 .. 5 : b \in Register(s + 64) <=> b \in Register(s)
    <2>1. 0 \in Register(s + 64) <=> 0 \in Register(s)
      BY <1>2, RegisterOf, ZenonT(30)
    <2>2. 1 \in Register(s + 64) <=> 1 \in Register(s)
      BY <1>3, RegisterOf, ZenonT(30)
    <2>3. 2 \in Register(s + 64) <=> 2 \in Register(s)
      BY <1>4, RegisterOf, ZenonT(30)
    <2>4. 3 \in Register(s + 64) <=> 3 \in Register(s)
      BY <1>5, RegisterOf, ZenonT(30)
    <2>5. 4 \in Register(s + 64) <=> 4 \in Register(s)
      BY <1>6, RegisterOf, ZenonT(30)
    <2>6. 5 \in Register(s + 64) <=> 5 \in Register(s)
      BY <1>7, RegisterOf, ZenonT(30)
    <2>7. \A b \in 0 .. 5 : b \in {0, 1, 2, 3, 4, 5}
      OBVIOUS
    <2>8. QED
      BY <2>1, <2>2, <2>3, <2>4, <2>5, <2>6, <2>7
  <1>10. Register(s) \subseteq 0 .. 6 /\ Register(s + 64) \subseteq 0 .. 6
    BY RegisterOf
  <1>11. QED
    BY <1>8, <1>9, <1>10

LEMMA PartnerRegister ==
  ASSUME NEW s \in 0 .. 63
  PROVE  /\ Partner(s) \in 0 .. 63
         /\ 0 \in Register(Partner(s)) <=> 0 \notin Register(s)
         /\ Register(Partner(s)) \ {0} = Register(s) \ {0}
  <1> DEFINE t == Partner(s)
             h == s \div 2
  <1>1. h \in 0 .. 31 /\ \/ s = 2 * h /\ t = 2 * h + 1
                         \/ s = 2 * h + 1 /\ t = 2 * h
    BY DEF Partner
  <1>2. t \in 0 .. 63 /\ t \div 2 = h
    BY <1>1
  <1>3. s \div 1 % 2 \in {0, 1} /\ t \div 1 % 2 = 1 - (s \div 1 % 2)
    BY <1>1
  <1>4. (t \div 4) % 2 = (s \div 4) % 2
    BY <1>1
  <1>5. (t \div 8) % 2 = (s \div 8) % 2
    BY <1>1
  <1>6. (t \div 16) % 2 = (s \div 16) % 2
    BY <1>1
  <1>7. (t \div 32) % 2 = (s \div 32) % 2
    BY <1>1
  <1>8. (t \div 64) % 2 = (s \div 64) % 2
    BY <1>1
  <1>9. 0 \in Register(t) <=> 0 \notin Register(s)
    <2>1. t \div 1 % 2 = 1 <=> ~(s \div 1 % 2 = 1)
      BY <1>3
    <2>2. QED
      BY <2>1, RegisterOf, Zenon
  <1>10. \A b \in 1 .. 6 : b \in Register(t) <=> b \in Register(s)
    <2>1. (t \div 2) % 2 = (s \div 2) % 2
      BY <1>2
    <2> HIDE DEF t, h
    <2>2. 1 \in Register(t) <=> 1 \in Register(s)
      BY <2>1, RegisterOf, ZenonT(30)
    <2>3. 2 \in Register(t) <=> 2 \in Register(s)
      BY <1>4, RegisterOf, ZenonT(30)
    <2>4. 3 \in Register(t) <=> 3 \in Register(s)
      BY <1>5, RegisterOf, ZenonT(30)
    <2>5. 4 \in Register(t) <=> 4 \in Register(s)
      BY <1>6, RegisterOf, ZenonT(30)
    <2>6. 5 \in Register(t) <=> 5 \in Register(s)
      BY <1>7, RegisterOf, ZenonT(30)
    <2>7. 6 \in Register(t) <=> 6 \in Register(s)
      BY <1>8, RegisterOf, ZenonT(30)
    <2>8. \A b \in 1 .. 6 : b \in {1, 2, 3, 4, 5, 6}
      OBVIOUS
    <2>9. QED
      BY <2>2, <2>3, <2>4, <2>5, <2>6, <2>7, <2>8
  <1>11. Register(s) \subseteq 0 .. 6 /\ Register(t) \subseteq 0 .. 6
    BY RegisterOf
  <1> HIDE DEF t, h
  <1>12. Register(t) \ {0} = Register(s) \ {0}
    BY <1>10, <1>11
  <1>13. QED
    BY <1>2, <1>9, <1>12 DEF t

\* One member more or less turns the parity.
LEMMA ParityTurns ==
  ASSUME NEW S, IsFiniteSet(S), NEW x, x \notin S
  PROVE  parity(S) \in {0, 1} /\ parity(S \cup {x}) = 1 - parity(S)
  <1>1. Cardinality(S) \in Nat /\ Cardinality(S \cup {x}) = Cardinality(S) + 1
    BY FS_AddElement, FS_CardinalityType
  <1>2. \A n \in Nat : n % 2 \in {0, 1} /\ (n + 1) % 2 = 1 - (n % 2)
    OBVIOUS
  <1>3. QED
    BY <1>1, <1>2 DEF parity

\* All four polynomials have the oldest bit and the newest.
LEMMA PolysHaveEnds ==
  ASSUME NEW j \in 1 .. 4
  PROVE  0 \in Polys[j] /\ 6 \in Polys[j]
  BY DEF Polys

LEMMA SmallSetsFinite ==
  \A S : S \subseteq 0 .. 6 => IsFiniteSet(S)
  <1>1. 0 \in Int /\ 6 \in Int
    OBVIOUS
  <1>2. IsFiniteSet(0 .. 6)
    BY <1>1, FS_Interval
  <1>3. QED
    BY <1>2, FS_Subset

LEMMA BranchOfPartner ==
  ASSUME NEW s \in 0 .. 63, NEW j \in 1 .. 4
  PROVE  parity(Register(s + 64) \cap Polys[j]) = parity(Register(Partner(s)) \cap Polys[j])
  <1> DEFINE P == Polys[j]
             A == Register(s) \cap P
             B == A \ {0}
  <1>1. 0 \in P /\ 6 \in P
    BY PolysHaveEnds
  <1>2. IsFiniteSet(A) /\ IsFiniteSet(B)
    <2>1. Register(s) \subseteq 0 .. 6
      BY RegisterOf
    <2>2. A \subseteq 0 .. 6 /\ B \subseteq 0 .. 6
      BY <2>1
    <2> HIDE DEF A, B
    <2>3. QED
      BY <2>2, SmallSetsFinite
  <1>3. 6 \notin A /\ Register(s + 64) \cap P = A \cup {6}
    BY <1>1, UpperRegister
  <1>4. parity(A) \in {0, 1} /\ parity(A \cup {6}) = 1 - parity(A)
    <2> HIDE DEF A
    <2>1. QED
      BY <1>2, <1>3, ParityTurns
  <1>5. parity(B) \in {0, 1} /\ parity(B \cup {0}) = 1 - parity(B)
    <2>1. 0 \notin B
      OBVIOUS
    <2> HIDE DEF B
    <2>2. QED
      BY <1>2, <2>1, ParityTurns
  <1>6. CASE 0 \in Register(s)
    <2>1. A = B \cup {0}
      BY <1>1, <1>6
    <2>2. Register(Partner(s)) \cap P = B
      BY <1>6, PartnerRegister
    <2> HIDE DEF A, B, P
    <2>3. parity(B) \in {0, 1} /\ parity(A) = 1 - parity(B) /\ parity(A \cup {6}) = 1 - parity(A)
      BY <1>4, <1>5, <2>1
    <2>4. parity(A \cup {6}) = parity(B)
      BY <2>3
    <2>5. QED
      BY <1>3, <2>2, <2>4 DEF P
  <1>7. CASE 0 \notin Register(s)
    <2>1. A = B
      BY <1>7
    <2>2. Register(Partner(s)) \cap P = B \cup {0}
      BY <1>1, <1>7, PartnerRegister
    <2> HIDE DEF A, B, P
    <2>3. parity(A \cup {6}) = parity(B \cup {0})
      BY <1>4, <1>5, <2>1
    <2>4. QED
      BY <1>3, <2>2, <2>3 DEF P
  <1>8. QED
    BY <1>6, <1>7

LEMMA BitOf ==
  ASSUME NEW i \in 0 .. 127, NEW j \in 1 .. 4
  PROVE  Bit(i, j) = IF parity(Register(i) \cap Polys[j]) = 1 THEN 1 ELSE 0
  <1>1. Syms[j] = Ones(j)
    BY DEF Syms
  <1>2. 2^K - 1 = 127
    BY Constants, Powers
  <1>3. i \in Ones(j) <=> parity(Register(i) \cap Polys[j]) = 1
    BY <1>2 DEF Ones
  <1>4. QED
    BY <1>1, <1>3 DEF Bit

\* The branch from the upper half into s has the bits of the branch from the lower half
\* into its partner, which is what k_viterbi adds.
LEMMA SharedBranch ==
  ASSUME NEW s \in 0 .. 63, NEW symbols
  PROVE  Branch(s + 64, symbols) = Branch(Partner(s), symbols)
  <1>1. ASSUME NEW j \in 1 .. 4 PROVE Bit(s + 64, j) = Bit(Partner(s), j)
    <2>1. s + 64 \in 0 .. 127 /\ Partner(s) \in 0 .. 127
      BY PartnerRegister
    <2>2. /\ Bit(s + 64, j) = IF parity(Register(s + 64) \cap Polys[j]) = 1 THEN 1 ELSE 0
          /\ Bit(Partner(s), j) = IF parity(Register(Partner(s)) \cap Polys[j]) = 1 THEN 1 ELSE 0
      BY <2>1, BitOf
    <2>3. parity(Register(s + 64) \cap Polys[j]) = parity(Register(Partner(s)) \cap Polys[j])
      BY BranchOfPartner
    <2>4. QED
      BY <2>2, <2>3
  <1>2. /\ Bit(s + 64, 1) = Bit(Partner(s), 1) /\ Bit(s + 64, 2) = Bit(Partner(s), 2)
        /\ Bit(s + 64, 3) = Bit(Partner(s), 3) /\ Bit(s + 64, 4) = Bit(Partner(s), 4)
    BY <1>1
  <1>3. QED
    BY <1>2 DEF Branch

-----------------------------------------------------------------------------
\* Counting bits

In(j, J) == IF j \in J THEN 1 ELSE 0
Column(p, J) == {<<p, j>> : j \in J}

\* One more pass of bits, of which those in J count.
LEMMA AddColumn ==
  ASSUME NEW A, IsFiniteSet(A), NEW p, NEW J, J \subseteq 1 .. 4,
         \A j \in 1 .. 4 : <<p, j>> \notin A
  PROVE  /\ IsFiniteSet(A \cup Column(p, J))
         /\ Cardinality(A \cup Column(p, J))
            = Cardinality(A) + (In(1, J) + In(2, J) + In(3, J) + In(4, J))
  <1> DEFINE Add(S, j) == IF j \in J THEN S \cup {<<p, j>>} ELSE S
             B == Add(A, 1)
             C == Add(B, 2)
             D == Add(C, 3)
             E == Add(D, 4)
  <1>1. ASSUME NEW S, IsFiniteSet(S), NEW j \in 1 .. 4, <<p, j>> \notin S
        PROVE  IsFiniteSet(Add(S, j)) /\ Cardinality(Add(S, j)) = Cardinality(S) + In(j, J)
    <2>1. CASE j \in J
      <3>1. IsFiniteSet(S \cup {<<p, j>>}) /\ Cardinality(S \cup {<<p, j>>}) = Cardinality(S) + 1
        BY <1>1, FS_AddElement
      <3>2. QED
        BY <2>1, <3>1 DEF In
    <2>2. CASE j \notin J
      <3>1. Cardinality(S) \in Nat
        BY <1>1, FS_CardinalityType
      <3>2. QED
        BY <1>1, <2>2, <3>1 DEF In
    <2>3. QED
      BY <2>1, <2>2
  <1>2. /\ <<p, 1>> \notin A /\ <<p, 2>> \notin B /\ <<p, 3>> \notin C /\ <<p, 4>> \notin D
    <2>1. \A i, j \in 1 .. 4 : i # j => <<p, i>> # <<p, j>>
      OBVIOUS
    <2>2. QED
      BY <2>1
  <1>3. E = A \cup Column(p, J)
    <2>1. \A j : j \in J => j \in {1, 2, 3, 4}
      OBVIOUS
    <2>2. Column(p, J) = {pl \in {<<p, 1>>, <<p, 2>>, <<p, 3>>, <<p, 4>>} : pl[2] \in J}
      BY <2>1 DEF Column
    <2>3. E = A \cup {pl \in {<<p, 1>>, <<p, 2>>, <<p, 3>>, <<p, 4>>} : pl[2] \in J}
      OBVIOUS
    <2>4. QED
      BY <2>2, <2>3
  <1> HIDE DEF Add
  <1>4. IsFiniteSet(B) /\ Cardinality(B) = Cardinality(A) + In(1, J)
    BY <1>1, <1>2
  <1>5. IsFiniteSet(C) /\ Cardinality(C) = Cardinality(B) + In(2, J)
    <2> HIDE DEF B
    <2>1. QED
      BY <1>1, <1>2, <1>4
  <1>6. IsFiniteSet(D) /\ Cardinality(D) = Cardinality(C) + In(3, J)
    <2> HIDE DEF C
    <2>1. QED
      BY <1>1, <1>2, <1>5
  <1>7. IsFiniteSet(E) /\ Cardinality(E) = Cardinality(D) + In(4, J)
    <2> HIDE DEF D
    <2>1. QED
      BY <1>1, <1>2, <1>6
  <1>8. Cardinality(A) \in Nat
    BY FS_CardinalityType
  <1> HIDE DEF B, C, D, E
  <1>9. QED
    BY <1>3, <1>4, <1>5, <1>6, <1>7, <1>8 DEF In

KeptAt(v, p) == {j \in 1 .. 4 : Kept(v, p, j)}
WrongAt(v, R, x, p) == {j \in KeptAt(v, p) : ~(<<p, j>> \in R <=> Encoded(x, p, j) = 1)}

LEMMA SentGrows ==
  ASSUME NEW v, NEW p \in Nat
  PROVE  /\ SentBefore(v, p + 1) = SentBefore(v, p) \cup Column(p, KeptAt(v, p))
         /\ \A j \in 1 .. 4 : <<p, j>> \notin SentBefore(v, p)
  <1>1. N = 4 /\ (p + 1) - 1 = p
    BY Constants
  <1>2. \A q, j : <<q, j>> \in SentBefore(v, p) <=>
                    q \in 0 .. p - 1 /\ j \in 1 .. 4 /\ Kept(v, q, j)
    BY <1>1 DEF SentBefore
  <1>3. \A q, j : <<q, j>> \in SentBefore(v, p + 1) <=>
                    q \in 0 .. p /\ j \in 1 .. 4 /\ Kept(v, q, j)
    BY <1>1 DEF SentBefore
  <1>4. \A q, j : <<q, j>> \in Column(p, KeptAt(v, p)) <=> q = p /\ j \in 1 .. 4 /\ Kept(v, p, j)
    BY DEF Column, KeptAt
  <1>5. \A q : q \in 0 .. p <=> q \in 0 .. p - 1 \/ q = p
    OBVIOUS
  <1>6. \A q, j : <<q, j>> \in SentBefore(v, p + 1) <=>
                    <<q, j>> \in SentBefore(v, p) \/ <<q, j>> \in Column(p, KeptAt(v, p))
    <2> SUFFICES ASSUME NEW q, NEW j
                 PROVE  <<q, j>> \in SentBefore(v, p + 1) <=>
                          <<q, j>> \in SentBefore(v, p) \/ <<q, j>> \in Column(p, KeptAt(v, p))
      OBVIOUS
    <2>1. CASE q = p
      BY <2>1, <1>2, <1>3, <1>4, <1>5
    <2>2. CASE q # p
      BY <2>2, <1>2, <1>3, <1>4, <1>5
    <2>3. QED
      BY <2>1, <2>2
  <1>7. \A pl \in SentBefore(v, p + 1) \cup SentBefore(v, p) \cup Column(p, KeptAt(v, p)) :
          \E q, j : pl = <<q, j>>
    BY DEF SentBefore, Column
  <1>8. p \notin 0 .. p - 1
    OBVIOUS
  <1>9. \A j \in 1 .. 4 : <<p, j>> \notin SentBefore(v, p)
    BY <1>2, <1>8
  <1>10. SentBefore(v, p + 1) = SentBefore(v, p) \cup Column(p, KeptAt(v, p))
    BY <1>6, <1>7
  <1>11. QED
    BY <1>9, <1>10

LEMMA WrongGrows ==
  ASSUME NEW v, NEW R, NEW x, NEW p \in Nat
  PROVE  WrongBefore(v, R, x, p + 1) = WrongBefore(v, R, x, p) \cup Column(p, WrongAt(v, R, x, p))
  <1> DEFINE bad(pl) == ~(pl \in R <=> Encoded(x, pl[1], pl[2]) = 1)
  <1>1. SentBefore(v, p + 1) = SentBefore(v, p) \cup Column(p, KeptAt(v, p))
    BY SentGrows
  <1>2. {pl \in Column(p, KeptAt(v, p)) : bad(pl)} = Column(p, WrongAt(v, R, x, p))
    <2>1. \A j : bad(<<p, j>>) <=> ~(<<p, j>> \in R <=> Encoded(x, p, j) = 1)
      OBVIOUS
    <2> HIDE DEF bad
    <2>2. QED
      BY <2>1 DEF Column, WrongAt
  <1>3. \A S, T : {pl \in S \cup T : bad(pl)} = {pl \in S : bad(pl)} \cup {pl \in T : bad(pl)}
    OBVIOUS
  <1>4. QED
    BY <1>1, <1>2, <1>3 DEF WrongBefore

LEMMA SentFinite ==
  ASSUME NEW v, NEW p \in Int
  PROVE  IsFiniteSet(SentBefore(v, p)) /\ Cardinality(SentBefore(v, p)) \in Nat
  <1>1. IsFiniteSet(0 .. p - 1) /\ IsFiniteSet(1 .. N)
    <2>1. 0 \in Int /\ p - 1 \in Int /\ 1 \in Int /\ N \in Int
      BY Constants
    <2>2. QED
      BY <2>1, FS_Interval
  <1>2. IsFiniteSet((0 .. p - 1) \X (1 .. N))
    BY <1>1, FS_Product
  <1>3. SentBefore(v, p) \subseteq (0 .. p - 1) \X (1 .. N)
    BY DEF SentBefore
  <1>4. IsFiniteSet(SentBefore(v, p))
    BY <1>2, <1>3, FS_Subset
  <1>5. QED
    BY <1>4, FS_CardinalityType

LEMMA WrongFinite ==
  ASSUME NEW v, NEW R, NEW x, NEW p \in Int
  PROVE  /\ WrongBefore(v, R, x, p) \subseteq SentBefore(v, p)
         /\ IsFiniteSet(WrongBefore(v, R, x, p)) /\ Cardinality(WrongBefore(v, R, x, p)) \in Nat
  <1>1. WrongBefore(v, R, x, p) \subseteq SentBefore(v, p)
    BY DEF WrongBefore
  <1>2. IsFiniteSet(WrongBefore(v, R, x, p))
    BY <1>1, SentFinite, FS_Subset
  <1>3. QED
    BY <1>1, <1>2, FS_CardinalityType

\* What is received at pass p, if R has the places of the ones.
Heard(v, R, p, symbols) ==
    \A j \in 1 .. 4 : symbols[j] = IF ~Kept(v, p, j) THEN Erased ELSE IF <<p, j>> \in R THEN 1 ELSE 0

\* The branch metric is what the pass adds to the fit.
LEMMA FitGrows ==
  ASSUME NEW v, NEW R, NEW x, NEW p \in Nat, NEW symbols, Heard(v, R, p, symbols)
  PROVE  /\ Fit(v, R, x, p) \in Int
         /\ Branch(encstate(x, p), symbols) \in Int
         /\ Fit(v, R, x, p + 1) = Fit(v, R, x, p) + Branch(encstate(x, p), symbols)
  <1> DEFINE A == SentBefore(v, p)
             B == WrongBefore(v, R, x, p)
             J == KeptAt(v, p)
             W == WrongAt(v, R, x, p)
             m(j) == mettab(Bit(encstate(x, p), j), symbols[j])
  <1>1. J \subseteq 1 .. 4 /\ W \subseteq 1 .. 4
    BY DEF KeptAt, WrongAt
  <1>2. /\ IsFiniteSet(A) /\ Cardinality(A) \in Nat /\ B \subseteq A
        /\ IsFiniteSet(B) /\ Cardinality(B) \in Nat
    BY SentFinite, WrongFinite
  <1>3. /\ SentBefore(v, p + 1) = A \cup Column(p, J)
        /\ WrongBefore(v, R, x, p + 1) = B \cup Column(p, W)
        /\ \A j \in 1 .. 4 : <<p, j>> \notin A
    BY SentGrows, WrongGrows
  <1>4. \A j \in 1 .. 4 : m(j) = 3 * In(j, J) - 10 * In(j, W)
    <2> SUFFICES ASSUME NEW j \in 1 .. 4 PROVE m(j) = 3 * In(j, J) - 10 * In(j, W)
      OBVIOUS
    <2> DEFINE b == Bit(encstate(x, p), j)
    <2>1. b \in {0, 1}
      BY DEF Bit
    <2>2. symbols[j] = IF ~Kept(v, p, j) THEN 8 ELSE IF <<p, j>> \in R THEN 1 ELSE 0
      BY DEF Heard, Erased
    <2>3. j \in J <=> Kept(v, p, j)
      BY DEF KeptAt
    <2>4. j \in W <=> Kept(v, p, j) /\ ~(<<p, j>> \in R <=> b = 1)
      BY <2>3 DEF WrongAt, Encoded
    <2> HIDE DEF b, J, W
    <2>5. mettab(b, symbols[j]) = 3 * In(j, J) - 10 * In(j, W)
      BY <2>1, <2>2, <2>3, <2>4 DEF mettab, Erased, In
    <2>6. QED
      BY <2>5 DEF b
  <1>5. Branch(encstate(x, p), symbols) = m(1) + m(2) + m(3) + m(4)
    BY DEF Branch
  <1> HIDE DEF A, B, J, W, m
  <1>6. Cardinality(A \cup Column(p, J)) = Cardinality(A) + (In(1, J) + In(2, J) + In(3, J) + In(4, J))
    BY <1>1, <1>2, <1>3, AddColumn
  <1>7. Cardinality(B \cup Column(p, W)) = Cardinality(B) + (In(1, W) + In(2, W) + In(3, W) + In(4, W))
    BY <1>1, <1>2, <1>3, AddColumn
  <1>8. \A j, S : In(j, S) \in Int
    BY DEF In
  <1>9. Fit(v, R, x, p) = 3 * Cardinality(A) - 10 * Cardinality(B)
    BY DEF Fit, A, B
  <1>10. Fit(v, R, x, p + 1) = 3 * Cardinality(A \cup Column(p, J)) - 10 * Cardinality(B \cup Column(p, W))
    BY <1>3 DEF Fit
  <1>11. /\ m(1) = 3 * In(1, J) - 10 * In(1, W) /\ m(2) = 3 * In(2, J) - 10 * In(2, W)
         /\ m(3) = 3 * In(3, J) - 10 * In(3, W) /\ m(4) = 3 * In(4, J) - 10 * In(4, W)
    BY <1>4
  <1>12. QED
    BY <1>2, <1>5, <1>6, <1>7, <1>8, <1>9, <1>10, <1>11

-----------------------------------------------------------------------------
\* Paths

\* The fit depends on the inputs and on what was received in the passes done.
LEMMA FitLocal ==
  ASSUME NEW v, NEW R, NEW S, NEW x, NEW y, NEW p \in Int,
         \A i \in Int : i < p => Input(x, i) = Input(y, i),
         \A pl \in SentBefore(v, p) : pl \in R <=> pl \in S
  PROVE  Fit(v, R, x, p) = Fit(v, S, y, p)
  <1>1. ASSUME NEW pl \in SentBefore(v, p)
        PROVE  Encoded(x, pl[1], pl[2]) = Encoded(y, pl[1], pl[2])
    <2>1. pl[1] \in Int /\ pl[1] < p
      BY DEF SentBefore
    <2>2. \A i \in Int : i >= pl[1] - 6 /\ i <= pl[1] => Input(x, i) = Input(y, i)
      BY <2>1
    <2>3. encstate(x, pl[1]) = encstate(y, pl[1])
      BY <2>1, <2>2, SameRegister
    <2>4. QED
      BY <2>3 DEF Encoded
  <1>2. WrongBefore(v, R, x, p) = WrongBefore(v, S, y, p)
    BY <1>1 DEF WrongBefore
  <1>3. QED
    BY <1>2 DEF Fit

\* Paths of the same input from two states run together after six passes; until then
\* they give at most 24 bits, on which the one may fit better by 240.
LEMMA PathsMerge ==
  ASSUME NEW v, NEW R, NEW x, NEW y, NEW p \in Int,
         \A i \in Int : 0 <= i /\ i < p => Input(x, i) = Input(y, i)
  PROVE  Fit(v, R, x, p) <= Fit(v, R, y, p) + 240
  <1> DEFINE A == WrongBefore(v, R, x, p)
             B == WrongBefore(v, R, y, p)
             C == (0 .. 5) \X (1 .. 4)
  <1>1. /\ IsFiniteSet(A) /\ Cardinality(A) \in Nat /\ IsFiniteSet(B) /\ Cardinality(B) \in Nat
        /\ Cardinality(SentBefore(v, p)) \in Nat
    BY SentFinite, WrongFinite
  <1>2. IsFiniteSet(C) /\ Cardinality(C) = 24
    <2>1. 0 \in Int /\ 5 \in Int /\ 1 \in Int /\ 4 \in Int
      OBVIOUS
    <2>2. /\ IsFiniteSet(0 .. 5) /\ IsFiniteSet(1 .. 4)
          /\ Cardinality(0 .. 5) = 6 /\ Cardinality(1 .. 4) = 4
      <3> HIDE DEF C
      <3>1. IsFiniteSet(0 .. 5) /\ Cardinality(0 .. 5) = IF 0 > 5 THEN 0 ELSE 5 - 0 + 1
        BY <2>1, FS_Interval
      <3>2. IsFiniteSet(1 .. 4) /\ Cardinality(1 .. 4) = IF 1 > 4 THEN 0 ELSE 4 - 1 + 1
        BY <2>1, FS_Interval
      <3>3. QED
        BY <3>1, <3>2
    <2>3. IsFiniteSet(C) /\ Cardinality(C) = Cardinality(0 .. 5) * Cardinality(1 .. 4)
      BY <2>2, FS_Product
    <2>4. QED
      BY <2>2, <2>3
  <1>3. B \subseteq A \cup C
    <2> SUFFICES ASSUME NEW pl \in B, pl \notin C PROVE pl \in A
      OBVIOUS
    <2>1. N = 4
      BY Constants
    <2>2. pl \in SentBefore(v, p) /\ ~(pl \in R <=> Encoded(y, pl[1], pl[2]) = 1)
      BY DEF WrongBefore
    <2>3. pl[1] \in Int /\ 0 <= pl[1] /\ pl[1] < p /\ pl[1] \notin 0 .. 5
      BY <2>1, <2>2 DEF SentBefore
    <2>4. \A i \in Int : i >= pl[1] - 6 /\ i <= pl[1] => Input(x, i) = Input(y, i)
      BY <2>3
    <2>5. encstate(x, pl[1]) = encstate(y, pl[1])
      BY <2>3, <2>4, SameRegister
    <2>6. QED
      BY <2>2, <2>5 DEF WrongBefore, Encoded
  <1> HIDE DEF A, B, C
  <1>4. IsFiniteSet(A \cup C) /\ Cardinality(A \cup C) <= Cardinality(A) + 24
    <2>1. IsFiniteSet(A \cup C)
          /\ Cardinality(A \cup C) = Cardinality(A) + Cardinality(C) - Cardinality(A \cap C)
      BY <1>1, <1>2, FS_Union
    <2>2. IsFiniteSet(A \cap C)
      BY <1>1, FS_Intersection
    <2>3. Cardinality(A \cap C) \in Nat
      BY <2>2, FS_CardinalityType
    <2>4. QED
      BY <1>1, <1>2, <2>1, <2>3
  <1>5. Cardinality(B) <= Cardinality(A \cup C) /\ Cardinality(A \cup C) \in Nat
    BY <1>3, <1>4, FS_Subset, FS_CardinalityType
  <1>6. QED
    BY <1>1, <1>4, <1>5 DEF Fit, A, B

Extended(x, p, b) == [i \in -6 .. p |-> IF i = p THEN b ELSE x[i]]

LEMMA ExtendPath ==
  ASSUME NEW p \in Nat, NEW x \in Inputs(p), NEW b \in {0, 1}
  PROVE  /\ Extended(x, p, b) \in Inputs(p + 1)
         /\ \A i \in Int : i < p => Input(Extended(x, p, b), i) = Input(x, i)
         /\ Input(Extended(x, p, b), p) = b
  <1>1. (p + 1) - 1 = p
    OBVIOUS
  <1>2. Extended(x, p, b) \in [-6 .. p -> {0, 1}]
    <2>1. ASSUME NEW i \in -6 .. p, i # p PROVE x[i] \in {0, 1}
      <3>1. i \in -6 .. p - 1
        BY <2>1
      <3>2. QED
        BY <3>1 DEF Inputs
    <2>2. QED
      BY <2>1 DEF Extended
  <1>3. DOMAIN x = -6 .. p - 1 /\ DOMAIN Extended(x, p, b) = -6 .. p
    BY DEF Inputs, Extended
  <1>4. ASSUME NEW i \in Int, i < p PROVE Input(Extended(x, p, b), i) = Input(x, i)
    <2>1. i \in -6 .. p <=> i \in -6 .. p - 1
      BY <1>4
    <2>2. CASE i \in -6 .. p
      BY <1>3, <1>4, <2>1, <2>2 DEF Input, Extended
    <2>3. CASE i \notin -6 .. p
      BY <1>3, <2>1, <2>3 DEF Input
    <2>4. QED
      BY <2>2, <2>3
  <1>5. Input(Extended(x, p, b), p) = b
    BY <1>3 DEF Input, Extended
  <1>6. QED
    BY <1>1, <1>2, <1>4, <1>5 DEF Inputs

LEMMA PathBits ==
  ASSUME NEW p \in Nat, NEW x \in Inputs(p)
  PROVE  Bits(x)
  <1>1. -6 \in Int /\ p - 1 \in Int
    OBVIOUS
  <1>2. QED
    BY <1>1, InputBits DEF Inputs

\* There is a path from every state.
LEMMA PathFrom ==
  ASSUME NEW s \in 0 .. 63
  PROVE  \E x \in Inputs(0) : StateOf(x, 0) = s
  <1> DEFINE x == [i \in -6 .. -1 |-> CASE i = -1 -> s % 2
                                        [] i = -2 -> (s \div 2) % 2
                                        [] i = -3 -> (s \div 4) % 2
                                        [] i = -4 -> (s \div 8) % 2
                                        [] i = -5 -> (s \div 16) % 2
                                        [] i = -6 -> (s \div 32) % 2]
  <1>1. /\ s % 2 \in {0, 1} /\ (s \div 2) % 2 \in {0, 1} /\ (s \div 4) % 2 \in {0, 1}
        /\ (s \div 8) % 2 \in {0, 1} /\ (s \div 16) % 2 \in {0, 1} /\ (s \div 32) % 2 \in {0, 1}
    OBVIOUS
  <1>2. \A i \in -6 .. -1 : i \in {-1, -2, -3, -4, -5, -6}
    OBVIOUS
  <1>3. /\ x[-1] = s % 2 /\ x[-2] = (s \div 2) % 2 /\ x[-3] = (s \div 4) % 2
        /\ x[-4] = (s \div 8) % 2 /\ x[-5] = (s \div 16) % 2 /\ x[-6] = (s \div 32) % 2
        /\ DOMAIN x = -6 .. -1
    OBVIOUS
  <1>4. \A i \in -6 .. -1 : x[i] \in {0, 1}
    <2> HIDE DEF x
    <2>1. QED
      BY <1>1, <1>2, <1>3
  <1>5. x \in Inputs(0)
    <2>1. x = [i \in -6 .. -1 |-> x[i]]
      OBVIOUS
    <2>2. 0 - 1 = -1
      OBVIOUS
    <2> HIDE DEF x
    <2>3. QED
      BY <1>4, <2>1, <2>2 DEF Inputs
  <1>6. s = (s % 2) + 2 * ((s \div 2) % 2) + 4 * ((s \div 4) % 2) + 8 * ((s \div 8) % 2)
            + 16 * ((s \div 16) % 2) + 32 * ((s \div 32) % 2)
    OBVIOUS
  <1> HIDE DEF x
  <1>7. /\ Input(x, -1) = x[-1] /\ Input(x, -2) = x[-2] /\ Input(x, -3) = x[-3]
        /\ Input(x, -4) = x[-4] /\ Input(x, -5) = x[-5] /\ Input(x, -6) = x[-6]
    BY <1>3 DEF Input
  <1>8. StateOf(x, 0) = s
    <2>1. 0 - 1 = -1 /\ 0 - 2 = -2 /\ 0 - 3 = -3 /\ 0 - 4 = -4 /\ 0 - 5 = -5 /\ 0 - 6 = -6
      OBVIOUS
    <2>2. StateOf(x, 0) = Input(x, -1) + 2 * Input(x, -2) + 4 * Input(x, -3)
                 + 8 * Input(x, -4) + 16 * Input(x, -5) + 32 * Input(x, -6)
      BY <2>1 DEF StateOf
    <2>3. QED
      BY <1>3, <1>6, <1>7, <2>2
  <1>9. QED
    BY <1>5, <1>8

\* The chaining back follows the decisions: along a path they were made on, that ends in
\* state 0 after the last pass, it reads the input.
LEMMA ChainBackReads ==
  ASSUME NEW ps, NEW x \in Inputs(Steps47), StateOf(x, Steps47) = 0, Decided(ps, x, Steps47)
  PROVE  /\ ChainBack(ps) = [i \in 0 .. NBits - 1 |-> x[i]]
         /\ \A i \in 0 .. NBits - 1 : x[i] \in {0, 1}
  <1> DEFINE F(e) == [i \in 0 .. NBits |->
                       IF i = NBits THEN 0
                       ELSE (e[i + 1] + IF e[i + 1] \in ps[i + K] THEN 2^(K - 1) ELSE 0) \div 2]
             end == CHOOSE e : e = F(e)
             g == [i \in 0 .. NBits |-> StateOf(x, i + 6)]
  <1>0. K = 7 /\ 2^(K - 1) = 64
    <2>1. K = 7 /\ K - 1 = 6
      BY Constants
    <2>2. QED
      BY <2>1, Powers
  <1>1. ChainBack(ps) = [i \in 0 .. NBits - 1 |-> IF end[i + 1] \in ps[i + 7] THEN 1 ELSE 0]
    <2>1. ChainBack(ps) = [i \in 0 .. NBits - 1 |-> IF end[i + 1] \in ps[i + K] THEN 1 ELSE 0]
      BY DEF ChainBack
    <2> HIDE DEF end
    <2>2. QED
      BY <1>0, <2>1
  <1>2. NBits \in Nat /\ Steps47 = NBits + 6 /\ Steps47 \in Nat /\ Bits(x)
    BY NBitsAssumption, Constants, PathBits
  <1>3. \A i \in 0 .. NBits - 1 :
           /\ StateOf(x, i + 7) \in ps[i + 7] <=> Input(x, i) = 1
           /\ StateOf(x, i + 6) = StateOf(x, i + 7) \div 2 + 32 * Input(x, i)
           /\ StateOf(x, i + 7) \in 0 .. 63
           /\ Input(x, i) \in {0, 1}
    <2> SUFFICES ASSUME NEW i \in 0 .. NBits - 1
                 PROVE  /\ StateOf(x, i + 7) \in ps[i + 7] <=> Input(x, i) = 1
                        /\ StateOf(x, i + 6) = StateOf(x, i + 7) \div 2 + 32 * Input(x, i)
                        /\ StateOf(x, i + 7) \in 0 .. 63
                        /\ Input(x, i) \in {0, 1}
      OBVIOUS
    <2>1. i + 6 \in 0 .. Steps47 - 1 /\ i + 6 \in Int /\ (i + 6) + 1 = i + 7 /\ (i + 6) - 6 = i /\ i \in Int
      BY <1>2
    <2>2. StateOf(x, i + 7) \in ps[i + 7] <=> Input(x, i) = 1
      BY <2>1 DEF Decided
    <2>3. StateOf(x, i + 6) = StateOf(x, i + 7) \div 2 + 32 * Input(x, i) /\ StateOf(x, i + 7) \in 0 .. 63
      BY <1>2, <2>1, Predecessor
    <2>4. Input(x, i) \in {0, 1}
      BY <1>2, <2>1 DEF Bits
    <2>5. QED
      BY <2>2, <2>3, <2>4
  <1>4. \A i \in 0 .. NBits - 1 :
          (StateOf(x, i + 7) + IF StateOf(x, i + 7) \in ps[i + 7] THEN 64 ELSE 0) \div 2 = StateOf(x, i + 6)
    <2> SUFFICES ASSUME NEW i \in 0 .. NBits - 1
                 PROVE  (StateOf(x, i + 7) + IF StateOf(x, i + 7) \in ps[i + 7] THEN 64 ELSE 0) \div 2
                        = StateOf(x, i + 6)
      OBVIOUS
    <2>1. CASE Input(x, i) = 1
      <3>1. StateOf(x, i + 7) \in ps[i + 7] /\ StateOf(x, i + 6) = StateOf(x, i + 7) \div 2 + 32
        BY <1>3, <2>1
      <3>2. \A s \in 0 .. 63 : (s + 64) \div 2 = s \div 2 + 32
        OBVIOUS
      <3>3. QED
        BY <1>3, <3>1, <3>2
    <2>2. CASE Input(x, i) = 0
      <3>1. StateOf(x, i + 7) \notin ps[i + 7] /\ StateOf(x, i + 6) = StateOf(x, i + 7) \div 2
        <4>1. StateOf(x, i + 7) \div 2 \in Int
          BY <1>3
        <4>2. QED
          BY <1>3, <2>2, <4>1
      <3>2. StateOf(x, i + 7) + 0 = StateOf(x, i + 7)
        BY <1>3
      <3>3. QED
        BY <3>1, <3>2
    <2>3. QED
      BY <1>3, <2>1, <2>2
  <1>5. g = F(g)
    <2>1. \A i \in 0 .. NBits - 1 : i + 1 \in 0 .. NBits /\ (i + 1) + 6 = i + 7
      BY <1>2
    <2>2. \A i \in 0 .. NBits - 1 : g[i + 1] = StateOf(x, i + 7)
      BY <2>1
    <2>3. \A i \in 0 .. NBits : i = NBits \/ i \in 0 .. NBits - 1
      BY <1>2
    <2>4. \A i \in 0 .. NBits : g[i] = F(g)[i]
      <3> SUFFICES ASSUME NEW i \in 0 .. NBits PROVE g[i] = F(g)[i]
        OBVIOUS
      <3>1. CASE i = NBits
        BY <1>2, <3>1
      <3>2. CASE i \in 0 .. NBits - 1
        <4>1. i # NBits
          BY <1>2, <3>2
        <4>2. F(g)[i] = (g[i + 1] + IF g[i + 1] \in ps[i + 7] THEN 64 ELSE 0) \div 2
          BY <1>0, <4>1
        <4>3. g[i] = StateOf(x, i + 6)
          OBVIOUS
        <4> HIDE DEF g, F
        <4>4. QED
          BY <1>4, <2>2, <3>2, <4>2, <4>3
      <3>3. QED
        BY <2>3, <3>1, <3>2
    <2>5. QED
      BY <2>4
  <1>6. end = F(end)
    <2> HIDE DEF g, F
    <2>1. QED
      BY <1>5
  <1>7. \A i \in 0 .. NBits : end[i] = g[i]
    <2> DEFINE T == {k \in 0 .. NBits : end[NBits - k] # g[NBits - k]}
    <2>1. T = {}
      <3> SUFFICES ASSUME T # {} PROVE FALSE
        OBVIOUS
      <3>1. T \subseteq Nat
        OBVIOUS
      <3>2. PICK k \in T : \A l \in T : k <= l
        <4> HIDE DEF T
        <4>1. QED
          BY <3>1, NatMin
      <3>3. k \in 0 .. NBits /\ end[NBits - k] # g[NBits - k]
        BY <3>2
      <3>4. CASE k = 0
        <4>1. NBits - k = NBits /\ NBits \in 0 .. NBits
          BY <1>2, <3>4
        <4>2. F(end)[NBits] = 0 /\ F(g)[NBits] = 0
          BY <4>1
        <4> HIDE DEF F, end, g
        <4>3. QED
          BY <1>5, <1>6, <3>3, <4>1, <4>2
      <3>5. CASE k # 0
        <4> DEFINE i == NBits - k
        <4>1. i \in 0 .. NBits - 1 /\ i # NBits /\ i \in 0 .. NBits /\ i + 1 = NBits - (k - 1) /\ k - 1 \in 0 .. NBits
          BY <1>2, <3>3, <3>5
        <4>2. k - 1 \notin T
          <5>1. ~(k <= k - 1)
            BY <3>3
          <5> HIDE DEF T
          <5>2. QED
            BY <3>2, <5>1
        <4>3. end[i + 1] = g[i + 1]
          BY <4>1, <4>2
        <4>4. F(end)[i] = (end[i + 1] + IF end[i + 1] \in ps[i + 7] THEN 64 ELSE 0) \div 2
          <5> HIDE DEF end, i
          <5>1. QED
            BY <1>0, <4>1
        <4>5. F(g)[i] = (g[i + 1] + IF g[i + 1] \in ps[i + 7] THEN 64 ELSE 0) \div 2
          <5> HIDE DEF g, i
          <5>1. QED
            BY <1>0, <4>1
        <4>6. end[i] # g[i]
          BY <3>3
        <4> HIDE DEF F, end, g, i
        <4>7. QED
          BY <1>5, <1>6, <4>3, <4>4, <4>5, <4>6
      <3>6. QED
        BY <3>4, <3>5
    <2>2. ASSUME NEW i \in 0 .. NBits PROVE end[i] = g[i]
      <3>1. NBits - i \in 0 .. NBits /\ NBits - (NBits - i) = i
        BY <1>2
      <3> HIDE DEF end, g
      <3>2. QED
        BY <2>1, <3>1
    <2>3. QED
      BY <2>2
  <1>8. \A i \in 0 .. NBits - 1 : x[i] = Input(x, i) /\ x[i] \in {0, 1}
    <2>1. DOMAIN x = -6 .. Steps47 - 1
      BY DEF Inputs
    <2>2. \A i \in 0 .. NBits - 1 : i \in -6 .. Steps47 - 1
      BY <1>2
    <2>3. \A i \in 0 .. NBits - 1 : x[i] = Input(x, i)
      BY <2>1, <2>2 DEF Input
    <2>4. QED
      BY <1>3, <2>3
  <1>9. ASSUME NEW i \in 0 .. NBits - 1
        PROVE  (IF end[i + 1] \in ps[i + 7] THEN 1 ELSE 0) = x[i]
    <2>1. i + 1 \in 0 .. NBits /\ (i + 1) + 6 = i + 7
      BY <1>2
    <2>2. g[i + 1] = StateOf(x, i + 7)
      BY <2>1
    <2> HIDE DEF end, g
    <2>3. end[i + 1] = StateOf(x, i + 7)
      BY <1>7, <2>1, <2>2
    <2>4. QED
      BY <1>3, <1>8, <2>3
  <1> HIDE DEF end
  <1>10. [i \in 0 .. NBits - 1 |-> IF end[i + 1] \in ps[i + 7] THEN 1 ELSE 0]
           = [i \in 0 .. NBits - 1 |-> x[i]]
    BY <1>9
  <1>11. QED
    BY <1>1, <1>8, <1>10

-----------------------------------------------------------------------------
\* One pass of the decoder

\* Into every state there is a path with the metric the decoder keeps and its decisions,
\* and no path has a better one.
Survives(v, R, cm, ps, p, x) ==
    /\ Value(v, R, x, p) = cm[StateOf(x, p)]
    /\ Decided(ps, x, p)
Survivors(v, R, cm, ps, p) ==
    \A s \in 0 .. 63 : \E x \in Inputs(p) : StateOf(x, p) = s /\ Survives(v, R, cm, ps, p, x)
Best(v, R, cm, p) == \A x \in Inputs(p) : Value(v, R, x, p) <= cm[StateOf(x, p)]

LEMMA MaxOfTwo ==
  ASSUME NEW a \in Int, NEW b \in Int
  PROVE  Max({a, b}) = IF a > b THEN a ELSE b
  <1> DEFINE m == IF a > b THEN a ELSE b
  <1>1. m \in {a, b} /\ (\A y \in {a, b} : m >= y)
    OBVIOUS
  <1>2. \A n \in {a, b} : (\A y \in {a, b} : n >= y) => n = m
    OBVIOUS
  <1> HIDE DEF m
  <1>3. Max({a, b}) \in {a, b} /\ (\A y \in {a, b} : Max({a, b}) >= y)
    BY <1>1 DEF Max
  <1>4. Max({a, b}) = m
    BY <1>2, <1>3
  <1>5. QED
    BY <1>4 DEF m

LEMMA BranchInt ==
  ASSUME NEW i, NEW symbols
  PROVE  Branch(i, symbols) \in Int
  <1>1. \A b, r : mettab(b, r) \in Int
    BY DEF mettab
  <1>2. QED
    BY <1>1 DEF Branch

LEMMA ArrivalsInt ==
  ASSUME NEW cm \in [States -> Int], NEW symbols, NEW s \in 0 .. 63
  PROVE  /\ Lower(cm, symbols, s) = cm[s \div 2] + Branch(s, symbols)
         /\ Upper(cm, symbols, s) = cm[s \div 2 + 32] + Branch(s + 64, symbols)
         /\ Lower(cm, symbols, s) \in Int /\ Upper(cm, symbols, s) \in Int
         /\ s \div 2 \in 0 .. 63 /\ s \div 2 + 32 \in 0 .. 63
  <1>1. s \div 2 \in 0 .. 63 /\ s \div 2 + 32 \in 0 .. 63
    OBVIOUS
  <1>2. cm[s \div 2] \in Int /\ cm[s \div 2 + 32] \in Int
    BY <1>1, Constants
  <1>3. 2^(K - 2) = 32
    <2>1. K - 2 = 5
      BY Constants
    <2>2. QED
      BY <2>1, Powers
  <1>4. Upper(cm, symbols, s) = cm[s \div 2 + 32] + Branch(s + 64, symbols)
    BY <1>3, SharedBranch DEF Upper
  <1>5. Lower(cm, symbols, s) = cm[s \div 2] + Branch(s, symbols)
    BY DEF Lower
  <1>6. Branch(s, symbols) \in Int /\ Branch(s + 64, symbols) \in Int
    BY BranchInt
  <1>7. QED
    BY <1>1, <1>2, <1>4, <1>5, <1>6

\* A path arrives by the branch of its register.
LEMMA Arrives ==
  ASSUME NEW cm \in [States -> Int], NEW symbols, NEW p \in Int, NEW x, Bits(x)
  PROVE  LET s == StateOf(x, p + 1)
             reached == cm[StateOf(x, p)] + Branch(encstate(x, p), symbols)
         IN  /\ Input(x, p - 6) = 0 => Lower(cm, symbols, s) = reached
             /\ Input(x, p - 6) = 1 => Upper(cm, symbols, s) = reached
  <1> DEFINE s == StateOf(x, p + 1)
             t == StateOf(x, p)
             e == encstate(x, p)
             d == Input(x, p - 6)
  <1>1. s \in 0 .. 63 /\ t = s \div 2 + 32 * d /\ e = 64 * d + s
    BY Predecessor, RegisterShifts
  <1>2. CASE d = 0
    <2>1. t = s \div 2 /\ e = s
      BY <1>1, <1>2
    <2>2. Lower(cm, symbols, s) = cm[s \div 2] + Branch(s, symbols)
      BY <1>1, ArrivalsInt
    <2> HIDE DEF s, t, e, d
    <2>3. Lower(cm, symbols, s) = cm[t] + Branch(e, symbols) /\ d # 1
      BY <1>2, <2>1, <2>2
    <2>4. QED
      BY <2>3 DEF s, t, e, d
  <1>3. CASE d = 1
    <2>1. t = s \div 2 + 32 /\ e = s + 64
      BY <1>1, <1>3
    <2>2. Upper(cm, symbols, s) = cm[s \div 2 + 32] + Branch(s + 64, symbols)
      BY <1>1, ArrivalsInt
    <2> HIDE DEF s, t, e, d
    <2>3. Upper(cm, symbols, s) = cm[t] + Branch(e, symbols) /\ d # 0
      BY <1>3, <2>1, <2>2
    <2>4. QED
      BY <2>3 DEF s, t, e, d
  <1>4. d \in {0, 1}
    BY RegisterShifts
  <1>5. QED
    BY <1>2, <1>3, <1>4

Chosen(cm, symbols) == {s \in States : Upper(cm, symbols, s) > Lower(cm, symbols, s)}
NextMetric(cm, symbols) ==
    [s \in States |-> Max({Upper(cm, symbols, s), Lower(cm, symbols, s)})]

LEMMA NextMetricOf ==
  ASSUME NEW cm \in [States -> Int], NEW symbols, NEW s \in 0 .. 63
  PROVE  /\ NextMetric(cm, symbols)[s]
              = IF s \in Chosen(cm, symbols) THEN Upper(cm, symbols, s) ELSE Lower(cm, symbols, s)
         /\ NextMetric(cm, symbols)[s] >= Upper(cm, symbols, s)
         /\ NextMetric(cm, symbols)[s] >= Lower(cm, symbols, s)
         /\ NextMetric(cm, symbols)[s] \in Int
  <1>1. s \in States
    BY Constants
  <1>2. NextMetric(cm, symbols)[s] = Max({Upper(cm, symbols, s), Lower(cm, symbols, s)})
    BY <1>1 DEF NextMetric
  <1>3. Lower(cm, symbols, s) \in Int /\ Upper(cm, symbols, s) \in Int
    BY ArrivalsInt
  <1>4. s \in Chosen(cm, symbols) <=> Upper(cm, symbols, s) > Lower(cm, symbols, s)
    BY <1>1 DEF Chosen
  <1>5. QED
    BY <1>2, <1>3, <1>4, MaxOfTwo

\* The value of a path that is one pass longer.
LEMMA ValueGrows ==
  ASSUME NEW v, NEW R, NEW S, NEW p \in Nat, NEW symbols, Heard(v, S, p, symbols),
         \A pl \in SentBefore(v, p) : pl \in R <=> pl \in S,
         NEW x, Bits(x), NEW y, Bits(y), \A i \in Int : i < p => Input(x, i) = Input(y, i)
  PROVE  /\ StateOf(x, p) = StateOf(y, p)
         /\ Value(v, R, x, p) \in Int
         /\ Value(v, S, y, p + 1) = Value(v, R, x, p) + Branch(encstate(y, p), symbols)
  <1>1. StateOf(x, p) = StateOf(y, p) /\ StateOf(x, 0) = StateOf(y, 0)
    <2>1. p \in Int /\ 0 \in Int
      OBVIOUS
    <2>2. \A i \in Int : i >= 0 - 6 /\ i < 0 => Input(x, i) = Input(y, i)
      OBVIOUS
    <2>3. StateOf(x, 0) = StateOf(y, 0)
      BY <2>1, <2>2, SameInputs
    <2>4. StateOf(x, p) = StateOf(y, p)
      BY <2>1, SameInputs
    <2>5. QED
      BY <2>3, <2>4
  <1>2. Fit(v, R, x, p) = Fit(v, S, y, p)
    BY FitLocal
  <1>3. /\ Fit(v, S, y, p) \in Int
        /\ Branch(encstate(y, p), symbols) \in Int
        /\ Fit(v, S, y, p + 1) = Fit(v, S, y, p) + Branch(encstate(y, p), symbols)
    BY FitGrows
  <1>4. StartMetric[StateOf(y, 0)] \in Int
    <2>1. 0 \in Int
      OBVIOUS
    <2>2. StateOf(y, 0) \in States
      BY <2>1, RegisterShifts, Constants
    <2>3. QED
      BY <2>2 DEF StartMetric
  <1>5. QED
    BY <1>1, <1>2, <1>3, <1>4 DEF Value

LEMMA BestKept ==
  ASSUME NEW v, NEW R, NEW S, NEW p \in Nat, NEW symbols, Heard(v, S, p, symbols),
         \A pl \in SentBefore(v, p) : pl \in R <=> pl \in S,
         NEW cm \in [States -> Int], Best(v, R, cm, p)
  PROVE  Best(v, S, NextMetric(cm, symbols), p + 1)
  <1> SUFFICES ASSUME NEW y \in Inputs(p + 1)
               PROVE  Value(v, S, y, p + 1) <= NextMetric(cm, symbols)[StateOf(y, p + 1)]
    BY DEF Best
  <1> DEFINE x == [i \in -6 .. p - 1 |-> y[i]]
             s == StateOf(y, p + 1)
  <1>1. (p + 1) - 1 = p /\ p + 1 \in Nat /\ p \in Int
    OBVIOUS
  <1>2. DOMAIN y = -6 .. p /\ \A i \in -6 .. p : y[i] \in {0, 1}
    BY <1>1 DEF Inputs
  <1>3. x \in Inputs(p)
    <2>1. \A i \in -6 .. p - 1 : i \in -6 .. p
      OBVIOUS
    <2>2. QED
      BY <1>2, <2>1 DEF Inputs
  <1>4. \A i \in Int : i < p => Input(x, i) = Input(y, i)
    <2> SUFFICES ASSUME NEW i \in Int, i < p PROVE Input(x, i) = Input(y, i)
      OBVIOUS
    <2>1. i \in -6 .. p <=> i \in -6 .. p - 1
      OBVIOUS
    <2>2. DOMAIN x = -6 .. p - 1
      OBVIOUS
    <2>3. QED
      BY <1>2, <2>1, <2>2 DEF Input
  <1> HIDE DEF x
  <1>5. Bits(x) /\ Bits(y)
    BY <1>1, <1>3, PathBits
  <1>6. /\ StateOf(x, p) = StateOf(y, p)
        /\ Value(v, R, x, p) \in Int
        /\ Value(v, S, y, p + 1) = Value(v, R, x, p) + Branch(encstate(y, p), symbols)
    BY <1>4, <1>5, ValueGrows
  <1>7. Value(v, R, x, p) <= cm[StateOf(y, p)]
    BY <1>3, <1>6 DEF Best
  <1>8. s \in 0 .. 63 /\ StateOf(y, p) \in States /\ Input(y, p - 6) \in {0, 1}
    BY <1>1, <1>5, Predecessor, RegisterShifts, Constants
  <1>9. cm[StateOf(y, p)] \in Int /\ Branch(encstate(y, p), symbols) \in Int
    BY <1>8, BranchInt
  <1>10. /\ Input(y, p - 6) = 0 => Lower(cm, symbols, s) = cm[StateOf(y, p)] + Branch(encstate(y, p), symbols)
         /\ Input(y, p - 6) = 1 => Upper(cm, symbols, s) = cm[StateOf(y, p)] + Branch(encstate(y, p), symbols)
    BY <1>1, <1>5, Arrives
  <1>11. /\ NextMetric(cm, symbols)[s] >= Upper(cm, symbols, s)
         /\ NextMetric(cm, symbols)[s] >= Lower(cm, symbols, s)
         /\ NextMetric(cm, symbols)[s] \in Int
    BY <1>8, NextMetricOf
  <1> HIDE DEF s
  <1>12. NextMetric(cm, symbols)[s] >= cm[StateOf(y, p)] + Branch(encstate(y, p), symbols)
    BY <1>8, <1>10, <1>11
  <1>13. Value(v, S, y, p + 1) <= NextMetric(cm, symbols)[s]
    BY <1>6, <1>7, <1>9, <1>11, <1>12
  <1>14. QED
    BY <1>13 DEF s

LEMMA SurvivorsKept ==
  ASSUME NEW v, NEW R, NEW S, NEW p \in Nat, NEW symbols, Heard(v, S, p, symbols),
         \A pl \in SentBefore(v, p) : pl \in R <=> pl \in S,
         NEW cm \in [States -> Int], NEW ps \in Seq(SUBSET States), Len(ps) = p,
         Survivors(v, R, cm, ps, p)
  PROVE  Survivors(v, S, NextMetric(cm, symbols), Append(ps, Chosen(cm, symbols)), p + 1)
  <1> DEFINE nm == NextMetric(cm, symbols)
             C == Chosen(cm, symbols)
             nps == Append(ps, C)
  <1> SUFFICES ASSUME NEW s \in 0 .. 63
               PROVE  \E y \in Inputs(p + 1) : StateOf(y, p + 1) = s /\ Survives(v, S, nm, nps, p + 1, y)
    BY DEF Survivors
  <1> DEFINE u == IF s \in C THEN 1 ELSE 0
             t == s \div 2 + 32 * u
             b == s % 2
  <1>1. t \in 0 .. 63 /\ b \in {0, 1} /\ u \in {0, 1} /\ 2 * t + b = 64 * u + s
    <2>1. u \in {0, 1}
      OBVIOUS
    <2> HIDE DEF u
    <2>2. QED
      BY <2>1
  <1>2. PICK x \in Inputs(p) : StateOf(x, p) = t /\ Survives(v, R, cm, ps, p, x)
    <2> HIDE DEF t
    <2>1. QED
      BY <1>1 DEF Survivors
  <1> DEFINE y == Extended(x, p, b)
  <1>3. /\ y \in Inputs(p + 1)
        /\ \A i \in Int : i < p => Input(x, i) = Input(y, i)
        /\ Input(y, p) = b
    <2> HIDE DEF b
    <2>1. /\ Extended(x, p, b) \in Inputs(p + 1)
          /\ \A i \in Int : i < p => Input(Extended(x, p, b), i) = Input(x, i)
          /\ Input(Extended(x, p, b), p) = b
      BY <1>1, ExtendPath
    <2>2. QED
      BY <2>1
  <1> HIDE DEF u, t, b, y, nm, nps, C
  <1>4. p + 1 \in Nat /\ p \in Int
    OBVIOUS
  <1>5. Bits(x) /\ Bits(y)
    BY <1>3, <1>4, PathBits
  <1>6. /\ StateOf(x, p) = StateOf(y, p)
        /\ Value(v, R, x, p) \in Int
        /\ Value(v, S, y, p + 1) = Value(v, R, x, p) + Branch(encstate(y, p), symbols)
    BY <1>3, <1>5, ValueGrows
  <1>7. StateOf(y, p + 1) = s /\ Input(y, p - 6) = u
    <2>1. /\ encstate(y, p) = 2 * StateOf(y, p) + Input(y, p)
          /\ encstate(y, p) = 64 * Input(y, p - 6) + StateOf(y, p + 1)
          /\ Input(y, p - 6) \in {0, 1}
      BY <1>4, <1>5, RegisterShifts
    <2>2. StateOf(y, p + 1) \in 0 .. 63
      BY <1>4, <1>5, Predecessor
    <2>3. 64 * Input(y, p - 6) + StateOf(y, p + 1) = 64 * u + s
      BY <1>1, <1>2, <1>3, <1>6, <2>1
    <2> DEFINE I == Input(y, p - 6)
               T == StateOf(y, p + 1)
    <2>4. I \in {0, 1} /\ T \in 0 .. 63 /\ 64 * I + T = 64 * u + s /\ u \in {0, 1}
      BY <1>1, <2>1, <2>2, <2>3
    <2> HIDE DEF I, T
    <2>5. T = s /\ I = u
      BY <2>4
    <2>6. QED
      BY <2>5 DEF I, T
  <1>8. Value(v, S, y, p + 1) = nm[s]
    <2>1. Value(v, R, x, p) = cm[StateOf(y, p)]
      BY <1>2, <1>6 DEF Survives
    <2>2. /\ u = 0 => Lower(cm, symbols, s) = cm[StateOf(y, p)] + Branch(encstate(y, p), symbols)
          /\ u = 1 => Upper(cm, symbols, s) = cm[StateOf(y, p)] + Branch(encstate(y, p), symbols)
      BY <1>4, <1>5, <1>7, Arrives
    <2>3. nm[s] = IF s \in C THEN Upper(cm, symbols, s) ELSE Lower(cm, symbols, s)
      BY NextMetricOf DEF nm, C
    <2>4. nm[s] = cm[StateOf(y, p)] + Branch(encstate(y, p), symbols)
      BY <2>2, <2>3 DEF u
    <2>5. QED
      BY <1>6, <2>1, <2>4
  <1>9. Decided(nps, y, p + 1)
    <2>1. C \in SUBSET States
      BY DEF C, Chosen
    <2>2. /\ \A q \in 0 .. p - 1 : nps[q + 1] = ps[q + 1]
          /\ nps[p + 1] = C
      <3>1. \A q \in 0 .. p - 1 : q + 1 \in 1 .. Len(ps)
        OBVIOUS
      <3>2. /\ \A k \in 1 .. Len(ps) : nps[k] = ps[k]
            /\ nps[Len(ps) + 1] = C
        BY <2>1 DEF nps
      <3>3. QED
        BY <3>1, <3>2
    <2>3. ASSUME NEW q \in 0 .. p - 1
          PROVE  StateOf(y, q + 1) \in nps[q + 1] <=> Input(y, q - 6) = 1
      <3>1. q + 1 \in Int /\ q - 6 \in Int /\ q - 6 < p
        OBVIOUS
      <3>2. \A i \in Int : i >= (q + 1) - 6 /\ i < q + 1 => Input(x, i) = Input(y, i)
        BY <1>3
      <3>3. StateOf(x, q + 1) = StateOf(y, q + 1)
        BY <3>1, <3>2, SameInputs
      <3>4. StateOf(x, q + 1) \in ps[q + 1] <=> Input(x, q - 6) = 1
        BY <1>2 DEF Survives, Decided
      <3>5. QED
        BY <1>3, <2>2, <3>1, <3>3, <3>4
    <2>4. StateOf(y, p + 1) \in nps[p + 1] <=> Input(y, p - 6) = 1
      BY <1>7, <2>2 DEF u
    <2>5. ASSUME NEW q \in 0 .. (p + 1) - 1
          PROVE  StateOf(y, q + 1) \in nps[q + 1] <=> Input(y, q - 6) = 1
      <3>1. CASE q = p
        BY <2>4, <3>1
      <3>2. CASE q # p
        <4>1. q \in 0 .. p - 1
          BY <3>2
        <4>2. QED
          BY <2>3, <4>1
      <3>3. QED
        BY <3>1, <3>2
    <2>6. QED
      BY <2>5 DEF Decided
  <1>10. QED
    BY <1>3, <1>7, <1>8, <1>9 DEF Survives

-----------------------------------------------------------------------------
\* The invariant

VTypeOK ==
    /\ msg \in AllMessages /\ vec \in Vectors
    /\ pass \in 0 .. Steps47
    /\ flips \subseteq SentBefore(vec, pass)
    /\ cmetric \in [States -> Int]
    /\ paths \in Seq(SUBSET States) /\ Len(paths) = pass

VInv ==
    /\ VTypeOK
    /\ Survivors(vec, Air(vec, msg, flips), cmetric, paths, pass)
    /\ Best(vec, Air(vec, msg, flips), cmetric, pass)
    /\ data # <<>> => pass = Steps47 /\ data = ChainBack(paths)

\* What is received at a pass is what was sent, but for the bits the channel inverts.
LEMMA Reception ==
  ASSUME VTypeOK, pass < Steps47, NEW symbols \in Received(pass), NEW f,
         f = flips \cup Inverted(pass, symbols)
  PROVE  /\ f \subseteq SentBefore(vec, pass + 1)
         /\ \A pl \in SentBefore(vec, pass) :
              pl \in Air(vec, msg, flips) <=> pl \in Air(vec, msg, f)
         /\ Heard(vec, Air(vec, msg, f), pass, symbols)
  <1>1. pass \in Nat /\ pass \in 0 .. Steps47 - 1 /\ N = 4
    <2>1. Steps47 \in Nat /\ N = 4
      BY Constants
    <2>2. pass \in 0 .. Steps47
      BY DEF VTypeOK
    <2>3. QED
      BY <2>1, <2>2
  <1>2. PICK e \in Damage(pass) :
          symbols = << Symbol(pass, 1, 1 \in e), Symbol(pass, 2, 2 \in e),
                       Symbol(pass, 3, 3 \in e), Symbol(pass, 4, 4 \in e) >>
    BY DEF Received
  <1>3. e \subseteq KeptAt(vec, pass)
    BY <1>1 DEF Damage, KeptAt
  <1>4. \A j \in 1 .. 4 : symbols[j] = Symbol(pass, j, j \in e)
    <2>1. /\ symbols[1] = Symbol(pass, 1, 1 \in e) /\ symbols[2] = Symbol(pass, 2, 2 \in e)
          /\ symbols[3] = Symbol(pass, 3, 3 \in e) /\ symbols[4] = Symbol(pass, 4, 4 \in e)
      BY <1>2
    <2>2. \A j \in 1 .. 4 : j = 1 \/ j = 2 \/ j = 3 \/ j = 4
      OBVIOUS
    <2>3. QED
      BY <2>1, <2>2, Zenon
  <1>5. \A j \in 1 .. 4 : Encoded(msg, pass, j) \in {0, 1}
    BY DEF Encoded, Bit
  <1>6. Inverted(pass, symbols) = Column(pass, e)
    <2>1. \A j \in 1 .. 4 : symbols[j] \notin {Erased, Encoded(msg, pass, j)} <=> j \in e
      <3> SUFFICES ASSUME NEW j \in 1 .. 4
                   PROVE  symbols[j] \notin {Erased, Encoded(msg, pass, j)} <=> j \in e
        OBVIOUS
      <3>1. j \in e => Kept(vec, pass, j)
        BY <1>3 DEF KeptAt
      <3>2. CASE j \in e
        <4>1. symbols[j] = 1 - Encoded(msg, pass, j)
          BY <1>4, <3>1, <3>2 DEF Symbol
        <4>2. QED
          BY <1>5, <3>2, <4>1 DEF Erased
      <3>3. CASE j \notin e
        <4>1. symbols[j] \in {Erased, Encoded(msg, pass, j)}
          BY <1>4, <3>3 DEF Symbol
        <4>2. QED
          BY <3>3, <4>1
      <3>4. QED
        BY <3>2, <3>3
    <2>2. {i \in 1 .. N : symbols[i] \notin {Erased, Encoded(msg, pass, i)}} = e
      <3>1. e \subseteq 1 .. 4
        BY <1>3 DEF KeptAt
      <3>2. QED
        BY <1>1, <2>1, <3>1
    <2>3. QED
      BY <2>2 DEF Inverted, Column
  <1>7. /\ SentBefore(vec, pass + 1) = SentBefore(vec, pass) \cup Column(pass, KeptAt(vec, pass))
        /\ \A j \in 1 .. 4 : <<pass, j>> \notin SentBefore(vec, pass)
    BY <1>1, SentGrows
  <1>8. flips \subseteq SentBefore(vec, pass)
    BY DEF VTypeOK
  <1>9. Column(pass, e) \subseteq Column(pass, KeptAt(vec, pass))
    BY <1>3 DEF Column
  <1>10. f = flips \cup Column(pass, e)
    BY <1>6
  <1>11. f \subseteq SentBefore(vec, pass + 1)
    BY <1>7, <1>8, <1>9, <1>10
  <1>12. ASSUME NEW pl \in SentBefore(vec, pass)
         PROVE  pl \in Air(vec, msg, flips) <=> pl \in Air(vec, msg, f)
    <2>1. pl \notin Column(pass, e)
      <3>1. Column(pass, e) \subseteq {<<pass, j>> : j \in 1 .. 4}
        BY <1>3 DEF Column, KeptAt
      <3>2. QED
        BY <1>7, <1>12, <3>1
    <2>2. pl \in flips <=> pl \in f
      BY <1>10, <2>1
    <2>3. QED
      BY <2>2 DEF Air, Differ
  <1>13. ASSUME NEW j \in 1 .. 4
         PROVE  symbols[j] = IF ~Kept(vec, pass, j) THEN Erased
                             ELSE IF <<pass, j>> \in Air(vec, msg, f) THEN 1 ELSE 0
    <2>1. <<pass, j>> \in f <=> j \in e
      <3>1. <<pass, j>> \notin flips
        BY <1>7, <1>8
      <3>2. <<pass, j>> \in Column(pass, e) <=> j \in e
        BY DEF Column
      <3>3. QED
        BY <1>10, <3>1, <3>2
    <2>2. <<pass, j>> \in OnesOf(vec, msg) <=> Kept(vec, pass, j) /\ Encoded(msg, pass, j) = 1
      <3>1. <<pass, j>> \in Places
        BY <1>1 DEF Places
      <3>2. QED
        BY <3>1 DEF OnesOf
    <2>3. <<pass, j>> \in Air(vec, msg, f) <=>
            ~(<<pass, j>> \in OnesOf(vec, msg) <=> <<pass, j>> \in f)
      BY DEF Air, Differ
    <2>4. CASE ~Kept(vec, pass, j)
      BY <1>4, <2>4 DEF Symbol
    <2>5. CASE Kept(vec, pass, j) /\ j \in e
      <3>1. symbols[j] = 1 - Encoded(msg, pass, j)
        BY <1>4, <2>5 DEF Symbol
      <3>2. <<pass, j>> \in Air(vec, msg, f) <=> ~(Encoded(msg, pass, j) = 1)
        BY <2>1, <2>2, <2>3, <2>5
      <3>3. QED
        BY <1>5, <2>5, <3>1, <3>2
    <2>6. CASE Kept(vec, pass, j) /\ j \notin e
      <3>1. symbols[j] = Encoded(msg, pass, j)
        BY <1>4, <2>6 DEF Symbol
      <3>2. <<pass, j>> \in Air(vec, msg, f) <=> Encoded(msg, pass, j) = 1
        BY <2>1, <2>2, <2>3, <2>6
      <3>3. QED
        BY <1>5, <2>6, <3>1, <3>2
    <2>7. QED
      BY <2>4, <2>5, <2>6
  <1>14. Heard(vec, Air(vec, msg, f), pass, symbols)
    BY <1>13 DEF Heard
  <1>15. QED
    BY <1>11, <1>12, <1>14

LEMMA InitHolds == VInit => VInv
  <1> SUFFICES ASSUME VInit PROVE VInv
    OBVIOUS
  <1>1. pass = 0 /\ flips = {} /\ cmetric = StartMetric /\ paths = <<>> /\ data = <<>> /\ msg \in Messages
    BY DEF VInit
  <1>2. \A v : SentBefore(v, 0) = {}
    <2>1. 0 .. (0 - 1) = {}
      OBVIOUS
    <2>2. QED
      BY <2>1 DEF SentBefore
  <1>3. VTypeOK
    <2>1. msg \in AllMessages /\ vec \in Vectors
      BY <1>1, MessagesAssumption DEF AllMessages, VInit
    <2>2. 0 \in 0 .. Steps47
      BY Constants
    <2>3. StartMetric \in [States -> Int]
      BY DEF StartMetric
    <2>4. <<>> \in Seq(SUBSET States) /\ Len(<<>>) = 0
      OBVIOUS
    <2>5. QED
      BY <1>1, <1>2, <2>1, <2>2, <2>3, <2>4 DEF VTypeOK
  <1>4. \A v, R : \A x \in Inputs(0) : Value(v, R, x, 0) = StartMetric[StateOf(x, 0)]
                                       /\ StateOf(x, 0) \in 0 .. 63
    <2> SUFFICES ASSUME NEW v, NEW R, NEW x \in Inputs(0)
                 PROVE  /\ Value(v, R, x, 0) = StartMetric[StateOf(x, 0)]
                        /\ StateOf(x, 0) \in 0 .. 63
      OBVIOUS
    <2>1. WrongBefore(v, R, x, 0) = {}
      BY <1>2 DEF WrongBefore
    <2>2. Fit(v, R, x, 0) = 0
      BY <1>2, <2>1, FS_EmptySet DEF Fit
    <2>3. 0 \in Int /\ 0 \in Nat
      OBVIOUS
    <2>4. Bits(x)
      BY <2>3, PathBits
    <2>5. StateOf(x, 0) \in 0 .. 63
      BY <2>3, <2>4, RegisterShifts
    <2>6. StartMetric[StateOf(x, 0)] \in Int
      BY <2>5, Constants DEF StartMetric
    <2>7. QED
      BY <2>2, <2>5, <2>6 DEF Value
  <1>5. \A v, R : Best(v, R, StartMetric, 0)
    <2>1. \A i \in 0 .. 63 : StartMetric[i] <= StartMetric[i]
      BY Constants DEF StartMetric
    <2>2. QED
      BY <1>4, <2>1 DEF Best
  <1>6. \A v, R : Survivors(v, R, StartMetric, <<>>, 0)
    <2> SUFFICES ASSUME NEW v, NEW R, NEW s \in 0 .. 63
                 PROVE  \E x \in Inputs(0) : StateOf(x, 0) = s /\ Survives(v, R, StartMetric, <<>>, 0, x)
      BY DEF Survivors
    <2>1. PICK x \in Inputs(0) : StateOf(x, 0) = s
      BY PathFrom
    <2>2. Decided(<<>>, x, 0)
      BY DEF Decided
    <2>3. QED
      BY <1>4, <2>1, <2>2 DEF Survives
  <1>7. QED
    BY <1>1, <1>3, <1>5, <1>6 DEF VInv

LEMMA NextHolds == VInv /\ [VNext]_vvars => VInv'
  <1> SUFFICES ASSUME VInv, [VNext]_vvars PROVE VInv'
    OBVIOUS
  <1>1. CASE UNCHANGED vvars
    BY <1>1 DEF VInv, VTypeOK, vvars
  <1>2. CASE VNext
    <2>1. PICK symbols \in Received(pass) : Step(symbols)
      BY <1>2 DEF VNext
    <2>2. pass < Steps47 /\ VTypeOK /\ pass \in Nat
      BY <1>2, Constants DEF VNext, VInv, VTypeOK
    <2>3. PICK f : f = flips \cup Inverted(pass, symbols)
      OBVIOUS
    <2>4. PICK R : R = Air(vec, msg, flips)
      OBVIOUS
    <2>5. PICK S : S = Air(vec, msg, f)
      OBVIOUS
    <2>6. /\ pass' = pass + 1 /\ flips' = f /\ vec' = vec /\ msg' = msg
          /\ paths' = Append(paths, Chosen(cmetric, symbols))
          /\ cmetric' = NextMetric(cmetric, symbols)
          /\ data' = IF pass' = Steps47 THEN ChainBack(paths') ELSE data
      BY <2>1, <2>3 DEF Step, Chosen, NextMetric
    <2>7. /\ f \subseteq SentBefore(vec, pass + 1)
          /\ \A pl \in SentBefore(vec, pass) : pl \in R <=> pl \in S
          /\ Heard(vec, S, pass, symbols)
      BY <2>2, <2>3, <2>4, <2>5, Reception
    <2>8. /\ cmetric \in [States -> Int]
          /\ paths \in Seq(SUBSET States) /\ Len(paths) = pass
          /\ Survivors(vec, R, cmetric, paths, pass)
          /\ Best(vec, R, cmetric, pass)
      BY <2>4 DEF VInv, VTypeOK
    <2>9. Survivors(vec, S, NextMetric(cmetric, symbols), Append(paths, Chosen(cmetric, symbols)), pass + 1)
      BY <2>2, <2>7, <2>8, SurvivorsKept
    <2>10. Best(vec, S, NextMetric(cmetric, symbols), pass + 1)
      BY <2>2, <2>7, <2>8, BestKept
    <2>11. NextMetric(cmetric, symbols) \in [States -> Int]
      <3>1. \A s \in States : NextMetric(cmetric, symbols)[s] \in Int
        BY <2>8, NextMetricOf, Constants
      <3>2. NextMetric(cmetric, symbols) = [s \in States |-> NextMetric(cmetric, symbols)[s]]
        BY DEF NextMetric
      <3>3. QED
        BY <3>1, <3>2
    <2>12. /\ Append(paths, Chosen(cmetric, symbols)) \in Seq(SUBSET States)
           /\ Len(Append(paths, Chosen(cmetric, symbols))) = pass + 1
      <3>1. Chosen(cmetric, symbols) \in SUBSET States
        BY DEF Chosen
      <3>2. QED
        BY <2>8, <3>1
    <2>13. pass + 1 \in 0 .. Steps47
      BY <2>2, Constants
    <2>14. VTypeOK'
      BY <2>2, <2>6, <2>7, <2>11, <2>12, <2>13 DEF VTypeOK
    <2>15. Air(vec, msg, flips)' = S
      BY <2>5, <2>6 DEF Air, OnesOf, Encoded, encstate, Input
    <2>16. Survivors(vec, Air(vec, msg, flips), cmetric, paths, pass)'
      BY <2>6, <2>9, <2>15
    <2>17. Best(vec, Air(vec, msg, flips), cmetric, pass)'
      BY <2>6, <2>10, <2>15
    <2>18. (data # <<>> => pass = Steps47 /\ data = ChainBack(paths))'
      BY <2>2, <2>6 DEF VInv
    <2>19. QED
      BY <2>14, <2>16, <2>17, <2>18 DEF VInv
  <1>3. QED
    BY <1>1, <1>2

-----------------------------------------------------------------------------
\* What is decoded

\* In state zero the last six inputs are zeros.
LEMMA ZeroState ==
  ASSUME NEW x, Bits(x), NEW p \in Int
  PROVE  StateOf(x, p) = 0 <=> \A i \in p - 6 .. p - 1 : Input(x, i) = 0
  <1>1. /\ Input(x, p - 1) \in {0, 1} /\ Input(x, p - 2) \in {0, 1} /\ Input(x, p - 3) \in {0, 1}
        /\ Input(x, p - 4) \in {0, 1} /\ Input(x, p - 5) \in {0, 1} /\ Input(x, p - 6) \in {0, 1}
    BY DEF Bits
  <1>2. \A i \in p - 6 .. p - 1 : \/ i = p - 1 \/ i = p - 2 \/ i = p - 3
                                  \/ i = p - 4 \/ i = p - 5 \/ i = p - 6
    OBVIOUS
  <1>3. /\ p - 1 \in p - 6 .. p - 1 /\ p - 2 \in p - 6 .. p - 1 /\ p - 3 \in p - 6 .. p - 1
        /\ p - 4 \in p - 6 .. p - 1 /\ p - 5 \in p - 6 .. p - 1 /\ p - 6 \in p - 6 .. p - 1
    OBVIOUS
  <1>4. StateOf(x, p) = 0 <=>
          /\ Input(x, p - 1) = 0 /\ Input(x, p - 2) = 0 /\ Input(x, p - 3) = 0
          /\ Input(x, p - 4) = 0 /\ Input(x, p - 5) = 0 /\ Input(x, p - 6) = 0
    BY <1>1 DEF StateOf
  <1>5. (\A i \in p - 6 .. p - 1 : Input(x, i) = 0) <=>
          /\ Input(x, p - 1) = 0 /\ Input(x, p - 2) = 0 /\ Input(x, p - 3) = 0
          /\ Input(x, p - 4) = 0 /\ Input(x, p - 5) = 0 /\ Input(x, p - 6) = 0
    BY <1>2, <1>3
  <1>6. QED
    BY <1>4, <1>5

\* A message is the input of a path from state 0 to state 0.
LEMMA MessagePath ==
  ASSUME NEW m \in AllMessages, NEW v, NEW R
  PROVE  \E y \in Inputs(Steps47) : /\ StateOf(y, Steps47) = 0
                                    /\ Value(v, R, y, Steps47) = Fit(v, R, m, Steps47)
  <1>1. NBits \in Nat /\ NBits > 0 /\ Steps47 = NBits + 6 /\ Steps47 \in Int
    BY NBitsAssumption, Constants
  <1>2. DOMAIN m = 0 .. NBits - 1
    BY DEF AllMessages
  <1>3. Bits(m)
    <2>1. 0 \in Int /\ NBits - 1 \in Int /\ m \in [0 .. NBits - 1 -> {0, 1}]
      BY <1>1 DEF AllMessages
    <2>2. QED
      BY <2>1, InputBits
  <1> DEFINE y == [i \in -6 .. Steps47 - 1 |-> Input(m, i)]
  <1>4. y \in Inputs(Steps47)
    <2>1. \A i \in -6 .. Steps47 - 1 : Input(m, i) \in {0, 1}
      BY <1>3 DEF Bits
    <2>2. QED
      BY <2>1 DEF Inputs
  <1>5. DOMAIN y = -6 .. Steps47 - 1 /\ \A i \in -6 .. Steps47 - 1 : y[i] = Input(m, i)
    OBVIOUS
  <1> HIDE DEF y
  <1>6. ASSUME NEW i \in Int, i < Steps47
        PROVE  Input(y, i) = Input(m, i)
    <2>1. CASE i \in -6 .. Steps47 - 1
      BY <1>5, <2>1 DEF Input
    <2>2. CASE i \notin -6 .. Steps47 - 1
      <3>1. i \notin 0 .. NBits - 1
        BY <1>1, <1>6, <2>2
      <3>2. QED
        BY <1>2, <1>5, <2>2, <3>1 DEF Input
    <2>3. QED
      BY <2>1, <2>2
  <1>7. Bits(y)
    BY <1>4, Constants, PathBits
  <1>8. StateOf(y, Steps47) = 0 /\ StateOf(y, 0) = 0
    <2>1. ASSUME NEW i \in Int, i < Steps47, i \notin 0 .. NBits - 1 PROVE Input(y, i) = 0
      <3>1. Input(m, i) = 0
        BY <1>2, <2>1 DEF Input
      <3>2. QED
        BY <1>6, <2>1, <3>1
    <2>2. \A i \in Steps47 - 6 .. Steps47 - 1 : Input(y, i) = 0
      <3>1. \A i \in Steps47 - 6 .. Steps47 - 1 : i \in Int /\ i < Steps47 /\ i \notin 0 .. NBits - 1
        BY <1>1
      <3>2. QED
        BY <2>1, <3>1
    <2>3. \A i \in 0 - 6 .. 0 - 1 : Input(y, i) = 0
      <3>1. \A i \in 0 - 6 .. 0 - 1 : i \in Int /\ i < Steps47 /\ i \notin 0 .. NBits - 1
        BY <1>1
      <3>2. QED
        BY <2>1, <3>1
    <2>4. 0 \in Int
      OBVIOUS
    <2>5. QED
      BY <1>1, <1>7, <2>2, <2>3, <2>4, ZeroState
  <1>9. Fit(v, R, y, Steps47) = Fit(v, R, m, Steps47)
    BY <1>1, <1>6, FitLocal
  <1>10. Fit(v, R, m, Steps47) \in Int
    <2>1. Cardinality(SentBefore(v, Steps47)) \in Nat /\ Cardinality(WrongBefore(v, R, m, Steps47)) \in Nat
      BY <1>1, SentFinite, WrongFinite
    <2>2. QED
      BY <2>1 DEF Fit
  <1>11. StartMetric[0] = 0
    BY Constants DEF StartMetric
  <1>12. Value(v, R, y, Steps47) = Fit(v, R, m, Steps47)
    BY <1>8, <1>9, <1>10, <1>11 DEF Value
  <1>13. QED
    BY <1>4, <1>8, <1>12

\* The bits in which a codeword differs from the received ones are those its message
\* gets wrong.
LEMMA DistanceOf ==
  ASSUME NEW v, NEW m, NEW sent, NEW f, f \subseteq SentBefore(v, Steps47)
  PROVE  Differ(Air(v, sent, f), OnesOf(v, m)) = WrongBefore(v, Air(v, sent, f), m, Steps47)
  <1>1. Places = (0 .. Steps47 - 1) \X (1 .. N)
    BY DEF Places
  <1>2. \A w : \A pl : pl \in OnesOf(v, w) <=>
                         pl \in SentBefore(v, Steps47) /\ Encoded(w, pl[1], pl[2]) = 1
    BY <1>1 DEF OnesOf, SentBefore
  <1>3. Air(v, sent, f) \subseteq SentBefore(v, Steps47)
    BY <1>2 DEF Air, Differ
  <1> DEFINE R == Air(v, sent, f)
  <1> HIDE DEF R
  <1>4. Differ(R, OnesOf(v, m)) = WrongBefore(v, R, m, Steps47)
    <2>1. \A pl : pl \in Differ(R, OnesOf(v, m)) <=> ~(pl \in R <=> pl \in OnesOf(v, m))
      BY DEF Differ
    <2>2. \A pl : pl \in WrongBefore(v, R, m, Steps47) <=>
                    pl \in SentBefore(v, Steps47) /\ ~(pl \in R <=> Encoded(m, pl[1], pl[2]) = 1)
      BY DEF WrongBefore
    <2>3. \A pl : pl \in R => pl \in SentBefore(v, Steps47)
      BY <1>3 DEF R
    <2>4. \A pl : pl \in Differ(R, OnesOf(v, m)) <=> pl \in WrongBefore(v, R, m, Steps47)
      BY <1>2, <2>1, <2>2, <2>3, Zenon
    <2>5. QED
      BY <2>4
  <1>5. QED
    BY <1>4 DEF R

\* The decoded message fits the received bits as well as any message.
LEMMA DecodedFitsBest ==
  ASSUME VInv, data # <<>>
  PROVE  /\ data \in AllMessages
         /\ \A m \in AllMessages : Fit(vec, Air(vec, msg, flips), m, Steps47)
                                   <= Fit(vec, Air(vec, msg, flips), data, Steps47)
  <1>1. PICK R : R = Air(vec, msg, flips)
    OBVIOUS
  <1>2. /\ pass = Steps47 /\ data = ChainBack(paths)
        /\ cmetric \in [States -> Int]
        /\ Survivors(vec, R, cmetric, paths, Steps47)
        /\ Best(vec, R, cmetric, Steps47)
    BY <1>1 DEF VInv, VTypeOK
  <1>3. NBits \in Nat /\ NBits > 0 /\ Steps47 = NBits + 6 /\ Steps47 \in Int /\ Steps47 \in Nat /\ 0 \in Int
    BY NBitsAssumption, Constants
  <1>4. PICK x \in Inputs(Steps47) : StateOf(x, Steps47) = 0 /\ Survives(vec, R, cmetric, paths, Steps47, x)
    <2>1. 0 \in 0 .. 63
      OBVIOUS
    <2>2. QED
      BY <1>2, <2>1 DEF Survivors
  <1>5. data = [i \in 0 .. NBits - 1 |-> x[i]] /\ \A i \in 0 .. NBits - 1 : x[i] \in {0, 1}
    <2>1. Decided(paths, x, Steps47)
      BY <1>4 DEF Survives
    <2>2. QED
      BY <1>2, <1>4, <2>1, ChainBackReads
  <1>6. data \in AllMessages /\ DOMAIN data = 0 .. NBits - 1
    BY <1>5 DEF AllMessages
  <1>7. Bits(x) /\ DOMAIN x = -6 .. Steps47 - 1
    BY <1>3, PathBits DEF Inputs
  <1>8. \A i \in NBits .. NBits + 5 : Input(x, i) = 0
    <2>1. \A i \in Steps47 - 6 .. Steps47 - 1 : Input(x, i) = 0
      BY <1>3, <1>4, <1>7, ZeroState
    <2>2. \A i \in NBits .. NBits + 5 : i \in Steps47 - 6 .. Steps47 - 1
      BY <1>3
    <2>3. QED
      BY <2>1, <2>2
  <1>9. ASSUME NEW i \in Int, 0 <= i, i < Steps47
        PROVE  Input(data, i) = Input(x, i)
    <2>1. CASE i \in 0 .. NBits - 1
      <3>1. i \in -6 .. Steps47 - 1
        BY <1>3, <1>9
      <3>2. data[i] = x[i]
        BY <1>5, <2>1
      <3>3. QED
        BY <1>6, <1>7, <2>1, <3>1, <3>2 DEF Input
    <2>2. CASE i \notin 0 .. NBits - 1
      <3>1. i \in NBits .. NBits + 5
        BY <1>3, <1>9, <2>2
      <3>2. Input(data, i) = 0
        BY <1>6, <2>2 DEF Input
      <3>3. QED
        BY <1>8, <3>1, <3>2
    <2>3. QED
      BY <2>1, <2>2
  <1>10. \A m \in AllMessages : Fit(vec, R, m, Steps47) <= cmetric[0]
    <2> SUFFICES ASSUME NEW m \in AllMessages PROVE Fit(vec, R, m, Steps47) <= cmetric[0]
      OBVIOUS
    <2>1. PICK y \in Inputs(Steps47) : StateOf(y, Steps47) = 0
                                       /\ Value(vec, R, y, Steps47) = Fit(vec, R, m, Steps47)
      BY MessagePath
    <2>2. Value(vec, R, y, Steps47) <= cmetric[StateOf(y, Steps47)]
      BY <1>2 DEF Best
    <2>3. QED
      BY <2>1, <2>2
  <1>11. /\ Fit(vec, R, x, Steps47) \in Int /\ Fit(vec, R, data, Steps47) \in Int
         /\ cmetric[0] \in Int
    <2>1. \A z : Cardinality(SentBefore(vec, Steps47)) \in Nat
                 /\ Cardinality(WrongBefore(vec, R, z, Steps47)) \in Nat
      BY <1>3, SentFinite, WrongFinite
    <2>2. 0 \in States
      BY Constants
    <2>3. QED
      BY <1>2, <2>1, <2>2 DEF Fit
  <1>12. cmetric[0] = StartMetric[StateOf(x, 0)] + Fit(vec, R, x, Steps47)
    BY <1>4 DEF Survives, Value
  <1>13. Fit(vec, R, x, Steps47) <= Fit(vec, R, data, Steps47) + 240
    <2>1. \A i \in Int : 0 <= i /\ i < Steps47 => Input(x, i) = Input(data, i)
      BY <1>9
    <2>2. QED
      BY <1>3, <2>1, PathsMerge
  <1>14. StateOf(x, 0) = 0
    <2>1. StateOf(x, 0) \in States
      BY <1>3, <1>7, RegisterShifts, Constants
    <2>2. StateOf(x, 0) # 0 => StartMetric[StateOf(x, 0)] = -999999
      BY <2>1 DEF StartMetric
    <2>3. Fit(vec, R, data, Steps47) <= cmetric[0]
      BY <1>6, <1>10
    <2>4. ASSUME StateOf(x, 0) # 0 PROVE FALSE
      <3>1. cmetric[0] = -999999 + Fit(vec, R, x, Steps47)
        BY <1>12, <2>2, <2>4
      <3>2. QED
        BY <1>11, <1>13, <2>3, <3>1
    <2>5. QED
      BY <2>4
  <1>15. \A i \in Int : i < Steps47 => Input(x, i) = Input(data, i)
    <2> SUFFICES ASSUME NEW i \in Int, i < Steps47 PROVE Input(x, i) = Input(data, i)
      OBVIOUS
    <2>1. CASE 0 <= i
      BY <1>9, <2>1
    <2>2. CASE i < 0
      <3>1. i \notin 0 .. NBits - 1
        BY <2>2
      <3>2. Input(data, i) = 0
        BY <1>6, <3>1 DEF Input
      <3>3. CASE i \in 0 - 6 .. 0 - 1
        <4>1. Input(x, i) = 0
          BY <1>3, <1>7, <1>14, <3>3, ZeroState
        <4>2. QED
          BY <3>2, <4>1
      <3>4. CASE i \notin 0 - 6 .. 0 - 1
        <4>1. i \notin -6 .. Steps47 - 1
          BY <2>2, <3>4
        <4>2. QED
          BY <1>7, <3>2, <4>1 DEF Input
      <3>5. QED
        BY <3>3, <3>4
    <2>3. QED
      BY <2>1, <2>2
  <1>16. Fit(vec, R, x, Steps47) = Fit(vec, R, data, Steps47)
    BY <1>3, <1>15, FitLocal
  <1>17. cmetric[0] = Fit(vec, R, data, Steps47)
    <2>1. StartMetric[0] = 0
      BY Constants DEF StartMetric
    <2>2. QED
      BY <1>11, <1>12, <1>14, <1>16, <2>1
  <1>18. QED
    BY <1>1, <1>6, <1>10, <1>17

LEMMA NearestDecoded == VInv => MaximumLikelihood
  <1> SUFFICES ASSUME VInv, data # <<>>
               PROVE  \E sent, decoded \in {c \in Codewords : c.vec = vec} :
                        /\ sent.msg = msg
                        /\ decoded.msg = data
                        /\ \A c \in Codewords :
                             c.vec = vec => LET received == Differ(sent.ones, flips)
                                            IN  Cardinality(Differ(received, decoded.ones))
                                                <= Cardinality(Differ(received, c.ones))
    BY DEF MaximumLikelihood
  <1> DEFINE Word(m) == [vec |-> vec, msg |-> m, ones |-> OnesOf(vec, m)]
             R == Air(vec, msg, flips)
  <1>1. msg \in AllMessages /\ flips \subseteq SentBefore(vec, Steps47) /\ vec \in Vectors
    BY DEF VInv, VTypeOK
  <1>2. Codewords = {[vec |-> v, msg |-> m, ones |-> OnesOf(v, m)] : v \in Vectors, m \in AllMessages}
    BY DEF Codewords, OnesOf
  <1>3. \A m \in AllMessages : Word(m) \in {c \in Codewords : c.vec = vec}
    BY <1>1, <1>2
  <1>4. \A c \in Codewords : c.vec = vec => c.msg \in AllMessages /\ c.ones = OnesOf(vec, c.msg)
    BY <1>2
  <1>5. /\ data \in AllMessages
        /\ \A m \in AllMessages : Fit(vec, R, m, Steps47) <= Fit(vec, R, data, Steps47)
    BY DecodedFitsBest
  <1>6. /\ Word(msg).msg = msg /\ Word(data).msg = data
        /\ Word(msg).ones = OnesOf(vec, msg) /\ Word(data).ones = OnesOf(vec, data)
    OBVIOUS
  <1>7. Differ(Word(msg).ones, flips) = R
    BY <1>6 DEF Air
  <1>8. \A m : Differ(R, OnesOf(vec, m)) = WrongBefore(vec, R, m, Steps47)
    BY <1>1, DistanceOf
  <1>9. Steps47 \in Int
    BY Constants
  <1> HIDE DEF R
  <1>10. ASSUME NEW m \in AllMessages
         PROVE  Cardinality(Differ(R, OnesOf(vec, data))) <= Cardinality(Differ(R, OnesOf(vec, m)))
    <2>1. /\ Cardinality(SentBefore(vec, Steps47)) \in Nat
          /\ Cardinality(WrongBefore(vec, R, m, Steps47)) \in Nat
          /\ Cardinality(WrongBefore(vec, R, data, Steps47)) \in Nat
      BY <1>9, SentFinite, WrongFinite
    <2>2. 3 * Cardinality(SentBefore(vec, Steps47)) - 10 * Cardinality(WrongBefore(vec, R, m, Steps47))
          <= 3 * Cardinality(SentBefore(vec, Steps47)) - 10 * Cardinality(WrongBefore(vec, R, data, Steps47))
      BY <1>5 DEF Fit
    <2>3. Cardinality(WrongBefore(vec, R, data, Steps47)) <= Cardinality(WrongBefore(vec, R, m, Steps47))
      BY <2>1, <2>2
    <2>4. QED
      BY <1>8, <2>3
  <1>11. \A c \in Codewords :
           c.vec = vec => Cardinality(Differ(R, OnesOf(vec, data))) <= Cardinality(Differ(R, c.ones))
    BY <1>4, <1>10
  <1>12. Word(msg) \in {c \in Codewords : c.vec = vec} /\ Word(data) \in {c \in Codewords : c.vec = vec}
    BY <1>1, <1>3, <1>5
  <1> HIDE DEF Word
  <1>13. QED
    BY <1>6, <1>7, <1>11, <1>12

-----------------------------------------------------------------------------
\* For messages of any length, whatever they are, any puncturing and any number of inverted
\* bits: what k_viterbi returns is a nearest codeword.  The constants are only required to
\* be a number of bits and messages of that many.
THEOREM NearestCodeword == VSpec => []MaximumLikelihood
  <1>1. VInit => VInv
    BY InitHolds
  <1>2. VInv /\ [VNext]_vvars => VInv'
    BY NextHolds
  <1>3. VInv => MaximumLikelihood
    BY NearestDecoded
  <1>4. QED
    BY <1>1, <1>2, <1>3, PTL DEF VSpec

=============================================================================
