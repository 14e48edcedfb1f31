------------------------------- MODULE Viterbi -------------------------------
(***************************************************************************)
(* The Viterbi decoder of the FIC and of every subchannel (viterbi.c,      *)
(* k_viterbi): a rate 1/4 code of constraint length 7, punctured by the    *)
(* vectors of module Puncturing.  One action is one pass of the decoder's  *)
(* loop over the data bits, the last one with the chaining back.  The      *)
(* transmitter and the channel are the environment: a message is encoded,  *)
(* punctured, and at most MaxErrors of the bits sent are inverted.         *)
(***************************************************************************)
EXTENDS Integers, Sequences, FiniteSets, Puncturing

CONSTANTS NBits,      \* data bits in a codeword
          Messages,   \* the messages sent, functions in [0 .. NBits-1 -> {0, 1}]
          Vectors,    \* the puncturing vectors of the data bits
          MaxErrors   \* inverted bits in a codeword

ASSUME NBitsAssumption == NBits \in Nat \ {0}
ASSUME MessagesAssumption == Messages \subseteq [0 .. NBits - 1 -> {0, 1}]

K == 7
N == 4
Steps47 == NBits + K - 1           \* passes of the loop

VARIABLES msg, vec,   \* what was sent, and how it is punctured
          flips,      \* the bits <<pass, place>> inverted so far
          pass,       \* passes of the loop done
          cmetric,    \* the metric of the best path into each state
          paths,      \* for each pass, the states whose survivor comes from the upper half
          data        \* the decoded bits; <<>> before the chaining back

vvars == <<msg, vec, flips, pass, cmetric, paths, data>>

-----------------------------------------------------------------------------
\* The four polynomials Poly47 as the positions of their bits, and the four bits the
\* encoder gives for the K newest bits of its input (bit 0 is the newest).
Polys == <<{0, 2, 3, 5, 6}, {0, 1, 2, 3, 6}, {0, 1, 4, 6}, {0, 2, 3, 5, 6}>>
Register(i) == {b \in 0 .. K - 1 : (i \div 2^b) % 2 = 1}
parity(S) == Cardinality(S) % 2
\* The registers from which the encoder sends a one as its first, ..., fourth bit.
Ones(j) == {i \in 0 .. 2^K - 1 : parity(Register(i) \cap Polys[j]) = 1}
Syms == <<Ones(1), Ones(2), Ones(3), Ones(4)>>
Bit(i, j) == IF i \in Syms[j] THEN 1 ELSE 0

\* The encoder's register at pass p of message m; it starts from zeros and is flushed
\* with zeros.
Input(m, i) == IF i \in DOMAIN m THEN m[i] ELSE 0
encstate(m, p) == Input(m, p) + 2 * Input(m, p - 1) + 4 * Input(m, p - 2) + 8 * Input(m, p - 3)
                  + 16 * Input(m, p - 4) + 32 * Input(m, p - 5) + 64 * Input(m, p - 6)
Encoded(m, p, j) == Bit(encstate(m, p), j)

\* Bit j of pass p is sent; the tail is punctured anew by the tail's vector.
Kept(v, p, j) == IF p < NBits THEN (N * p + j - 1) % 32 \in pvec[v]
                 ELSE (N * (p - NBits) + j - 1) % 32 \in pvec[TailVector]

Erased == 8
\* What the channel may do to the bits of pass p, and what is then received.
Damage(p) == {e \in SUBSET {j \in 1 .. N : Kept(vec, p, j)} :
                Cardinality(flips) + Cardinality(e) <= MaxErrors}
Symbol(p, j, inverted) ==
    IF ~Kept(vec, p, j) THEN Erased
    ELSE IF inverted THEN 1 - Encoded(msg, p, j) ELSE Encoded(msg, p, j)
Received(p) == {<< Symbol(p, 1, 1 \in e), Symbol(p, 2, 2 \in e),
                   Symbol(p, 3, 3 \in e), Symbol(p, 4, 4 \in e) >> : e \in Damage(p)}
Inverted(p, symbols) ==
    {<<p, j>> : j \in {i \in 1 .. N : symbols[i] \notin {Erased, Encoded(msg, p, i)}}}

\* gen_met for the amplitude, noise and scale of init_viterbi, at the three symbol
\* values in use: a bit as sent, a bit inverted, an erasure.
mettab(sent, symbol) == IF symbol = Erased THEN 0 ELSE IF symbol = sent THEN 3 ELSE -7
Branch(i, symbols) == mettab(Bit(i, 1), symbols[1]) + mettab(Bit(i, 2), symbols[2])
                      + mettab(Bit(i, 3), symbols[3]) + mettab(Bit(i, 4), symbols[4])

States == 0 .. 2^(K - 1) - 1
\* The other state of a pair 2i, 2i+1: the branch into one state from the upper half
\* is taken to have the bits of the branch into the other from the lower half.
Partner(s) == IF s % 2 = 0 THEN s + 1 ELSE s - 1
Lower(cm, symbols, s) == cm[s \div 2] + Branch(s, symbols)
Upper(cm, symbols, s) == cm[s \div 2 + 2^(K - 2)] + Branch(Partner(s), symbols)

StartMetric == [s \in States |-> IF s = 0 THEN 0 ELSE -999999]

\* mutant: the chaining back starts from the pass before the last.
ChainBackEarly(ps) ==
    LET end[i \in 0 .. NBits] ==
            IF i = NBits THEN 0
            ELSE LET s == end[i + 1] IN (s + IF s \in ps[i + K - 1] THEN 2^(K - 1) ELSE 0) \div 2
    IN  [i \in 0 .. NBits - 1 |-> IF end[i + 1] \in ps[i + K - 1] THEN 1 ELSE 0]

\* From state 0 after the last pass back to the first: the decision at a state is the
\* bit that left the register.
ChainBack(ps) ==
    LET end[i \in 0 .. NBits] ==          \* the state before bit i is looked up
            IF i = NBits THEN 0
            ELSE LET s == end[i + 1] IN (s + IF s \in ps[i + K] THEN 2^(K - 1) ELSE 0) \div 2
    IN  [i \in 0 .. NBits - 1 |-> IF end[i + 1] \in ps[i + K] THEN 1 ELSE 0]

-----------------------------------------------------------------------------
VInit ==
    /\ msg \in Messages
    /\ vec \in Vectors
    /\ flips = {}
    /\ pass = 0
    /\ cmetric = StartMetric
    /\ paths = <<>>
    /\ data = <<>>

Step(symbols) ==
    /\ pass' = pass + 1
    /\ flips' = flips \cup Inverted(pass, symbols)
    /\ paths' = Append(paths, {s \in States : Upper(cmetric, symbols, s) > Lower(cmetric, symbols, s)})
    /\ cmetric' = [s \in States |-> Max({Upper(cmetric, symbols, s), Lower(cmetric, symbols, s)})]
    /\ data' = IF pass' = Steps47 THEN ChainBack(paths') ELSE data
    /\ UNCHANGED <<msg, vec>>

VNext == pass < Steps47 /\ \E symbols \in Received(pass) : Step(symbols)

VSpec == VInit /\ [][VNext]_vvars

-----------------------------------------------------------------------------
\* Every codeword there is, as the places of its ones among the bits that are sent.
Places == {<<p, j>> : p \in 0 .. Steps47 - 1, j \in 1 .. N}
AllMessages == [0 .. NBits - 1 -> {0, 1}]
Codewords == {[vec |-> v, msg |-> m,
               ones |-> {pl \in Places : Kept(v, pl[1], pl[2]) /\ Encoded(m, pl[1], pl[2]) = 1}]
              : v \in Vectors, m \in AllMessages}
Differ(S, T) == (S \ T) \cup (T \ S)

\* What the decoder returns is a nearest codeword: no message explains the received bits
\* with fewer inverted bits (k_viterbi: the shared branch metrics, the erasures, the
\* decisions packed per pass and the chaining back from the last pass).
MaximumLikelihood ==
    data # <<>> =>
        \E sent, decoded \in {c \in Codewords : c.vec = vec} :
            /\ sent.msg = msg
            /\ decoded.msg = data
            /\ \A c \in Codewords :
                 c.vec = vec => LET received == Differ(sent.ones, flips)
                                IN  Cardinality(Differ(received, decoded.ones))
                                    <= Cardinality(Differ(received, c.ones))

=============================================================================
