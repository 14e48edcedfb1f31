-------------------------- MODULE MscAssemblerProofs --------------------------
(***************************************************************************)
(* Theorems about MscAssembler, for any geometry of the multiplex, any     *)
(* depth of the ring and any loss.                                         *)
(***************************************************************************)
EXTENDS MscAssembler, NumberFacts, TLAPS

\* What is assumed of the subchannels: none fills the CIF from its first symbol to its
\* end, so that the last symbol of a CIF is never the first of the next,
ApartAssumption == \A s \in Subchannels : NumSyms(s) <= SYMSPERCIF
\* or, which is more, none ends with the CIF.
InnerAssumption == \A s \in Subchannels : s.startaddr + s.subchsz < CUSPERSYM * SYMSPERCIF

-----------------------------------------------------------------------------
\* Where the symbols are

Off(j) == j * SYMSPERCIF

LEMMA OffFacts ==
  /\ Off(0) = 0 /\ SYMSPERCIF \in Nat \ {0} /\ Cifs \in Nat \ {0} /\ MSCSTART \in Nat
  /\ \A j \in Nat : Off(j) \in Nat /\ Off(j + 1) = Off(j) + SYMSPERCIF
  /\ \A i, j \in Nat : i < j => Off(i) + SYMSPERCIF <= Off(j)
  <1>1. SYMSPERCIF \in Nat \ {0} /\ Cifs \in Nat \ {0} /\ MSCSTART \in Nat
    BY GeometryAssumption
  <1>2. \A j \in Nat : Off(j) \in Nat /\ Off(j + 1) = Off(j) + SYMSPERCIF
    BY <1>1 DEF Off
  <1>3. ASSUME NEW i \in Nat, NEW j \in Nat, i < j
        PROVE  Off(i) + SYMSPERCIF <= Off(j)
    <2>1. (j - i) * SYMSPERCIF >= SYMSPERCIF
      BY <1>1, <1>3
    <2>2. Off(j) = Off(i) + (j - i) * SYMSPERCIF
      BY <1>1 DEF Off
    <2>3. (j - i) * SYMSPERCIF \in Int /\ Off(i) \in Nat /\ Off(j) \in Nat
      BY <1>1, <1>2
    <2>4. QED
      BY <1>1, <2>1, <2>2, <2>3
  <1>4. QED
    BY <1>1, <1>2, <1>3 DEF Off

LEMMA SubchannelFacts ==
  ASSUME NEW s \in Subchannels
  PROVE  /\ FirstSym(s, 0) \in Nat
         /\ FirstSym(s, 0) \in MSCSTART .. MSCSTART + SYMSPERCIF - 1
         /\ NumSyms(s) \in Nat \ {0}
         /\ NumSyms(s) <= SYMSPERCIF + 1
         /\ InnerAssumption => FirstSym(s, 0) + NumSyms(s) <= MSCSTART + SYMSPERCIF
         /\ \A j \in Nat : /\ FirstSym(s, j) = FirstSym(s, 0) + Off(j)
                           /\ LastSym(s, j) = FirstSym(s, 0) + Off(j) + NumSyms(s) - 1
  <1> DEFINE C == CUSPERSYM
             S == SYMSPERCIF
             x == s.startaddr
             y == s.startaddr + s.subchsz
             a == x \div C
             b == y \div C
  <1>1. C \in Nat \ {0} /\ S \in Nat \ {0} /\ MSCSTART \in Nat
    BY GeometryAssumption
  <1>2. x \in Nat /\ y \in Nat /\ x < y /\ y <= C * S
    BY <1>1, SubchannelAssumption
  <1>3. a \in Int /\ b \in Int /\ a <= b
    <2>1. x \in Int /\ y \in Int /\ x <= y
      BY <1>2
    <2> HIDE DEF x, y
    <2>2. QED
      BY <1>1, <2>1, ModDiv, DivMono
  <1>4. 0 <= a
    <2>1. 0 \div C = 0
      <3>1. (C * 0 + 0) \div C = 0
        BY <1>1, DivOf
      <3>2. QED
        BY <1>1, <3>1
    <2>2. 0 \div C <= a
      BY <1>1, <1>2, DivMono
    <2>3. QED
      BY <2>1, <2>2
  <1>5. \A z \in Int : z < C * S => z \div C <= S - 1
    <2> SUFFICES ASSUME NEW z \in Int, z < C * S PROVE z \div C <= S - 1
      OBVIOUS
    <2>1. (C * (S - 1) + (C - 1)) \div C = S - 1
      BY <1>1, DivOf
    <2>2. C * (S - 1) + (C - 1) = C * S - 1 /\ C * S \in Int
      BY <1>1
    <2>3. z <= C * S - 1
      BY <2>2
    <2>4. z \div C <= (C * S - 1) \div C
      BY <1>1, <2>2, <2>3, DivMono
    <2>5. QED
      BY <2>1, <2>2, <2>4
  <1>6. b <= S
    <2>1. (C * S + 0) \div C = S
      BY <1>1, DivOf
    <2>2. C * S \in Int /\ C * S + 0 = C * S
      BY <1>1
    <2>3. b <= (C * S) \div C
      BY <1>1, <1>2, <2>2, DivMono
    <2>4. QED
      BY <2>1, <2>2, <2>3
  <1>7. a <= S - 1
    <2>1. C * S \in Int
      BY <1>1
    <2>2. x < C * S
      BY <1>2, <2>1
    <2>3. QED
      BY <1>2, <1>5, <2>2
  <1>8. InnerAssumption => b <= S - 1
    BY <1>2, <1>5 DEF InnerAssumption
  <1>9. /\ \A j : FirstSym(s, j) = a + MSCSTART + Off(j)
        /\ \A j : LastSym(s, j) = b + MSCSTART + Off(j)
    BY DEF FirstSym, LastSym, Off
  <1>10. Off(0) = 0 /\ \A j \in Nat : Off(j) \in Nat
    BY OffFacts
  <1>11. NumSyms(s) = b - a + 1
    BY <1>1, <1>3, <1>9, <1>10 DEF NumSyms
  <1> HIDE DEF a, b
  <1>12. QED
    BY <1>1, <1>3, <1>4, <1>6, <1>7, <1>8, <1>9, <1>10, <1>11

\* The next symbol of the transmission is one that is selected.
LEMMA LeastOf ==
  ASSUME NEW T, T \subseteq Nat, T # {}
  PROVE  Least(T) \in T /\ \A m \in T : Least(T) <= m
  BY NatMin DEF Least

LEMMA AdvanceSelected ==
  ASSUME sym \in Selected(sub), frame \in Nat, Advance
  PROVE  /\ sym' \in Selected(sub)
         /\ frame' = frame \/ (frame' = frame + 1 /\ sym' = Least(Selected(sub)))
  <1> DEFINE later == {n \in Selected(sub) : n > sym}
  <1>1. Selected(sub) \subseteq Nat
    BY OffFacts DEF Selected, OnAir
  <1>2. CASE later # {}
    <2>1. sym' = Least(later) /\ frame' = frame
      BY <1>2 DEF Advance
    <2>2. Least(later) \in later
      BY <1>1, <1>2, LeastOf
    <2>3. QED
      BY <2>1, <2>2
  <1>3. CASE later = {}
    <2>1. sym' = Least(Selected(sub)) /\ frame' = frame + 1
      BY <1>3 DEF Advance
    <2>2. QED
      BY <1>1, <2>1, LeastOf
  <1>4. QED
    BY <1>2, <1>3

-----------------------------------------------------------------------------
\* The types

Symbols == [frame : Nat, sym : Nat]
Buffers == [data : [Slots -> [Places -> Symbols]], syms : [Slots -> 0 .. NumSyms(sub)],
            lframe : Slots, head : Slots, full : BOOLEAN, ready : BOOLEAN, filled : Nat]

\* Where wcbuf writes a symbol: whether it goes on to the next slot, the slot, the place
GoesOn(b)   == b.syms[b.lframe] = NumSyms(sub)
SlotFor(b)  == IF GoesOn(b) THEN (b.lframe + 1) % Depth ELSE b.lframe
PlaceFor(b) == IF GoesOn(b) THEN 1 ELSE b.syms[b.lframe] + 1

\* The operations of wcbuf, field by field
LEMMA WriteIs ==
  ASSUME sub \in Subchannels, NEW b \in Buffers, NEW d \in Symbols
  PROVE  /\ Write(b, d) \in Buffers
         /\ SlotFor(b) \in Slots /\ PlaceFor(b) \in Places
         /\ Write(b, d).data =
              [b.data EXCEPT ![SlotFor(b)] = [b.data[SlotFor(b)] EXCEPT ![PlaceFor(b)] = d]]
         /\ Write(b, d).syms = [b.syms EXCEPT ![SlotFor(b)] = PlaceFor(b)]
         /\ Write(b, d).lframe = SlotFor(b)
         /\ Write(b, d).head = IF GoesOn(b) THEN (b.head + 1) % Depth ELSE b.head
         /\ Write(b, d).full = (b.full \/ SlotFor(b) = Depth - 1)
         /\ Write(b, d).ready = (Write(b, d).full /\ PlaceFor(b) = NumSyms(sub))
         /\ Write(b, d).filled =
              b.filled + (IF PlaceFor(b) = NumSyms(sub) THEN 1 ELSE 0)
  <1> DEFINE next == GoesOn(b)
             l    == SlotFor(b)
             n    == PlaceFor(b)
  <1>a. /\ next = (b.syms[b.lframe] = NumSyms(sub))
        /\ l = IF next THEN (b.lframe + 1) % Depth ELSE b.lframe
        /\ n = IF next THEN 1 ELSE b.syms[l] + 1
    BY DEF GoesOn, SlotFor, PlaceFor
  <1> DEFINE w == [data   |-> [b.data EXCEPT ![l] = [b.data[l] EXCEPT ![n] = d]],
                   syms   |-> [b.syms EXCEPT ![l] = n],
                   lframe |-> l,
                   head   |-> IF next THEN (b.head + 1) % Depth ELSE b.head,
                   full   |-> b.full \/ l = Depth - 1,
                   ready  |-> (b.full \/ l = Depth - 1) /\ n = NumSyms(sub),
                   filled |-> b.filled + (IF n = NumSyms(sub) THEN 1 ELSE 0)]
  <1>1. Write(b, d) = w
    <2> HIDE DEF next, l, n
    <2> DEFINE k == b.syms[b.lframe] = NumSyms(sub)
               i == IF k THEN (b.lframe + 1) % Depth ELSE b.lframe
               m == IF k THEN 1 ELSE b.syms[i] + 1
    <2>1. Write(b, d) =
            [data   |-> [b.data EXCEPT ![i] = [b.data[i] EXCEPT ![m] = d]],
             syms   |-> [b.syms EXCEPT ![i] = m],
             lframe |-> i,
             head   |-> IF k THEN (b.head + 1) % Depth ELSE b.head,
             full   |-> b.full \/ i = Depth - 1,
             ready  |-> (b.full \/ i = Depth - 1) /\ m = NumSyms(sub),
             filled |-> b.filled + (IF m = NumSyms(sub) THEN 1 ELSE 0)]
      BY Zenon DEF Write
    <2>2. k = next /\ i = l /\ m = n
      BY <1>a
    <2> HIDE DEF k, i, m
    <2>3. QED
      BY <2>1, <2>2
  <1> HIDE DEF next, l, n
  <1>2. /\ Depth \in Nat \ {0} /\ NumSyms(sub) \in Nat \ {0}
        /\ b.lframe \in Slots /\ b.head \in Slots /\ b.syms \in [Slots -> 0 .. NumSyms(sub)]
        /\ b.data \in [Slots -> [Places -> Symbols]] /\ b.filled \in Nat
        /\ b.full \in BOOLEAN
    BY GeometryAssumption, SubchannelFacts DEF Buffers
  <1>3. (b.lframe + 1) % Depth \in Slots /\ (b.head + 1) % Depth \in Slots
    <2>1. b.lframe + 1 \in Int /\ b.head + 1 \in Int
      BY <1>2 DEF Slots
    <2>2. QED
      BY <1>2, <2>1, ModDiv DEF Slots
  <1>4. l \in Slots
    BY <1>2, <1>3, <1>a
  <1>5. n \in Places
    <2>1. CASE next
      BY <1>2, <1>a, <2>1 DEF Places
    <2>2. CASE ~next
      <3>1. n = b.syms[b.lframe] + 1 /\ b.syms[b.lframe] # NumSyms(sub)
        BY <1>a, <2>2
      <3>2. b.syms[b.lframe] \in 0 .. NumSyms(sub)
        BY <1>2
      <3>3. QED
        BY <1>2, <3>1, <3>2 DEF Places
    <2>3. QED
      BY <2>1, <2>2
  <1>6. [b.data EXCEPT ![l] = [b.data[l] EXCEPT ![n] = d]] \in [Slots -> [Places -> Symbols]]
    <2>1. [b.data[l] EXCEPT ![n] = d] \in [Places -> Symbols]
      BY <1>2, <1>4, <1>5
    <2>2. QED
      BY <1>2, <1>4, <2>1
  <1>7. [b.syms EXCEPT ![l] = n] \in [Slots -> 0 .. NumSyms(sub)]
    BY <1>2, <1>4, <1>5 DEF Places
  <1>8. w \in Buffers
    BY <1>2, <1>3, <1>4, <1>6, <1>7 DEF Buffers
  <1>9. /\ w.data = [b.data EXCEPT ![l] = [b.data[l] EXCEPT ![n] = d]]
        /\ w.syms = [b.syms EXCEPT ![l] = n]
        /\ w.lframe = l
        /\ w.head = IF next THEN (b.head + 1) % Depth ELSE b.head
        /\ w.full = (b.full \/ l = Depth - 1)
        /\ w.ready = ((b.full \/ l = Depth - 1) /\ n = NumSyms(sub))
        /\ w.filled = b.filled + (IF n = NumSyms(sub) THEN 1 ELSE 0)
    BY Zenon
  <1> HIDE DEF w
  <1>10. QED
    BY <1>1, <1>4, <1>5, <1>8, <1>9, Zenon DEF next, l, n

LEMMA ResetIs ==
  ASSUME sub \in Subchannels, NEW b \in Buffers
  PROVE  /\ ResetBuffer(b) \in Buffers
         /\ ResetBuffer(b).data = b.data
         /\ ResetBuffer(b).syms = [s \in Slots |-> 0]
         /\ ResetBuffer(b).lframe = 0 /\ ResetBuffer(b).head = 0
         /\ ~ResetBuffer(b).full /\ ~ResetBuffer(b).ready /\ ResetBuffer(b).filled = 0
  <1>1. /\ Depth \in Nat \ {0} /\ NumSyms(sub) \in Nat \ {0} /\ 0 \in Slots
    BY GeometryAssumption, SubchannelFacts DEF Slots
  <1>2. ResetBuffer(b) \in Buffers
    <2> DEFINE z == [s \in Slots |-> 0]
               D == [Slots -> [Places -> Symbols]]
               N == [Slots -> 0 .. NumSyms(sub)]
    <2>1. z \in N
      BY <1>1
    <2>2. /\ b \in [data : D, syms : N, lframe : Slots, head : Slots, full : BOOLEAN,
                     ready : BOOLEAN, filled : Nat]
          /\ ResetBuffer(b) = [b EXCEPT !.syms = z, !.lframe = 0, !.head = 0, !.full = FALSE,
                                        !.ready = FALSE, !.filled = 0]
      BY DEF ResetBuffer, Buffers
    <2> HIDE DEF z, D, N
    <2> DEFINE R  == [data : D, syms : N, lframe : Slots, head : Slots, full : BOOLEAN,
                      ready : BOOLEAN, filled : Nat]
               r1 == [b EXCEPT !.syms = z]
               r2 == [r1 EXCEPT !.lframe = 0]
               r3 == [r2 EXCEPT !.head = 0]
               r4 == [r3 EXCEPT !.full = FALSE]
               r5 == [r4 EXCEPT !.ready = FALSE]
               r6 == [r5 EXCEPT !.filled = 0]
    <2>3. ResetBuffer(b) \in R
      <3>1. r1 \in R
        BY <2>1, <2>2
      <3> HIDE DEF r1
      <3>2. r2 \in R
        BY <1>1, <3>1
      <3> HIDE DEF r2
      <3>3. r3 \in R
        BY <1>1, <3>2
      <3> HIDE DEF r3
      <3>4. r4 \in R
        BY <3>3
      <3> HIDE DEF r4
      <3>5. r5 \in R
        BY <3>4
      <3> HIDE DEF r5
      <3>6. r6 \in R
        BY <3>5
      <3>7. ResetBuffer(b) = r6
        BY <2>2 DEF r1, r2, r3, r4, r5
      <3>8. QED
        BY <3>6, <3>7
    <2>4. QED
      BY <2>3 DEF Buffers, D, N
  <1>3. /\ ResetBuffer(b).data = b.data
        /\ ResetBuffer(b).syms = [s \in Slots |-> 0]
        /\ ResetBuffer(b).lframe = 0 /\ ResetBuffer(b).head = 0
        /\ ResetBuffer(b).filled = 0
    BY DEF ResetBuffer, Buffers
  <1>4. ~ResetBuffer(b).full
    BY DEF ResetBuffer, Buffers
  <1>5. ~ResetBuffer(b).ready
    BY DEF ResetBuffer, Buffers
  <1>6. QED
    BY <1>2, <1>3, <1>4, <1>5

\* A symbol that is selected belongs to some CIF, and if the CIFs are apart to one only.
LEMMA StartsOrContinues ==
  ASSUME sub \in Subchannels, NEW n \in Selected(sub), n # FirstSym(sub, 0)
  PROVE  /\ Starts(n) # {} \/ Continues(n) # {}
         /\ ApartAssumption => Starts(n) = {} \/ Continues(n) = {}
  <1>1. /\ n \in Nat
        /\ \E j \in CifIndex : n \in FirstSym(sub, j) .. LastSym(sub, j)
    BY OffFacts DEF Selected, OnAir
  <1>2. \A j \in CifIndex : /\ j \in Nat
                            /\ FirstSym(sub, j) = FirstSym(sub, 0) + Off(j)
                            /\ LastSym(sub, j) = FirstSym(sub, 0) + Off(j) + NumSyms(sub) - 1
    BY SubchannelFacts DEF CifIndex
  <1>3. FirstSym(sub, 0) \in Nat /\ NumSyms(sub) \in Nat \ {0} /\ \A j \in Nat : Off(j) \in Nat
    BY SubchannelFacts, OffFacts
  <1>4. Starts(n) # {} \/ Continues(n) # {}
    <2>1. PICK j \in CifIndex : n \in FirstSym(sub, j) .. LastSym(sub, j)
      BY <1>1
    <2>2. FirstSym(sub, j) \in Int /\ LastSym(sub, j) \in Int
      BY <1>2, <1>3
    <2>3. CASE n = FirstSym(sub, j)
      BY <2>3 DEF Starts
    <2>4. CASE n # FirstSym(sub, j)
      BY <1>1, <2>1, <2>2, <2>4 DEF Continues
    <2>5. QED
      BY <2>3, <2>4
  <1>5. ASSUME ApartAssumption, NEW i \in Starts(n), NEW j \in Continues(n) PROVE FALSE
    <2>1. /\ i \in Nat /\ j \in Nat /\ Off(j) < Off(i)
          /\ Off(i) <= Off(j) + NumSyms(sub) - 1
      BY <1>1, <1>2, <1>3 DEF Starts, Continues
    <2>2. NumSyms(sub) <= SYMSPERCIF
      BY <1>5 DEF ApartAssumption
    <2>3. i < j => Off(i) + SYMSPERCIF <= Off(j)
      BY <2>1, OffFacts
    <2>4. j < i => Off(j) + SYMSPERCIF <= Off(i)
      BY <2>1, OffFacts
    <2>5. Off(i) \in Nat /\ Off(j) \in Nat /\ SYMSPERCIF \in Nat
      BY <2>1, OffFacts
    <2>6. QED
      BY <1>3, <2>1, <2>2, <2>3, <2>4, <2>5
  <1>6. QED
    BY <1>4, <1>5

\* What msc_assemble does to the buffer: it writes the symbol once (or twice, if it
\* belongs to two CIFs), or resets the buffer.
Other(n, d) == n # FirstSym(sub, 0) /\ d.frame % FrameNumbers # curFrame
Wiped(b, r) ==
    /\ r.data = b.data /\ r.syms = [s \in Slots |-> 0]
    /\ r.lframe = 0 /\ r.head = 0 /\ ~r.full /\ ~r.ready /\ r.filled = 0

LEMMA AssembledIs ==
  ASSUME sub \in Subchannels, NEW b \in Buffers, NEW n \in Selected(sub), NEW d \in Symbols
  PROVE  /\ Assembled(b, n, d) \in Buffers
         /\ Other(n, d) => Wiped(b, Assembled(b, n, d))
         /\ ~Other(n, d) => \/ Assembled(b, n, d) = Write(b, d)
                            \/ ~ApartAssumption
                               /\ Assembled(b, n, d) = Write(Write(b, d), d)
  <1> DEFINE op(c) == IF d.frame % FrameNumbers = curFrame THEN Write(c, d) ELSE ResetBuffer(c)
             b1    == IF Starts(n) # {} THEN op(b) ELSE b
  <1>1. Assembled(b, n, d) =
          IF n = FirstSym(sub, 0) THEN Write(b, d)
          ELSE IF Continues(n) # {} THEN op(b1) ELSE b1
    BY Zenon DEF Assembled
  <1>2. \A c \in Buffers : Write(c, d) \in Buffers
    BY WriteIs
  <1>3. \A c \in Buffers : ResetBuffer(c) \in Buffers /\ Wiped(c, ResetBuffer(c))
    BY ResetIs DEF Wiped
  <1>4. CASE n = FirstSym(sub, 0)
    BY <1>1, <1>2, <1>4 DEF Other
  <1>5. CASE n # FirstSym(sub, 0) /\ d.frame % FrameNumbers = curFrame
    <2>1. \A c : op(c) = Write(c, d)
      BY <1>5
    <2>2. ~Other(n, d)
      BY <1>5 DEF Other
    <2>3. /\ Starts(n) # {} \/ Continues(n) # {}
          /\ ApartAssumption => Starts(n) = {} \/ Continues(n) = {}
      BY <1>5, StartsOrContinues
    <2>4. b1 = IF Starts(n) # {} THEN Write(b, d) ELSE b
      BY <2>1
    <2>5. Assembled(b, n, d) = IF Continues(n) # {} THEN Write(b1, d) ELSE b1
      BY <1>1, <1>5, <2>1
    <2> HIDE DEF op, b1
    <2>6. QED
      BY <1>2, <2>2, <2>3, <2>4, <2>5
  <1>6. CASE n # FirstSym(sub, 0) /\ d.frame % FrameNumbers # curFrame
    <2>1. \A c : op(c) = ResetBuffer(c)
      BY <1>6
    <2>2. Other(n, d)
      BY <1>6 DEF Other
    <2>3. Starts(n) # {} \/ Continues(n) # {}
      BY <1>6, StartsOrContinues
    <2>4. b1 = IF Starts(n) # {} THEN ResetBuffer(b) ELSE b
      BY <2>1
    <2>5. Assembled(b, n, d) = IF Continues(n) # {} THEN ResetBuffer(b1) ELSE b1
      BY <1>1, <1>6, <2>1
    <2>6. Wiped(b, ResetBuffer(b)) /\ Wiped(b, ResetBuffer(ResetBuffer(b)))
      BY <1>3 DEF Wiped
    <2> HIDE DEF op, b1
    <2>7. QED
      BY <1>3, <2>2, <2>3, <2>4, <2>5, <2>6
  <1>7. QED
    BY <1>4, <1>5, <1>6

\* The parts of TypeOK, with the next symbol one that is selected
Typed == TypeOK /\ sym \in Selected(sub)

LEMMA BufferType ==
  ASSUME Typed
  PROVE  /\ Buffer \in Buffers /\ sub \in Subchannels
         /\ [frame |-> frame, sym |-> sym] \in Symbols
  <1>1. frame \in Nat /\ sym \in Nat
    BY GeometryAssumption, OffFacts DEF Typed, TypeOK, OnAir
  <1>2. FALSE \in BOOLEAN
    OBVIOUS
  <1>3. QED
    BY <1>1, <1>2 DEF Typed, TypeOK, Buffer, Buffers, Symbols

LEMMA ReceiveType ==
  ASSUME Typed, Receive
  PROVE  Typed'
  <1> DEFINE d == [frame |-> frame, sym |-> sym]
             b == Assembled(Buffer, sym, d)
  <1>1. b \in Buffers
    BY BufferType, AssembledIs DEF Typed
  <1>2. /\ data' = b.data /\ syms' = b.syms /\ lframe' = b.lframe /\ head' = b.head
        /\ full' = b.full /\ decoding' = b.ready /\ filled' = b.filled
        /\ curFrame' = IF sym = FirstSym(sub, 0) THEN frame % FrameNumbers ELSE curFrame
        /\ sub' = sub /\ lost' = lost
    BY DEF Receive
  <1>3. unnoticed' \in BOOLEAN /\ decoded' \in Nat
    BY DEF Receive, Typed, TypeOK
  <1>4. /\ frame \in Nat /\ frame <= MaxFrames /\ MaxFrames \in Nat
        /\ FrameNumbers \in Nat \ {0} /\ curFrame \in 0 .. FrameNumbers - 1
    BY GeometryAssumption DEF Receive, Typed, TypeOK
  <1>5. curFrame' \in 0 .. FrameNumbers - 1
    <2>1. frame % FrameNumbers \in 0 .. FrameNumbers - 1
      BY <1>4, ModDiv
    <2>2. QED
      BY <1>2, <1>4, <2>1
  <1>6. sym' \in Selected(sub) /\ frame' \in 0 .. MaxFrames + 1
    <2>1. sym \in Selected(sub) /\ Advance
      BY DEF Receive, Typed
    <2>2. QED
      BY <1>4, <2>1, AdvanceSelected
  <1>7. sym' \in OnAir
    BY <1>6 DEF Selected
  <1> HIDE DEF b
  <1>8. /\ data' \in [Slots -> [Places -> Symbols]]
        /\ syms' \in [Slots -> 0 .. NumSyms(sub)]
        /\ lframe' \in Slots /\ head' \in Slots /\ full' \in BOOLEAN
        /\ decoding' \in BOOLEAN /\ filled' \in Nat
    BY <1>1, <1>2 DEF Buffers
  <1>9. QED
    BY <1>2, <1>3, <1>5, <1>6, <1>7, <1>8 DEF Typed, TypeOK, Symbols, Places, Selected, FirstSym,
       LastSym, NumSyms, Slots, OnAir

LEMMA TypedInit ==
  ASSUME Init
  PROVE  Typed
  <1>1. /\ sub \in Subchannels /\ sym \in Selected(sub) /\ frame \in {0, 1} /\ lost = 0
        /\ lframe = 0 /\ head = 0 /\ curFrame = 0 /\ filled = 0 /\ decoded = 0
    BY DEF Init
  <1>2. full \in BOOLEAN /\ decoding \in BOOLEAN /\ unnoticed \in BOOLEAN
    BY DEF Init
  <1>3. /\ Depth \in Nat \ {0} /\ FrameNumbers \in Nat \ {0} /\ MaxFrames \in Nat
        /\ MaxLost \in Nat /\ NumSyms(sub) \in Nat
    BY <1>1, GeometryAssumption, SubchannelFacts
  <1>4. syms \in [Slots -> 0 .. NumSyms(sub)]
    BY <1>3 DEF Init
  <1>5. data \in [Slots -> [Places -> [frame : Nat, sym : Nat]]]
    <2>1. NoSymbol \in [frame : Nat, sym : Nat]
      BY DEF NoSymbol
    <2>2. QED
      BY <2>1 DEF Init
  <1>6. sym \in OnAir
    BY <1>1 DEF Selected
  <1>7. lframe \in Slots /\ head \in Slots /\ curFrame \in 0 .. FrameNumbers - 1
        /\ frame \in 0 .. MaxFrames + 1 /\ lost \in 0 .. MaxLost
    BY <1>1, <1>3 DEF Slots
  <1>8. QED
    BY <1>1, <1>2, <1>4, <1>5, <1>6, <1>7 DEF Typed, TypeOK

LEMMA TypedNext ==
  ASSUME Typed, [Next]_vars
  PROVE  Typed'
  <1>1. CASE Receive
    BY <1>1, ReceiveType
  <1>2. CASE Lose
    <2>1. sym \in Selected(sub) /\ Advance /\ frame \in 0 .. MaxFrames + 1 /\ frame <= MaxFrames
      BY <1>2 DEF Lose, Typed, TypeOK
    <2>2. MaxFrames \in Nat /\ MaxLost \in Nat
      BY GeometryAssumption
    <2>3. sym' \in Selected(sub) /\ frame' \in 0 .. MaxFrames + 1
      BY <2>1, <2>2, AdvanceSelected
    <2> lost' \in 0 .. MaxLost
      BY <1>2, <2>2 DEF Lose, Typed, TypeOK
    <2> unnoticed' \in BOOLEAN /\ decoding' \in BOOLEAN
      BY <1>2 DEF Lose
    <2>4. UNCHANGED <<sub, data, syms, lframe, head, full, curFrame, filled, decoded>>
      BY <1>2 DEF Lose, cbuf
    <2>5. sym' \in OnAir
      BY <2>3 DEF Selected
    <2>6. QED
      BY <2>3, <2>4, <2>5 DEF Typed, TypeOK, Places, Selected, FirstSym, LastSym, NumSyms,
         Slots, OnAir
  <1>3. CASE UNCHANGED vars
    BY <1>3 DEF vars, cbuf, sent, Typed, TypeOK, Places, Selected, FirstSym, LastSym, NumSyms,
       Slots, OnAir
  <1>4. QED
    BY <1>1, <1>2, <1>3 DEF Next

LEMMA AlwaysTyped == Spec => []Typed
  BY TypedInit, TypedNext, PTL DEF Spec

\* The variables keep their types.
THEOREM AssemblerTyped == Spec => []TypeOK
  <1>1. Typed => TypeOK
    BY DEF Typed
  <1>2. QED
    BY <1>1, AlwaysTyped, PTL

-----------------------------------------------------------------------------
\* How many slots have been completed

Current == IF syms[lframe] = NumSyms(sub) THEN 1 ELSE 0

\* The ring is marked full when its last slot is begun.
FillInv ==
    /\ decoded = IF filled < Depth THEN 0 ELSE filled - Depth + 1
    /\ full => filled >= Depth - 1 + Current
    /\ ~full => /\ filled = lframe + Current
                /\ lframe < Depth - 1 \/ Current = 0

LEMMA ReceiveFills ==
  ASSUME ApartAssumption, Typed, FillInv, Receive
  PROVE  FillInv'
  <1> DEFINE d == [frame |-> frame, sym |-> sym]
             b == Assembled(Buffer, sym, d)
  <1>1. Buffer \in Buffers /\ d \in Symbols /\ sub \in Subchannels /\ sym \in Selected(sub)
    BY BufferType DEF Typed
  <1>2. /\ syms' = b.syms /\ lframe' = b.lframe /\ full' = b.full
        /\ filled' = b.filled /\ sub' = sub /\ decoding' = b.ready
        /\ decoded' = IF Other(sym, d) THEN 0 ELSE decoded + (IF b.ready THEN 1 ELSE 0)
    BY DEF Receive, Other
  <1>3. /\ Depth \in Nat \ {0} /\ NumSyms(sub) \in Nat \ {0} /\ lframe \in Slots
        /\ filled \in Nat /\ full \in BOOLEAN /\ syms \in [Slots -> 0 .. NumSyms(sub)]
        /\ decoded \in Nat
    BY <1>1, GeometryAssumption, SubchannelFacts DEF Typed, TypeOK
  <1> 0 \in Slots
    BY <1>3 DEF Slots
  <1>4. Current' = IF b.syms[b.lframe] = NumSyms(sub) THEN 1 ELSE 0
    BY <1>2 DEF Current, NumSyms, FirstSym, LastSym
  <1>5. CASE Other(sym, d)
    <2>1. Wiped(Buffer, b)
      BY <1>1, <1>5, AssembledIs
    <2> HIDE DEF b
    <2>2. lframe' = 0 /\ ~full' /\ filled' = 0 /\ decoded' = 0 /\ Current' = 0
      BY <1>2, <1>3, <1>4, <1>5, <2>1 DEF Wiped
    <2>3. QED
      BY <1>3, <2>2 DEF FillInv
  <1>6. CASE ~Other(sym, d)
    <2> DEFINE next == syms[lframe] = NumSyms(sub)
               l == IF next THEN (lframe + 1) % Depth ELSE lframe
               n == IF next THEN 1 ELSE syms[lframe] + 1
               last == IF n = NumSyms(sub) THEN 1 ELSE 0
    <2>1. b = Write(Buffer, d)
      BY <1>1, <1>6, AssembledIs
    <2>2. /\ Buffer.syms = syms /\ Buffer.lframe = lframe /\ Buffer.full = full
          /\ Buffer.filled = filled
      BY DEF Buffer
    <2>3. /\ l \in Slots /\ b.syms = [syms EXCEPT ![l] = n] /\ b.lframe = l
          /\ b.full = (full \/ l = Depth - 1)
          /\ b.ready = (b.full /\ n = NumSyms(sub))
          /\ b.filled = filled + last
      <3>1. next = GoesOn(Buffer) /\ l = SlotFor(Buffer) /\ n = PlaceFor(Buffer)
        BY <2>2 DEF GoesOn, SlotFor, PlaceFor
      <3> HIDE DEF b, d, l, n, next
      <3>2. /\ l \in Slots
            /\ Write(Buffer, d).syms = [Buffer.syms EXCEPT ![l] = n]
            /\ Write(Buffer, d).lframe = l
            /\ Write(Buffer, d).full = (Buffer.full \/ l = Depth - 1)
            /\ Write(Buffer, d).ready = (Write(Buffer, d).full /\ n = NumSyms(sub))
            /\ Write(Buffer, d).filled = Buffer.filled + (IF n = NumSyms(sub) THEN 1 ELSE 0)
        BY <1>1, <3>1, WriteIs, Zenon
      <3> HIDE DEF last
      <3>3. b.filled = filled + last /\ b.syms = [syms EXCEPT ![l] = n] /\ b.lframe = l
        <4>1. b.syms = [syms EXCEPT ![l] = n] /\ b.lframe = l
          BY <2>1, <2>2, <3>2
        <4>2. b.filled = filled + last
          BY <2>1, <2>2, <3>2, Zenon DEF last
        <4>3. QED
          BY <4>1, <4>2
      <3>4. b.full = (full \/ l = Depth - 1)
        BY <2>1, <2>2, <3>2, Zenon
      <3>5. b.ready = (b.full /\ n = NumSyms(sub))
        BY <2>1, <3>2, Zenon
      <3>6. QED
        BY <3>2, <3>3, <3>4, <3>5, Zenon
    <2>4. next => l = IF lframe = Depth - 1 THEN 0 ELSE lframe + 1
      <3>1. lframe \in 0 .. Depth - 1 /\ Depth % Depth = 0
        BY <1>3 DEF Slots
      <3>2. lframe + 1 < Depth => (lframe + 1) % Depth = lframe + 1
        BY <1>3, <3>1
      <3>3. QED
        BY <1>3, <3>1, <3>2
    <2>5. Current = IF next THEN 1 ELSE 0
      BY DEF Current
    <2> HIDE DEF b, l, n, next
    <2>6. Current' = last
      BY <1>3, <1>4, <2>3
    <2>7. /\ lframe' = l /\ full' = (full \/ l = Depth - 1) /\ filled' = filled + last
          /\ decoded' = decoded + (IF full' /\ last = 1 THEN 1 ELSE 0)
      BY <1>2, <1>6, <2>3
    <2>8. l \in 0 .. Depth - 1 /\ lframe \in 0 .. Depth - 1
      BY <1>3, <2>3 DEF Slots
    <2>9. ~next => l = lframe
      BY DEF l
    <2>10. last \in {0, 1}
      OBVIOUS
    <2> HIDE DEF last
    <2>11. CASE full
      <3> full'
        BY <2>7, <2>11, Zenon
      <3> Current \in {0, 1}
        BY DEF Current
      <3>1. full' /\ filled >= Depth - 1
        BY <1>3, <2>11 DEF FillInv
      <3>2. filled' >= Depth - 1 + last
        BY <1>3, <2>7, <2>10, <3>1
      <3>3. decoded' = IF filled' < Depth THEN 0 ELSE filled' - Depth + 1
        BY <1>3, <2>7, <2>10, <3>1, <3>2 DEF FillInv
      <3>4. QED
        BY <2>6, <3>1, <3>2, <3>3 DEF FillInv
    <2>12. CASE ~full
      <3>1. filled = lframe + Current /\ (lframe < Depth - 1 \/ Current = 0)
        BY <2>12 DEF FillInv
      <3>2. filled = l
        BY <1>3, <2>4, <2>5, <2>8, <2>9, <3>1
      <3>3. full' = (l = Depth - 1) /\ filled' = l + last
        BY <2>7, <2>12, <3>2
      <3>4. l <= Depth - 1 /\ l \in Nat
        BY <1>3, <2>8
      <3>5. decoded = 0
        BY <1>3, <3>2, <3>4 DEF FillInv
      <3>6. decoded' = IF filled' < Depth THEN 0 ELSE filled' - Depth + 1
        <4>1. full' <=> l = Depth - 1
          BY <3>3, Zenon
        <4>2. decoded' = IF full' /\ last = 1 THEN 1 ELSE 0
          <5>1. (IF full' /\ last = 1 THEN 1 ELSE 0) \in {0, 1}
            BY Zenon
          <5>2. QED
            BY <2>7, <3>5, <5>1
        <4>3. CASE l = Depth - 1 /\ last = 1
          <5>1. decoded' = 1
            BY <4>1, <4>2, <4>3, Zenon
          <5>2. filled' = Depth
            BY <1>3, <3>3, <4>3
          <5>3. QED
            BY <1>3, <5>1, <5>2
        <4>4. CASE ~(l = Depth - 1 /\ last = 1)
          <5>1. decoded' = 0
            BY <4>1, <4>2, <4>4, Zenon
          <5>2. filled' < Depth
            <6>1. l < Depth - 1 \/ last = 0
              BY <1>3, <2>10, <3>4, <4>4
            <6>2. QED
              BY <1>3, <2>10, <3>3, <3>4, <6>1
          <5>3. QED
            BY <5>1, <5>2
        <4>5. QED
          BY <4>3, <4>4
      <3>7. QED
        BY <1>3, <2>6, <2>7, <2>10, <3>3, <3>4, <3>6 DEF FillInv
    <2>13. QED
      BY <2>11, <2>12
  <1>7. QED
    BY <1>5, <1>6

\* If no subchannel takes a CIF from its first symbol to its end, whatever is lost no
\* logical frame is decoded before the ring has been filled since the last reset, and from
\* then on every slot that is completed is decoded (full in wcbuf and msc_assemble).
THEOREM EveryFilledSlotDecoded == ApartAssumption /\ Spec => []DecodesEveryFilledSlot
  <1> SUFFICES ASSUME ApartAssumption PROVE Spec => []DecodesEveryFilledSlot
    OBVIOUS
  <1>1. Init => FillInv
    <2> SUFFICES ASSUME Init PROVE FillInv
      OBVIOUS
    <2>1. Depth \in Nat \ {0} /\ NumSyms(sub) \in Nat \ {0} /\ 0 \in Slots
      BY GeometryAssumption, SubchannelFacts, SMTT(30) DEF Init, Slots
    <2>2. Current = 0
      BY <2>1 DEF Init, Current
    <2>3. QED
      BY <2>1, <2>2 DEF Init, FillInv
  <1>2. Typed /\ FillInv /\ [Next]_vars => FillInv'
    <2> SUFFICES ASSUME Typed, FillInv, [Next]_vars PROVE FillInv'
      OBVIOUS
    <2>1. CASE Receive
      BY <2>1, ReceiveFills
    <2>2. CASE Lose \/ UNCHANGED vars
      BY <2>2 DEF Lose, vars, cbuf, FillInv, Current, NumSyms, FirstSym, LastSym
    <2>3. QED
      BY <2>1, <2>2 DEF Next
  <1>3. FillInv => DecodesEveryFilledSlot
    BY DEF FillInv, DecodesEveryFilledSlot
  <1>4. QED
    BY <1>1, <1>2, <1>3, AlwaysTyped, PTL DEF Spec
-----------------------------------------------------------------------------
\* The order of the symbols, when no subchannel ends with the CIF

\* Symbol k of the subchannel's CIF j
SymOf(j, k) == FirstSym(sub, 0) + Off(j) + k - 1

LEMMA InnerFacts ==
  ASSUME InnerAssumption, sub \in Subchannels
  PROVE  /\ ApartAssumption
         /\ FirstSym(sub, 0) \in Nat /\ NumSyms(sub) \in Nat \ {0}
         /\ MSCSTART <= FirstSym(sub, 0) /\ NumSyms(sub) <= SYMSPERCIF
         /\ FirstSym(sub, 0) + NumSyms(sub) <= MSCSTART + SYMSPERCIF
         /\ \A j \in CifIndex : /\ FirstSym(sub, j) = SymOf(j, 1)
                               /\ LastSym(sub, j) = SymOf(j, NumSyms(sub))
  <1>1. \A s \in Subchannels :
          /\ FirstSym(s, 0) \in Nat /\ NumSyms(s) \in Nat \ {0}
          /\ MSCSTART <= FirstSym(s, 0)
          /\ FirstSym(s, 0) + NumSyms(s) <= MSCSTART + SYMSPERCIF
    BY SubchannelFacts
  <1>2. \A s \in Subchannels : NumSyms(s) <= SYMSPERCIF
    BY <1>1, OffFacts
  <1>3. \A j \in CifIndex : /\ FirstSym(sub, j) = SymOf(j, 1)
                            /\ LastSym(sub, j) = SymOf(j, NumSyms(sub))
    <2> SUFFICES ASSUME NEW j \in CifIndex
                 PROVE  /\ FirstSym(sub, j) = SymOf(j, 1)
                        /\ LastSym(sub, j) = SymOf(j, NumSyms(sub))
      OBVIOUS
    <2>1. j \in Nat
      BY DEF CifIndex
    <2>2. /\ FirstSym(sub, j) = FirstSym(sub, 0) + Off(j)
          /\ LastSym(sub, j) = FirstSym(sub, 0) + Off(j) + NumSyms(sub) - 1
      BY <2>1, SubchannelFacts
    <2>3. Off(j) \in Nat /\ FirstSym(sub, 0) \in Nat
      BY <1>1, <2>1, OffFacts
    <2>4. QED
      BY <2>2, <2>3 DEF SymOf
  <1>4. QED
    BY <1>1, <1>2, <1>3 DEF ApartAssumption

LEMMA SelectedIs ==
  ASSUME InnerAssumption, sub \in Subchannels
  PROVE  /\ \A n \in Selected(sub) :
              \E j \in CifIndex, k \in Places : n = SymOf(j, k)
         /\ \A j \in CifIndex, k \in Places : SymOf(j, k) \in Selected(sub)
  <1>1. /\ FirstSym(sub, 0) \in Nat /\ NumSyms(sub) \in Nat \ {0}
        /\ MSCSTART <= FirstSym(sub, 0) /\ NumSyms(sub) <= SYMSPERCIF
        /\ FirstSym(sub, 0) + NumSyms(sub) <= MSCSTART + SYMSPERCIF
    BY InnerFacts
  <1>2. \A j \in CifIndex : /\ FirstSym(sub, j) = SymOf(j, 1)
                            /\ LastSym(sub, j) = SymOf(j, NumSyms(sub))
    BY InnerFacts
  <1>3. /\ MSCSTART \in Nat /\ SYMSPERCIF \in Nat
        /\ \A j \in CifIndex : j \in Nat /\ Off(j) \in Nat
    <2>1. \A j \in CifIndex : j \in Nat
      BY DEF CifIndex
    <2>2. \A j \in Nat : Off(j) \in Nat
      BY OffFacts
    <2>3. QED
      BY <2>1, <2>2, OffFacts
  <1>4. ASSUME NEW n \in Selected(sub)
        PROVE  \E j \in CifIndex, k \in Places : n = SymOf(j, k)
    <2>1. PICK j \in CifIndex : n \in SymOf(j, 1) .. SymOf(j, NumSyms(sub))
      BY <1>2 DEF Selected
    <2>2. /\ n \in Int /\ Off(j) \in Nat
          /\ FirstSym(sub, 0) + Off(j) <= n
          /\ n <= FirstSym(sub, 0) + Off(j) + NumSyms(sub) - 1
      BY <1>1, <1>3, <2>1 DEF SymOf
    <2> DEFINE k == n - (FirstSym(sub, 0) + Off(j)) + 1
    <2>3. k \in Places /\ n = SymOf(j, k)
      BY <1>1, <2>2 DEF Places, SymOf
    <2>4. QED
      BY <2>3
  <1>5. ASSUME NEW j \in CifIndex, NEW k \in Places
        PROVE  SymOf(j, k) \in Selected(sub)
    <2>1. k \in Nat /\ 1 <= k /\ k <= NumSyms(sub) /\ Off(j) \in Nat /\ j \in Nat
      BY <1>1, <1>3 DEF Places
    <2>2. SymOf(j, k) \in FirstSym(sub, j) .. LastSym(sub, j)
      BY <1>1, <1>2, <2>1 DEF SymOf
    <2>3. Off(j) + SYMSPERCIF <= Off(Cifs) /\ Off(Cifs) \in Nat
      <3>1. Cifs \in Nat /\ j < Cifs
        BY GeometryAssumption DEF CifIndex
      <3>2. QED
        BY <2>1, <3>1, OffFacts
    <2>4. SymOf(j, k) \in MSCSTART .. MSCSTART + Off(Cifs) - 1
      <3>1. SymOf(j, k) = FirstSym(sub, 0) + Off(j) + k - 1
        BY DEF SymOf
      <3> HIDE DEF SymOf
      <3>2. SymOf(j, k) \in Int /\ MSCSTART <= SymOf(j, k)
        BY <1>1, <1>3, <2>1, <3>1
      <3>3. SymOf(j, k) <= MSCSTART + SYMSPERCIF + Off(j) - 1
        BY <1>1, <1>3, <2>1, <3>1
      <3>4. SymOf(j, k) <= MSCSTART + Off(Cifs) - 1
        BY <1>3, <2>1, <2>3, <3>2, <3>3
      <3>5. QED
        BY <1>3, <2>3, <3>2, <3>4
    <2>5. Off(Cifs) = Cifs * SYMSPERCIF
      BY DEF Off
    <2>6. SymOf(j, k) \in OnAir
      BY <2>4, <2>5 DEF OnAir
    <2>7. QED
      BY <2>2, <2>6 DEF Selected
  <1>6. QED
    BY <1>4, <1>5

\* The next symbol after symbol k of CIF j of frame f
Following(f, j, k) ==
    IF k < NumSyms(sub) THEN frame = f /\ sym = SymOf(j, k + 1)
    ELSE IF j < Cifs - 1 THEN frame = f /\ sym = SymOf(j + 1, 1)
    ELSE frame = f + 1 /\ sym = SymOf(0, 1)

LEMMA Advances ==
  ASSUME InnerAssumption, sub \in Subchannels, NEW f \in Nat, frame = f,
         NEW j \in CifIndex, NEW k \in Places, sym = SymOf(j, k), Advance, sub' = sub
  PROVE  Following(f, j, k)'
  <1> DEFINE later == {n \in Selected(sub) : n > sym}
             N == NumSyms(sub)
             F == FirstSym(sub, 0)
  <1>1. /\ F \in Nat /\ N \in Nat \ {0} /\ N <= SYMSPERCIF /\ SYMSPERCIF \in Nat
        /\ k \in 1 .. N /\ Cifs \in Nat /\ j \in Nat /\ j <= Cifs - 1 /\ 0 \in CifIndex
    BY InnerFacts, GeometryAssumption DEF Places, CifIndex
  <1>2. \A i \in CifIndex : i \in Nat /\ Off(i) \in Nat
    <2>1. \A i \in CifIndex : i \in Nat
      BY DEF CifIndex
    <2>2. QED
      BY <2>1, OffFacts
  <1>3. NumSyms(sub)' = N /\ \A i, m : SymOf(i, m)' = SymOf(i, m)
    BY DEF NumSyms, FirstSym, LastSym, SymOf
  <1>4. \A i, m : SymOf(i, m) = F + Off(i) + m - 1
    BY DEF SymOf
  <1>5. Selected(sub) \subseteq Nat /\ \A n \in Selected(sub) : n \in Int
    BY OffFacts DEF Selected, OnAir
  <1>6. ASSUME NEW x \in later, \A n \in later : x <= n
        PROVE  sym' = x /\ frame' = f
    <2>1. Least(later) \in later /\ \A n \in later : Least(later) <= n
      BY <1>5, <1>6, LeastOf
    <2>2. Least(later) = x
      BY <1>5, <1>6, <2>1
    <2>3. QED
      BY <1>6, <2>2 DEF Advance
  <1>7. \A n \in Selected(sub) : \E i \in CifIndex, m \in 1 .. N : n = SymOf(i, m)
    BY SelectedIs DEF Places
  <1>8. \A i \in CifIndex, m \in 1 .. N : SymOf(i, m) \in Selected(sub)
    BY SelectedIs DEF Places
  <1>9. \A i \in CifIndex : i < j => Off(i) + SYMSPERCIF <= Off(j)
    BY <1>1, <1>2, OffFacts
  <1>10. \A i \in CifIndex : j < i => Off(j) + SYMSPERCIF <= Off(i)
    BY <1>1, <1>2, OffFacts
  <1> HIDE DEF N, F
  <1>11. CASE k < N
    <2> DEFINE x == SymOf(j, k + 1)
    <2>1. k + 1 \in 1 .. N /\ x = sym + 1 /\ sym \in Int
      BY <1>1, <1>2, <1>4, <1>11
    <2>2. x \in later
      BY <1>5, <1>8, <2>1
    <2>3. \A n \in later : x <= n
      BY <1>5, <2>1
    <2> HIDE DEF x
    <2>4. sym' = x /\ frame' = f
      BY <1>6, <2>2, <2>3
    <2>5. QED
      BY <1>3, <1>11, <2>4 DEF Following, x
  <1>12. CASE k = N /\ j < Cifs - 1
    <2> DEFINE x == SymOf(j + 1, 1)
    <2>1. j + 1 \in CifIndex /\ Off(j + 1) = Off(j) + SYMSPERCIF /\ 1 \in 1 .. N
      BY <1>1, <1>12, OffFacts DEF CifIndex
    <2>2. x \in later
      <3>1. x \in Selected(sub)
        BY <1>8, <2>1
      <3>2. x > sym
        BY <1>1, <1>2, <1>4, <1>12, <2>1
      <3>3. QED
        BY <3>1, <3>2
    <2>3. ASSUME NEW n \in later PROVE x <= n
      <3>1. PICK i \in CifIndex, m \in 1 .. N : n = SymOf(i, m)
        BY <1>7
      <3>2. /\ n = F + Off(i) + m - 1 /\ sym = F + Off(j) + k - 1 /\ sym < n
            /\ Off(i) \in Nat /\ Off(j) \in Nat /\ i \in Nat
            /\ x = F + Off(j) + SYMSPERCIF
        BY <1>1, <1>2, <1>4, <2>1, <3>1
      <3> HIDE DEF x
      <3>3. ~(i < j)
        BY <1>1, <1>9, <1>12, <3>2
      <3>4. i # j
        BY <1>1, <1>12, <3>2
      <3>5. Off(j) + SYMSPERCIF <= Off(i)
        BY <1>1, <1>10, <3>2, <3>3, <3>4
      <3>6. QED
        BY <1>1, <3>2, <3>5
    <2> HIDE DEF x
    <2>4. sym' = x /\ frame' = f
      BY <1>6, <2>2, <2>3
    <2>5. ~(k < N)
      BY <1>1, <1>12
    <2>6. QED
      BY <1>3, <1>12, <2>4, <2>5 DEF Following, x
  <1>13. CASE k = N /\ j = Cifs - 1
    <2>1. later = {}
      <3> SUFFICES ASSUME NEW n \in later PROVE FALSE
        OBVIOUS
      <3>1. PICK i \in CifIndex, m \in 1 .. N : n = SymOf(i, m)
        BY <1>7
      <3>2. /\ n = F + Off(i) + m - 1 /\ sym = F + Off(j) + k - 1 /\ sym < n
            /\ Off(i) \in Nat /\ Off(j) \in Nat /\ i \in Nat
        BY <1>1, <1>2, <1>4, <3>1
      <3>3. i <= j
        BY <1>13 DEF CifIndex
      <3>4. ~(i < j)
        BY <1>1, <1>9, <1>13, <3>2
      <3>5. i = j
        BY <1>1, <3>2, <3>3, <3>4
      <3>6. QED
        BY <1>1, <1>13, <3>2, <3>5
    <2>2. sym' = Least(Selected(sub)) /\ frame' = f + 1
      BY <2>1 DEF Advance
    <2>3. SymOf(0, 1) \in Selected(sub) /\ SymOf(0, 1) = F
      BY <1>1, <1>4, <1>8, OffFacts
    <2>4. \A n \in Selected(sub) : F <= n
      <3> SUFFICES ASSUME NEW n \in Selected(sub) PROVE F <= n
        OBVIOUS
      <3>1. PICK i \in CifIndex, m \in 1 .. N : n = SymOf(i, m)
        BY <1>7
      <3>2. QED
        BY <1>1, <1>2, <1>4, <3>1
    <2>5. Least(Selected(sub)) = SymOf(0, 1)
      <3>1. /\ Least(Selected(sub)) \in Selected(sub)
            /\ \A n \in Selected(sub) : Least(Selected(sub)) <= n
        BY <1>5, <2>3, LeastOf
      <3>2. QED
        BY <1>1, <1>5, <2>3, <2>4, <3>1
    <2>6. ~(k < N) /\ ~(j < Cifs - 1)
      BY <1>1, <1>13
    <2>7. QED
      BY <1>3, <2>2, <2>5, <2>6 DEF Following
  <1>14. QED
    BY <1>1, <1>11, <1>12, <1>13

-----------------------------------------------------------------------------
\* What the ring holds

\* How many slots before the newest a slot is, and the number of CIF j of frame f
Age(s)         == IF s <= lframe THEN lframe - s ELSE lframe - s + Depth
Position(f, j) == (f - 1) * Cifs + j

\* Slot s holds the symbols of CIF n, in their order.
Holds(s, n) == \A i \in Places : /\ data[s][i].sym = data[s][1].sym + i - 1
                                /\ CifOf(data[s][i]) = n

\* The symbols of CIF j of frame f arrive in the newest slot, the older slots hold the CIFs
\* before it.
Collected(f, j) ==
    /\ syms[lframe] > 0
    /\ curFrame = f % FrameNumbers
    /\ Following(f, j, syms[lframe])
    /\ \A i \in 1 .. syms[lframe] : data[lframe][i] = [frame |-> f, sym |-> SymOf(j, i)]
    /\ \A s \in Slots \ {lframe} :
          full \/ s < lframe => Holds(s, Position(f, j) - Age(s))
    /\ decoding => full /\ syms[lframe] = NumSyms(sub)

\* The buffer was reset, and stays so until a frame begins.
Idle ==
    /\ syms = [s \in Slots |-> 0] /\ lframe = 0 /\ ~full /\ ~decoding
    /\ sym = FirstSym(sub, 0) \/ frame % FrameNumbers # curFrame

RingInv ==
    /\ head = lframe
    /\ ~unnoticed => Idle \/ \E f \in Nat, j \in CifIndex : Collected(f, j)

LEMMA CifOfSymbol ==
  ASSUME InnerAssumption, sub \in Subchannels, NEW f \in Nat, NEW j \in CifIndex,
         NEW k \in Places
  PROVE  CifOf([frame |-> f, sym |-> SymOf(j, k)]) = Position(f, j)
  <1> DEFINE r == FirstSym(sub, 0) - MSCSTART + k - 1
  <1>1. /\ FirstSym(sub, 0) \in Nat /\ NumSyms(sub) \in Nat /\ MSCSTART \in Nat
        /\ MSCSTART <= FirstSym(sub, 0) /\ SYMSPERCIF \in Nat \ {0} /\ j \in Nat
        /\ FirstSym(sub, 0) + NumSyms(sub) <= MSCSTART + SYMSPERCIF
    BY InnerFacts, GeometryAssumption DEF CifIndex
  <1>2. r \in 0 .. SYMSPERCIF - 1
    BY <1>1 DEF Places
  <1>3. SymOf(j, k) - MSCSTART = SYMSPERCIF * j + r
    <2>1. j * SYMSPERCIF = SYMSPERCIF * j /\ SYMSPERCIF * j \in Int
      BY <1>1
    <2>2. k \in Int
      BY <1>1 DEF Places
    <2>3. QED
      BY <1>1, <2>1, <2>2 DEF SymOf, Off
  <1> HIDE DEF r
  <1>4. (SYMSPERCIF * j + r) \div SYMSPERCIF = j
    BY <1>1, <1>2, DivOf
  <1>5. QED
    BY <1>3, <1>4 DEF CifOf, Position

\* What a reception that does not reset the buffer does to the variables
SlotOf  == IF syms[lframe] # NumSyms(sub) THEN lframe ELSE (lframe + 1) % Depth
PlaceOf == IF syms[lframe] # NumSyms(sub) THEN syms[lframe] + 1 ELSE 1

LEMMA ReceiveWrites ==
  ASSUME InnerAssumption, Typed, Receive, ~Other(sym, [frame |-> frame, sym |-> sym])
  PROVE  /\ SlotOf \in Slots /\ PlaceOf \in Places
         /\ data' = [data EXCEPT ![SlotOf] =
                       [data[SlotOf] EXCEPT ![PlaceOf] = [frame |-> frame, sym |-> sym]]]
         /\ syms' = [syms EXCEPT ![SlotOf] = PlaceOf]
         /\ lframe' = SlotOf
         /\ head' = IF syms[lframe] # NumSyms(sub) THEN head ELSE (head + 1) % Depth
         /\ full' = (full \/ SlotOf = Depth - 1)
         /\ decoding' = (full' /\ PlaceOf = NumSyms(sub))
  <1> DEFINE d == [frame |-> frame, sym |-> sym]
             l == SlotFor(Buffer)
             n == PlaceFor(Buffer)
  <1>1. Buffer \in Buffers /\ d \in Symbols /\ sub \in Subchannels /\ sym \in Selected(sub)
    BY BufferType DEF Typed
  <1>2. Assembled(Buffer, sym, d) = Write(Buffer, d)
    BY <1>1, AssembledIs, InnerFacts
  <1>3. /\ data' = Write(Buffer, d).data /\ syms' = Write(Buffer, d).syms
        /\ lframe' = Write(Buffer, d).lframe /\ head' = Write(Buffer, d).head
        /\ full' = Write(Buffer, d).full /\ decoding' = Write(Buffer, d).ready
    BY <1>2 DEF Receive
  <1>4. /\ Buffer.data = data /\ Buffer.syms = syms /\ Buffer.lframe = lframe
        /\ Buffer.head = head /\ Buffer.full = full
    BY DEF Buffer
  <1>5. /\ GoesOn(Buffer) = (syms[lframe] = NumSyms(sub))
        /\ l = SlotOf /\ n = PlaceOf
    BY <1>4 DEF GoesOn, SlotFor, PlaceFor, SlotOf, PlaceOf
  <1>6. /\ l \in Slots /\ n \in Places
        /\ Write(Buffer, d).data = [data EXCEPT ![l] = [data[l] EXCEPT ![n] = d]]
        /\ Write(Buffer, d).syms = [syms EXCEPT ![l] = n]
        /\ Write(Buffer, d).lframe = l
        /\ Write(Buffer, d).head = IF GoesOn(Buffer) THEN (head + 1) % Depth ELSE head
    BY <1>1, <1>4, WriteIs
  <1>7. /\ Write(Buffer, d).full = (full \/ l = Depth - 1)
        /\ Write(Buffer, d).ready = (Write(Buffer, d).full /\ n = NumSyms(sub))
    BY <1>1, <1>4, WriteIs, Zenon
  <1> HIDE DEF d, l, n
  <1>8. /\ l \in Slots /\ n \in Places
        /\ data' = [data EXCEPT ![l] = [data[l] EXCEPT ![n] = d]]
        /\ syms' = [syms EXCEPT ![l] = n]
        /\ lframe' = l
        /\ head' = IF syms[lframe] # NumSyms(sub) THEN head ELSE (head + 1) % Depth
    BY <1>3, <1>5, <1>6
  <1>9. full' = (full \/ l = Depth - 1) /\ decoding' = (full' /\ n = NumSyms(sub))
    BY <1>3, <1>7, Zenon
  <1>10. QED
    BY <1>5, <1>8, <1>9, Zenon DEF d

\* The same symbols are in the same places.
LEMMA HoldsOn ==
  ASSUME NEW s, NEW n, Holds(s, n), sub' = sub, data'[s] = data[s]
  PROVE  Holds(s, n)'
  <1>1. Places' = Places
    BY DEF Places, NumSyms, FirstSym, LastSym
  <1>2. \A i : data'[s][i] = data[s][i]
    OBVIOUS
  <1>3. \A i \in Places : /\ data'[s][i].sym = data'[s][1].sym + i - 1
                          /\ CifOf(data'[s][i]) = n
    BY <1>2 DEF Holds
  <1>4. QED
    BY <1>1, <1>3 DEF Holds

\* The first symbol of a frame in a buffer that was reset
LEMMA ReceiveFirst ==
  ASSUME InnerAssumption, Typed, Receive, ~Other(sym, [frame |-> frame, sym |-> sym]), Idle,
         NEW f \in Nat, frame = f
  PROVE  Collected(f, 0)'
  <1> DEFINE d == [frame |-> f, sym |-> sym]
  <1>1. /\ sub \in Subchannels /\ NumSyms(sub) \in Nat \ {0} /\ Depth \in Nat \ {0}
        /\ lframe = 0 /\ 0 \in Slots /\ 0 \in CifIndex /\ 1 \in Places
        /\ data \in [Slots -> [Places -> Symbols]]
    <2>1. sub \in Subchannels /\ data \in [Slots -> [Places -> Symbols]] /\ lframe = 0
      BY DEF Typed, TypeOK, Idle, Symbols
    <2>2. NumSyms(sub) \in Nat \ {0} /\ Depth \in Nat \ {0} /\ Cifs \in Nat \ {0}
      BY <2>1, InnerFacts, GeometryAssumption
    <2>3. QED
      BY <2>1, <2>2 DEF Slots, CifIndex, Places
  <1>2. sym = FirstSym(sub, 0) /\ sym = SymOf(0, 1)
    <2>1. sym = FirstSym(sub, 0)
      BY DEF Other, Idle
    <2>2. QED
      BY <1>1, <2>1, InnerFacts
  <1>3. sub' = sub /\ Advance /\ curFrame' = f % FrameNumbers
    BY <1>2 DEF Receive
  <1>4. SlotOf = 0 /\ PlaceOf = 1
    BY <1>1 DEF SlotOf, PlaceOf, Idle
  <1>5. /\ data' = [data EXCEPT ![0] = [data[0] EXCEPT ![1] = d]]
        /\ syms' = [syms EXCEPT ![0] = 1] /\ lframe' = 0
    BY <1>4, ReceiveWrites
  <1>6. full' = (full \/ 0 = Depth - 1) /\ decoding' = (full' /\ 1 = NumSyms(sub))
    BY <1>4, ReceiveWrites, Zenon
  <1>7. syms'[lframe'] = 1 /\ data'[lframe'][1] = [frame |-> f, sym |-> SymOf(0, 1)]
    <2>1. syms = [s \in Slots |-> 0]
      BY DEF Idle
    <2>2. syms'[0] = 1
      BY <1>1, <1>5, <2>1
    <2>3. data'[0] = [data[0] EXCEPT ![1] = d]
      BY <1>1, <1>5
    <2>4. data'[0][1] = d
      BY <1>1, <2>3
    <2>5. QED
      BY <1>2, <1>5, <2>2, <2>4
  <1>8. Following(f, 0, 1)'
    BY <1>1, <1>2, <1>3, Advances
  <1>9. ASSUME NEW s \in Slots \ {0} PROVE ~full' /\ ~(s < 0)
    <2>1. ~full
      BY DEF Idle
    <2>2. s \in Nat /\ s # 0 /\ s <= Depth - 1
      BY <1>1 DEF Slots
    <2>3. 0 # Depth - 1 /\ ~(s < 0)
      BY <1>1, <2>2
    <2>4. QED
      BY <1>6, <2>1, <2>3, Zenon
  <1>10. /\ Slots' = Slots /\ NumSyms(sub)' = NumSyms(sub) /\ SymOf(0, 1)' = SymOf(0, 1)
    BY <1>3 DEF Slots, NumSyms, FirstSym, LastSym, SymOf
  <1>11. /\ (syms[lframe] > 0)'
         /\ (curFrame = f % FrameNumbers)'
         /\ Following(f, 0, syms[lframe])'
    BY <1>3, <1>7, <1>8 DEF Following
  <1>12. (\A i \in 1 .. syms[lframe] : data[lframe][i] = [frame |-> f, sym |-> SymOf(0, i)])'
    BY <1>7, <1>10
  <1>13. (\A s \in Slots \ {lframe} :
             full \/ s < lframe => Holds(s, Position(f, 0) - Age(s)))'
    BY <1>5, <1>9, <1>10
  <1>14. (decoding => full /\ syms[lframe] = NumSyms(sub))'
    BY <1>6, <1>7, <1>10
  <1>15. QED
    BY <1>11, <1>12, <1>13, <1>14 DEF Collected

\* A further symbol of the CIF in the newest slot
LEMMA ReceiveMore ==
  ASSUME InnerAssumption, Typed, Receive, ~Other(sym, [frame |-> frame, sym |-> sym]),
         NEW f \in Nat, NEW j \in CifIndex, Collected(f, j), syms[lframe] # NumSyms(sub)
  PROVE  Collected(f, j)'
  <1> PICK k : k = syms[lframe]
    OBVIOUS
  <1> DEFINE d == [frame |-> f, sym |-> sym]
  <1>1. /\ sub \in Subchannels /\ lframe \in Slots /\ syms \in [Slots -> 0 .. NumSyms(sub)]
        /\ data \in [Slots -> [Places -> Symbols]]
    BY DEF Typed, TypeOK, Symbols
  <1>2. NumSyms(sub) \in Nat \ {0} /\ Depth \in Nat \ {0} /\ FirstSym(sub, 0) \in Nat
    BY <1>1, InnerFacts, GeometryAssumption
  <1>3. k \in 1 .. NumSyms(sub) - 1 /\ k + 1 \in Places
    <2>1. k \in 0 .. NumSyms(sub) /\ k > 0 /\ k # NumSyms(sub)
      BY <1>1 DEF Collected
    <2>2. QED
      BY <1>2, <2>1 DEF Places
  <1>4. frame = f /\ sym = SymOf(j, k + 1)
    BY <1>2, <1>3 DEF Collected, Following
  <1>5. sym # FirstSym(sub, 0)
    <2>1. j \in Nat /\ Off(j) \in Nat
      BY OffFacts DEF CifIndex
    <2>2. QED
      BY <1>2, <1>3, <1>4, <2>1 DEF SymOf
  <1>6. sub' = sub /\ Advance /\ curFrame' = f % FrameNumbers
    BY <1>5 DEF Receive, Collected
  <1>7. SlotOf = lframe /\ PlaceOf = k + 1
    BY DEF SlotOf, PlaceOf
  <1>8. /\ data' = [data EXCEPT ![lframe] = [data[lframe] EXCEPT ![k + 1] = d]]
        /\ syms' = [syms EXCEPT ![lframe] = k + 1] /\ lframe' = lframe
    BY <1>4, <1>7, ReceiveWrites
  <1>9. full' = (full \/ lframe = Depth - 1) /\ decoding' = (full' /\ k + 1 = NumSyms(sub))
    BY <1>7, ReceiveWrites, Zenon
  <1>10. syms'[lframe'] = k + 1
    BY <1>1, <1>8
  <1>11. /\ data'[lframe] = [data[lframe] EXCEPT ![k + 1] = d]
         /\ \A s \in Slots : s # lframe => data'[s] = data[s]
    BY <1>1, <1>8
  <1>12. \A i \in 1 .. k + 1 : data'[lframe][i] = [frame |-> f, sym |-> SymOf(j, i)]
    <2> SUFFICES ASSUME NEW i \in 1 .. k + 1
                 PROVE  data'[lframe][i] = [frame |-> f, sym |-> SymOf(j, i)]
      OBVIOUS
    <2>1. data[lframe] \in [Places -> Symbols] /\ i \in Places
      BY <1>1, <1>2, <1>3 DEF Places
    <2>2. CASE i = k + 1
      BY <1>3, <1>4, <1>11, <2>1, <2>2
    <2>3. CASE i # k + 1
      <3>1. i \in 1 .. k
        BY <1>3, <2>3
      <3>2. data[lframe][i] = [frame |-> f, sym |-> SymOf(j, i)]
        BY <3>1 DEF Collected
      <3>3. data'[lframe][i] = data[lframe][i]
        BY <1>3, <1>11, <2>1, <2>3
      <3>4. QED
        BY <3>2, <3>3
    <2>4. QED
      BY <2>2, <2>3
  <1>13. Following(f, j, k + 1)'
    BY <1>1, <1>3, <1>4, <1>6, Advances
  <1>14. /\ Slots' = Slots /\ NumSyms(sub)' = NumSyms(sub)
         /\ \A i : SymOf(j, i)' = SymOf(j, i)
    BY <1>6 DEF Slots, NumSyms, FirstSym, LastSym, SymOf
  <1>15. ASSUME NEW s \in Slots \ {lframe}, full' \/ s < lframe
         PROVE  Holds(s, Position(f, j) - Age(s))'
    <2>1. full \/ s < lframe
      <3>1. CASE full'
        <4>1. s \in 0 .. Depth - 1 /\ lframe \in 0 .. Depth - 1 /\ s # lframe
          BY <1>1 DEF Slots
        <4>2. lframe = Depth - 1 => s < lframe
          BY <1>2, <4>1
        <4>3. QED
          BY <1>9, <3>1, <4>2, Zenon
      <3>2. QED
        BY <1>15, <3>1
    <2>2. Holds(s, Position(f, j) - Age(s))
      BY <2>1 DEF Collected
    <2>3. (Position(f, j) - Age(s))' = Position(f, j) - Age(s)
      BY <1>8 DEF Position, Age
    <2>4. data'[s] = data[s]
      BY <1>11
    <2>5. PICK n : n = Position(f, j) - Age(s)
      OBVIOUS
    <2>6. Holds(s, n)'
      BY <1>6, <2>2, <2>4, <2>5, HoldsOn
    <2>7. QED
      BY <2>3, <2>5, <2>6 DEF Holds
  <1>16. /\ (syms[lframe] > 0)'
         /\ (curFrame = f % FrameNumbers)'
         /\ Following(f, j, syms[lframe])'
    BY <1>3, <1>6, <1>10, <1>13 DEF Following
  <1>17. (\A i \in 1 .. syms[lframe] : data[lframe][i] = [frame |-> f, sym |-> SymOf(j, i)])'
    BY <1>8, <1>10, <1>12, <1>14
  <1>18. (\A s \in Slots \ {lframe} :
             full \/ s < lframe => Holds(s, Position(f, j) - Age(s)))'
    BY <1>8, <1>14, <1>15
  <1>19. (decoding => full /\ syms[lframe] = NumSyms(sub))'
    BY <1>9, <1>10, <1>14
  <1>20. QED
    BY <1>16, <1>17, <1>18, <1>19 DEF Collected

\* The first symbol of the next CIF: it takes the slot of the oldest, and every other slot
\* grows older.
LEMMA GrowOlder ==
  ASSUME Depth \in Nat \ {0}, lframe \in Slots, lframe' = (lframe + 1) % Depth,
         NEW s \in Slots, s # lframe'
  PROVE  /\ Age(s)' = Age(s) + 1
         /\ s < lframe' => s <= lframe
         /\ lframe' = Depth - 1 => s <= lframe
         /\ Age(lframe) = 0
  <1>1. lframe \in 0 .. Depth - 1 /\ s \in 0 .. Depth - 1
    BY DEF Slots
  <1>2. CASE lframe = Depth - 1
    <2>1. lframe' = 0
      <3>1. (Depth * 1 + 0) % Depth = 0
        BY <1>1, ModOf
      <3>2. QED
        BY <1>1, <1>2, <3>1
    <2>2. QED
      BY <1>1, <1>2, <2>1 DEF Age
  <1>3. CASE lframe # Depth - 1
    <2>1. lframe' = lframe + 1
      <3>1. (Depth * 0 + (lframe + 1)) % Depth = lframe + 1
        BY <1>1, <1>3, ModOf
      <3>2. QED
        BY <1>1, <1>3, <3>1
    <2>2. QED
      BY <1>1, <1>3, <2>1 DEF Age
  <1>4. QED
    BY <1>2, <1>3

\* The newest slot, once complete
LEMMA NewestHolds ==
  ASSUME InnerAssumption, sub \in Subchannels, NEW f \in Nat, NEW j \in CifIndex,
         Collected(f, j), syms[lframe] = NumSyms(sub)
  PROVE  Holds(lframe, Position(f, j))
  <1> SUFFICES ASSUME NEW m \in Places
               PROVE  /\ data[lframe][m].sym = data[lframe][1].sym + m - 1
                      /\ CifOf(data[lframe][m]) = Position(f, j)
    BY DEF Holds
  <1>0. NumSyms(sub) \in Nat \ {0} /\ 1 \in Places
    BY InnerFacts DEF Places
  <1>1. \A p \in Places : data[lframe][p] = [frame |-> f, sym |-> SymOf(j, p)]
    BY DEF Collected, Places
  <1>2. CifOf([frame |-> f, sym |-> SymOf(j, m)]) = Position(f, j)
    BY CifOfSymbol
  <1>3. /\ data[lframe][m].sym = SymOf(j, m)
        /\ data[lframe][1].sym = SymOf(j, 1)
    <2>1. ASSUME NEW p \in Places PROVE data[lframe][p].sym = SymOf(j, p)
      <3>1. [frame |-> f, sym |-> SymOf(j, p)].sym = SymOf(j, p)
        OBVIOUS
      <3>2. QED
        BY <1>1, <3>1, Zenon
    <2>2. QED
      BY <1>0, <2>1
  <1>4. /\ FirstSym(sub, 0) \in Nat /\ m \in Int /\ Off(j) \in Nat
    <2>1. j \in Nat
      BY DEF CifIndex
    <2>2. QED
      BY <1>0, <2>1, InnerFacts, OffFacts DEF Places
  <1>5. SymOf(j, m) = SymOf(j, 1) + m - 1
    BY <1>4 DEF SymOf
  <1>6. QED
    BY <1>1, <1>2, <1>3, <1>5

LEMMA ReceiveNext ==
  ASSUME InnerAssumption, Typed, Receive, ~Other(sym, [frame |-> frame, sym |-> sym]),
         NEW f \in Nat, NEW j \in CifIndex, Collected(f, j), syms[lframe] = NumSyms(sub),
         NEW g \in Nat, NEW i \in CifIndex, frame = g, sym = SymOf(i, 1),
         curFrame' = g % FrameNumbers, Position(g, i) = Position(f, j) + 1
  PROVE  Collected(g, i)'
  <1> DEFINE d == [frame |-> g, sym |-> sym]
  <1>1. /\ sub \in Subchannels /\ lframe \in Slots /\ syms \in [Slots -> 0 .. NumSyms(sub)]
        /\ data \in [Slots -> [Places -> Symbols]]
    BY DEF Typed, TypeOK, Symbols
  <1>2. NumSyms(sub) \in Nat \ {0} /\ Depth \in Nat \ {0} /\ 1 \in Places
    BY <1>1, InnerFacts, GeometryAssumption, SMTT(30) DEF Places
  <1>3. sub' = sub /\ Advance
    BY DEF Receive
  <1> PICK l \in Slots : l = SlotOf
    BY ReceiveWrites
  <1>4. l = (lframe + 1) % Depth /\ PlaceOf = 1
    BY DEF SlotOf, PlaceOf
  <1>5. /\ data' = [data EXCEPT ![l] = [data[l] EXCEPT ![1] = d]]
        /\ syms' = [syms EXCEPT ![l] = 1] /\ lframe' = l
    BY <1>4, ReceiveWrites
  <1>6. full' = (full \/ l = Depth - 1) /\ decoding' = (full' /\ 1 = NumSyms(sub))
    BY <1>4, ReceiveWrites, Zenon
  <1>7. /\ syms'[l] = 1 /\ data'[l][1] = [frame |-> g, sym |-> SymOf(i, 1)]
        /\ \A s \in Slots : s # l => data'[s] = data[s]
    <2>1. syms'[l] = 1 /\ data'[l] = [data[l] EXCEPT ![1] = d]
      BY <1>1, <1>5
    <2>2. data'[l][1] = d
      BY <1>1, <1>2, <2>1
    <2>3. \A s \in Slots : s # l => data'[s] = data[s]
      BY <1>1, <1>5
    <2>4. QED
      BY <2>1, <2>2, <2>3
  <1>8. Following(g, i, 1)'
    BY <1>1, <1>2, <1>3, Advances
  <1>9. /\ Slots' = Slots /\ NumSyms(sub)' = NumSyms(sub) /\ SymOf(i, 1)' = SymOf(i, 1)
        /\ Position(g, i)' = Position(g, i)
    BY <1>3 DEF Slots, NumSyms, FirstSym, LastSym, SymOf, Position
  <1>10. Holds(lframe, Position(f, j))
    BY <1>1, NewestHolds
  <1>11. Position(f, j) \in Int
    BY GeometryAssumption DEF Position, CifIndex
  <1>12. ASSUME NEW s \in Slots \ {l}, full' \/ s < l
         PROVE  Holds(s, Position(g, i) - Age(s))'
    <2>1. /\ Age(s)' = Age(s) + 1 /\ Age(lframe) = 0
          /\ s < l => s <= lframe
          /\ l = Depth - 1 => s <= lframe
      BY <1>1, <1>2, <1>4, <1>5, GrowOlder
    <2>2. s \in Int /\ lframe \in Int /\ Depth \in Int /\ Age(s) \in Int
      BY <1>1, <1>2 DEF Slots, Age
    <2>3. s = lframe \/ full \/ s < lframe
      <3>1. CASE s < l
        BY <2>1, <2>2, <3>1
      <3>2. CASE full'
        <4>1. full \/ l = Depth - 1
          BY <1>6, <3>2, Zenon
        <4>2. QED
          BY <2>1, <2>2, <4>1
      <3>3. QED
        BY <1>12, <3>1, <3>2
    <2>4. Holds(s, Position(f, j) - Age(s))
      <3>1. CASE s = lframe
        <4>1. Position(f, j) - Age(s) = Position(f, j)
          BY <1>11, <2>1, <3>1
        <4>2. QED
          BY <1>10, <3>1, <4>1
      <3>2. CASE s # lframe
        BY <2>3, <3>2 DEF Collected
      <3>3. QED
        BY <3>1, <3>2
    <2>5. (Position(g, i) - Age(s))' = Position(f, j) - Age(s)
      BY <1>9, <1>11, <2>1, <2>2
    <2>6. data'[s] = data[s]
      BY <1>7
    <2>7. PICK n : n = Position(f, j) - Age(s)
      OBVIOUS
    <2>8. Holds(s, n)'
      BY <1>3, <2>4, <2>6, <2>7, HoldsOn
    <2>9. QED
      BY <2>5, <2>7, <2>8 DEF Holds
  <1>13. /\ (syms[lframe] > 0)'
         /\ (curFrame = g % FrameNumbers)'
         /\ Following(g, i, syms[lframe])'
    BY <1>5, <1>7, <1>8 DEF Following
  <1>14. (\A p \in 1 .. syms[lframe] : data[lframe][p] = [frame |-> g, sym |-> SymOf(i, p)])'
    BY <1>5, <1>7, <1>9
  <1>15. (\A s \in Slots \ {lframe} :
             full \/ s < lframe => Holds(s, Position(g, i) - Age(s)))'
    BY <1>5, <1>9, <1>12
  <1>16. (decoding => full /\ syms[lframe] = NumSyms(sub))'
    BY <1>5, <1>6, <1>7, <1>9
  <1>17. QED
    BY <1>13, <1>14, <1>15, <1>16 DEF Collected

LEMMA ReceiveResets ==
  ASSUME InnerAssumption, Typed, Receive, Other(sym, [frame |-> frame, sym |-> sym])
  PROVE  Idle' /\ head' = lframe'
  <1> DEFINE d == [frame |-> frame, sym |-> sym]
             b == Assembled(Buffer, sym, d)
  <1>1. Buffer \in Buffers /\ d \in Symbols /\ sub \in Subchannels /\ sym \in Selected(sub)
    BY BufferType DEF Typed
  <1>2. Wiped(Buffer, b)
    BY <1>1, AssembledIs
  <1>3. /\ syms' = b.syms /\ lframe' = b.lframe /\ head' = b.head /\ full' = b.full
        /\ decoding' = b.ready /\ sub' = sub /\ Advance
    BY DEF Receive
  <1> HIDE DEF b
  <1>4. /\ syms' = [s \in Slots |-> 0] /\ lframe' = 0 /\ head' = 0
        /\ ~full' /\ ~decoding'
    BY <1>2, <1>3 DEF Wiped
  <1>5. curFrame' = curFrame /\ frame % FrameNumbers # curFrame
    BY DEF Receive, Other
  <1>6. frame' = frame \/ sym' = Least(Selected(sub))
    BY <1>3 DEF Advance
  <1>7. Least(Selected(sub)) = FirstSym(sub, 0)
    <2>1. /\ Selected(sub) \subseteq Nat /\ \A n \in Selected(sub) : n \in Int
      BY OffFacts DEF Selected, OnAir
    <2>2. /\ FirstSym(sub, 0) \in Nat /\ 0 \in CifIndex /\ 1 \in Places
          /\ FirstSym(sub, 0) = SymOf(0, 1) /\ NumSyms(sub) \in Nat
      <3>1. /\ NumSyms(sub) \in Nat \ {0} /\ FirstSym(sub, 0) \in Nat
            /\ \A j \in CifIndex : FirstSym(sub, j) = SymOf(j, 1)
        BY <1>1, InnerFacts
      <3>2. Cifs \in Nat \ {0}
        BY GeometryAssumption
      <3>3. QED
        BY <3>1, <3>2 DEF CifIndex, Places
    <2>3. FirstSym(sub, 0) \in Selected(sub)
      BY <1>1, <2>2, SelectedIs
    <2>4. ASSUME NEW n \in Selected(sub) PROVE FirstSym(sub, 0) <= n
      <3>1. PICK j \in CifIndex, k \in Places : n = SymOf(j, k)
        BY <1>1, SelectedIs
      <3>2. j \in Nat /\ k \in Nat /\ 1 <= k
        BY <2>2 DEF CifIndex, Places
      <3>3. Off(j) \in Nat
        BY <3>2, OffFacts
      <3>4. QED
        BY <2>2, <3>1, <3>2, <3>3 DEF SymOf
    <2>5. /\ Least(Selected(sub)) \in Selected(sub)
          /\ \A n \in Selected(sub) : Least(Selected(sub)) <= n
      BY <2>1, <2>3, LeastOf
    <2>6. QED
      BY <2>1, <2>2, <2>3, <2>4, <2>5
  <1>8. Slots' = Slots /\ FirstSym(sub, 0)' = FirstSym(sub, 0)
    BY <1>3 DEF Slots, FirstSym
  <1>9. (sym = FirstSym(sub, 0) \/ frame % FrameNumbers # curFrame)'
    BY <1>5, <1>6, <1>7, <1>8
  <1>10. QED
    BY <1>4, <1>8, <1>9 DEF Idle

LEMMA ReceiveKeepsRing ==
  ASSUME InnerAssumption, Typed, RingInv, Receive
  PROVE  RingInv'
  <1> DEFINE d == [frame |-> frame, sym |-> sym]
  <1>1. CASE Other(sym, d)
    BY <1>1, ReceiveResets DEF RingInv
  <1>2. CASE ~Other(sym, d)
    <2>1. head' = lframe'
      <3>1. /\ lframe' = SlotOf
            /\ head' = IF syms[lframe] # NumSyms(sub) THEN head ELSE (head + 1) % Depth
        BY <1>2, ReceiveWrites
      <3>2. QED
        BY <3>1 DEF RingInv, SlotOf
    <2>2. unnoticed' = unnoticed
      <3>1. ~(sym # FirstSym(sub, 0) /\ frame % FrameNumbers # curFrame)
        BY <1>2 DEF Other
      <3>2. unnoticed \in BOOLEAN
        BY DEF Typed, TypeOK
      <3>3. unnoticed' = (unnoticed /\ ~(sym # FirstSym(sub, 0) /\ frame % FrameNumbers # curFrame))
        BY DEF Receive
      <3>4. QED
        BY <3>1, <3>2, <3>3, Zenon
    <2>3. ASSUME Idle PROVE \E f \in Nat, j \in CifIndex : Collected(f, j)'
      <3>1. frame \in Nat /\ 0 \in CifIndex
        BY BufferType, GeometryAssumption DEF Symbols, CifIndex, Typed, TypeOK
      <3>2. PICK f \in Nat : f = frame
        BY <3>1
      <3>3. Collected(f, 0)'
        BY <1>2, <2>3, <3>2, ReceiveFirst
      <3>4. QED
        BY <3>1, <3>3
    <2>4. ASSUME NEW f \in Nat, NEW j \in CifIndex, Collected(f, j)
          PROVE  \E g \in Nat, i \in CifIndex : Collected(g, i)'
      <3>1. CASE syms[lframe] # NumSyms(sub)
        <4>1. Collected(f, j)'
          BY <1>2, <2>4, <3>1, ReceiveMore
        <4>2. QED
          BY <4>1
      <3>2. CASE syms[lframe] = NumSyms(sub)
        <4>1. /\ NumSyms(sub) \in Nat /\ Cifs \in Nat \ {0} /\ j \in 0 .. Cifs - 1
              /\ Following(f, j, NumSyms(sub)) /\ curFrame = f % FrameNumbers
          BY <2>4, <3>2, InnerFacts, GeometryAssumption DEF Typed, TypeOK, Collected, CifIndex
        <4>2. CASE j < Cifs - 1
          <5>1. frame = f /\ sym = SymOf(j + 1, 1)
            BY <4>1, <4>2 DEF Following
          <5>2. j + 1 \in CifIndex
            BY <4>1, <4>2 DEF CifIndex
          <5>3. curFrame' = f % FrameNumbers
            BY <4>1, <5>1 DEF Receive
          <5>4. Position(f, j + 1) = Position(f, j) + 1
            BY <4>1 DEF Position
          <5>5. Collected(f, j + 1)'
            BY <1>2, <2>4, <3>2, <5>1, <5>2, <5>3, <5>4, ReceiveNext
          <5>6. QED
            BY <5>2, <5>5
        <4>3. CASE j = Cifs - 1
          <5>1. frame = f + 1 /\ sym = SymOf(0, 1) /\ f + 1 \in Nat
            BY <4>1, <4>3 DEF Following
          <5>2. 0 \in CifIndex
            BY <4>1 DEF CifIndex
          <5>3. curFrame' = (f + 1) % FrameNumbers
            <6>1. sym = FirstSym(sub, 0)
              BY <5>1, <5>2, InnerFacts DEF Typed, TypeOK
            <6>2. QED
              BY <5>1, <6>1 DEF Receive
          <5>4. Position(f + 1, 0) = Position(f, j) + 1
            BY <4>1, <4>3 DEF Position
          <5>5. Collected(f + 1, 0)'
            BY <1>2, <2>4, <3>2, <5>1, <5>2, <5>3, <5>4, ReceiveNext
          <5>6. QED
            BY <5>1, <5>2, <5>5
        <4>4. QED
          BY <4>1, <4>2, <4>3
      <3>3. QED
        BY <3>1, <3>2
    <2>5. (\E f \in Nat, j \in CifIndex : Collected(f, j)')
            <=> (\E f \in Nat, j \in CifIndex : Collected(f, j))'
      BY DEF CifIndex
    <2>6. QED
      BY <2>1, <2>2, <2>3, <2>4, <2>5 DEF RingInv
  <1>3. QED
    BY <1>1, <1>2

LEMMA AlwaysRing == InnerAssumption /\ Spec => []RingInv
  <1> SUFFICES ASSUME InnerAssumption PROVE Spec => []RingInv
    OBVIOUS
  <1>1. Init => RingInv
    <2> SUFFICES ASSUME Init PROVE RingInv
      OBVIOUS
    <2>1. CASE sym = FirstSym(sub, 0)
      BY <2>1 DEF Init, RingInv, Idle
    <2>2. CASE frame = 1
      <3>1. FrameNumbers \in Nat /\ FrameNumbers > 1
        BY GeometryAssumption
      <3>2. (FrameNumbers * 0 + 1) % FrameNumbers = 1
        BY <3>1, ModOf
      <3>3. 1 % FrameNumbers = 1
        BY <3>1, <3>2
      <3>4. QED
        BY <2>2, <3>3 DEF Init, RingInv, Idle
    <2>3. QED
      BY <2>1, <2>2 DEF Init, RingInv
  <1>2. Typed /\ RingInv /\ [Next]_vars => RingInv'
    <2> SUFFICES ASSUME Typed, RingInv, [Next]_vars PROVE RingInv'
      OBVIOUS
    <2>1. CASE Receive
      BY <2>1, ReceiveKeepsRing
    <2>2. CASE Lose
      BY <2>2 DEF Lose, cbuf, RingInv
    <2>3. CASE UNCHANGED vars
      BY <2>3 DEF vars, cbuf, sent, RingInv, Idle, Collected, Following, Holds, Position, Age,
         SymOf, Places, NumSyms, FirstSym, LastSym, Slots
    <2>4. QED
      BY <2>1, <2>2, <2>3 DEF Next
  <1>3. QED
    BY <1>1, <1>2, AlwaysTyped, PTL DEF Spec

\* What a decode finds: in each slot a CIF, the older the slot the earlier.
LEMMA DecodeFinds ==
  ASSUME InnerAssumption, Typed, RingInv, decoding, ~unnoticed
  PROVE  \E n \in Int : \A s \in Slots : Holds(s, n - Age(s))
  <1>1. PICK f \in Nat, j \in CifIndex : Collected(f, j)
    BY DEF RingInv, Idle
  <1>2. full /\ syms[lframe] = NumSyms(sub)
    BY <1>1 DEF Collected
  <1>3. sub \in Subchannels /\ lframe \in Slots /\ Depth \in Nat \ {0} /\ lframe \in Int
    BY GeometryAssumption DEF Typed, TypeOK, Slots
  <1>4. Position(f, j) \in Int /\ Age(lframe) = 0
    BY <1>3, GeometryAssumption DEF Position, CifIndex, Age
  <1>5. Holds(lframe, Position(f, j))
    BY <1>1, <1>2, <1>3, NewestHolds
  <1>6. ASSUME NEW s \in Slots PROVE Holds(s, Position(f, j) - Age(s))
    <2>1. CASE s = lframe
      <3>1. Position(f, j) - Age(s) = Position(f, j)
        BY <1>4, <2>1
      <3>2. QED
        BY <1>5, <2>1, <3>1
    <2>2. CASE s # lframe
      BY <1>1, <1>2, <2>2 DEF Collected
    <2>3. QED
      BY <2>1, <2>2
  <1>7. QED
    BY <1>4, <1>6

\* The slot that is k after the newest is Depth - k older, for k > 0.
LEMMA AgeAfter ==
  ASSUME lframe \in Slots, Depth \in Nat \ {0}, NEW k \in 1 .. Depth
  PROVE  /\ (lframe + k) % Depth \in Slots
         /\ Age((lframe + k) % Depth) = Depth - k
  <1>1. lframe \in 0 .. Depth - 1
    BY DEF Slots
  <1>2. CASE lframe + k < Depth
    <2>1. (Depth * 0 + (lframe + k)) % Depth = lframe + k
      BY <1>1, <1>2, ModOf
    <2>2. (lframe + k) % Depth = lframe + k
      BY <1>1, <2>1
    <2>3. QED
      BY <1>1, <1>2, <2>2 DEF Age, Slots
  <1>3. CASE lframe + k >= Depth
    <2>1. (Depth * 1 + (lframe + k - Depth)) % Depth = lframe + k - Depth
      BY <1>1, <1>3, ModOf
    <2>2. (lframe + k) % Depth = lframe + k - Depth
      BY <1>1, <2>1
    <2>3. QED
      BY <1>1, <1>3, <2>2 DEF Age, Slots
  <1>4. QED
    BY <1>1, <1>2, <1>3

\* If no subchannel ends with the CIF and every loss has been noticed, a decode finds in each
\* slot the symbols of one CIF, each in its place, and in the ring Depth successive CIFs.
THEOREM RingAligned == InnerAssumption /\ Spec => []DecodesAlignedRing
  <1> SUFFICES ASSUME InnerAssumption PROVE Spec => []DecodesAlignedRing
    OBVIOUS
  <1>1. Typed /\ RingInv => DecodesAlignedRing
    <2> SUFFICES ASSUME Typed, RingInv, decoding, ~unnoticed PROVE Aligned
      BY DEF DecodesAlignedRing
    <2>1. PICK n \in Int : \A s \in Slots : Holds(s, n - Age(s))
      BY DecodeFinds
    <2>2. /\ sub \in Subchannels /\ lframe \in Slots /\ Depth \in Nat \ {0} /\ lframe \in Int
          /\ 1 \in Places
      <3>1. sub \in Subchannels /\ lframe \in Slots
        BY DEF Typed, TypeOK
      <3>2. QED
        BY <3>1, GeometryAssumption, SubchannelFacts DEF Slots, Places
    <2>3. \A s \in Slots : CifIn(s) = n - Age(s)
      BY <2>1, <2>2 DEF Holds, CifIn
    <2>4. ASSUME NEW s \in Slots, NEW i \in Places
          PROVE  /\ data[s][i].sym = data[s][1].sym + i - 1
                 /\ CifOf(data[s][i]) = CifIn(s)
      BY <2>1, <2>3 DEF Holds
    <2>5. ASSUME NEW k \in 1 .. Depth - 1
          PROVE  CifIn((lframe + 1 + k) % Depth) = CifIn((lframe + 1) % Depth) + k
      <3> DEFINE x == (lframe + (1 + k)) % Depth
                 y == (lframe + 1) % Depth
      <3>1. 1 + k \in 1 .. Depth /\ 1 \in 1 .. Depth
        BY <2>2
      <3>2. x \in Slots /\ Age(x) = Depth - (1 + k) /\ y \in Slots /\ Age(y) = Depth - 1
        BY <2>2, <3>1, AgeAfter
      <3>3. lframe + 1 + k = lframe + (1 + k)
        BY <2>2
      <3> HIDE DEF x, y
      <3>4. CifIn(x) = n - (Depth - (1 + k)) /\ CifIn(y) = n - (Depth - 1)
        BY <2>3, <3>2
      <3>5. CifIn(x) = CifIn(y) + k
        BY <2>2, <3>4
      <3>6. QED
        BY <3>3, <3>5 DEF x, y
    <2>6. QED
      BY <2>4, <2>5 DEF Aligned
  <1>2. QED
    BY <1>1, AlwaysTyped, AlwaysRing, PTL

\* Under the same conditions every class of a logical frame comes from the same logical
\* frame, but for the class that is not delayed, which comes from the one Depth later.
THEOREM ClassesAgree == InnerAssumption /\ Spec => []DelayedClassesAgree
  <1> SUFFICES ASSUME InnerAssumption PROVE Spec => []DelayedClassesAgree
    OBVIOUS
  <1> DEFINE late(c) == IF Map[c] = 0 THEN 1 ELSE 0
  <1>1. Typed /\ RingInv => DelayedClassesAgree
    <2> SUFFICES ASSUME Typed, RingInv, decoding, ~unnoticed, NEW c \in Slots, NEW d \in Slots
                 PROVE  LogicalFrame(c) - LogicalFrame(d) = Depth * (late(c) - late(d))
      BY DEF DelayedClassesAgree
    <2>1. PICK n \in Int : \A s \in Slots : Holds(s, n - Age(s))
      BY DecodeFinds
    <2>2. /\ sub \in Subchannels /\ lframe \in Slots /\ Depth \in Nat \ {0} /\ lframe \in Int
          /\ 1 \in Places /\ head = lframe
      <3>1. sub \in Subchannels /\ lframe \in Slots
        BY DEF Typed, TypeOK
      <3>2. QED
        BY <3>1, GeometryAssumption, SubchannelFacts DEF Slots, Places, RingInv
    <2>3. \A s \in Slots : CifIn(s) = n - Age(s)
      BY <2>1, <2>2 DEF Holds, CifIn
    <2>4. ASSUME NEW e \in Slots PROVE LogicalFrame(e) = n + Depth * (late(e) - 1)
      <3>1. Map[e] \in 0 .. Depth - 1
        BY MapAssumption DEF Slots
      <3>2. CASE Map[e] = 0
        <4>1. SlotOfClass(e) = lframe /\ Age(lframe) = 0
          <5>1. lframe \in 0 .. Depth - 1
            BY <2>2 DEF Slots
          <5>2. (Depth * 0 + lframe) % Depth = lframe
            BY <2>2, <5>1, ModOf
          <5>3. QED
            BY <2>2, <3>2, <5>1, <5>2 DEF SlotOfClass, Age
        <4>2. LogicalFrame(e) = n
          BY <2>1, <2>2, <2>3, <3>2, <4>1 DEF LogicalFrame
        <4>3. QED
          BY <2>2, <3>2, <4>2
      <3>3. CASE Map[e] # 0
        <4>1. Map[e] \in 1 .. Depth
          BY <2>2, <3>1, <3>3
        <4>2. /\ SlotOfClass(e) \in Slots
              /\ Age(SlotOfClass(e)) = Depth - Map[e]
          BY <2>2, <4>1, AgeAfter DEF SlotOfClass
        <4>3. LogicalFrame(e) = n - (Depth - Map[e]) - Map[e]
          BY <2>3, <4>2 DEF LogicalFrame
        <4>4. QED
          BY <2>2, <3>1, <3>3, <4>3
      <3>4. QED
        BY <3>2, <3>3
    <2>5. /\ LogicalFrame(c) = n + Depth * (late(c) - 1)
          /\ LogicalFrame(d) = n + Depth * (late(d) - 1)
      BY <2>4
    <2>6. QED
      BY <2>2, <2>5
  <1>2. QED
    BY <1>1, AlwaysTyped, AlwaysRing, PTL
===============================================================================
