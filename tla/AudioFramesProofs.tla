---------------------------- MODULE AudioFramesProofs ----------------------------
(***************************************************************************)
(* Theorems about AudioFrames, for any services, any number of units sent  *)
(* and any number of frames damaged or lost.                               *)
(***************************************************************************)
EXTENDS AudioFrames, NumberFacts, SequenceTheorems, FiniteSetTheorems, TLAPS

Dab == svc.kind = "dabplus"
Low == svc.kind = "mp2low"
Qualities == {"good", "slight", "bad"}
Frames == [unit : Nat, part : Nat, quality : Qualities]
Items == [unit : Nat, part : Nat, good : BOOLEAN]

\* The values of the variables, except for out.
ATypeOK ==
    /\ svc \in Services
    /\ at \in Nat \X Nat /\ at[2] < UnitFrames(svc.kind)
    /\ frame \in 0 .. 4 /\ sfbuf \in Seq(Frames) /\ Len(sfbuf) = frame
    /\ header_valid \in BOOLEAN /\ header_expected \in BOOLEAN
    /\ lostrun \in Nat
    /\ clean \in BOOLEAN /\ intact \in 0 .. 2
    /\ last.unit \in Nat /\ (~Dab => last \in Items)

LEMMA KindsOf ==
  ASSUME svc \in Services
  PROVE  /\ Dab => UnitFrames(svc.kind) = 5 /\ svc.aus \in Nat \ {0} /\ ~Low
         /\ Low => UnitFrames(svc.kind) = 2 /\ svc.sub.bitrate \in lbrtab /\ ~Dab
         /\ ~Dab /\ ~Low =>
               UnitFrames(svc.kind) = 1 /\ svc.kind = "mp2" /\ svc.sub.bitrate \in brtab
  <1>1. svc.kind \in {"dabplus", "mp2", "mp2low"}
    BY ServicesAssumption DEF Kinds
  <1>2. QED
    BY <1>1, ServicesAssumption DEF UnitFrames, Dab, Low

-----------------------------------------------------------------------------
\* The audio units that a superframe gives.

Good(sf, i) == \A k \in Slots(i, svc.aus) \cup {0} : True(sf, k)
GoodOnes(sf) == {j \in 0 .. svc.aus - 1 : Good(sf, j)}
GoodUpTo(sf, j) == {k \in 0 .. j : Good(sf, k)}
Unit(sf, i) == CHOOSE j \in 0 .. svc.aus - 1 :
                  Good(sf, j) /\ Cardinality(GoodUpTo(sf, j)) = i

LEMMA GoodAusIs ==
  ASSUME NEW sf
  PROVE  GoodAus(sf) = [i \in 1 .. Cardinality(GoodOnes(sf)) |->
                          [unit |-> sf[1].unit, part |-> Unit(sf, i), good |-> TRUE]]
  BY DEF GoodAus, GoodOnes, GoodUpTo, Unit, Good

LEMMA CountGood ==
  ASSUME svc.aus \in Nat, NEW sf
  PROVE  /\ IsFiniteSet(GoodOnes(sf)) /\ Cardinality(GoodOnes(sf)) \in Nat
         /\ Cardinality(GoodOnes(sf)) = 0 <=> GoodOnes(sf) = {}
  <1>1. GoodOnes(sf) \subseteq 0 .. svc.aus - 1
    BY DEF GoodOnes
  <1>2. IsFiniteSet(0 .. svc.aus - 1)
    BY FS_Interval
  <1>3. IsFiniteSet(GoodOnes(sf))
    BY <1>1, <1>2, FS_Subset
  <1>4. QED
    BY <1>3, FS_CardinalityType, FS_EmptySet

\* They are of the superframe that begins in the first slot, and there are none when that
\* holds anything but the first frame of one.
LEMMA UnitsOfFirst ==
  ASSUME svc.aus \in Nat, NEW sf
  PROVE  /\ Len(GoodAus(sf)) \in Nat
         /\ GoodAus(sf) = <<>> <=> Len(GoodAus(sf)) = 0
         /\ GoodAus(sf) # <<>> =>
               sf[1].part = 0 /\ GoodAus(sf)[Len(GoodAus(sf))].unit = sf[1].unit
  <1> DEFINE n == Cardinality(GoodOnes(sf))
             e(i) == [unit |-> sf[1].unit, part |-> Unit(sf, i), good |-> TRUE]
             S == {e(i) : i \in 1 .. n}
  <1>1. GoodAus(sf) = [i \in 1 .. n |-> e(i)]
    BY GoodAusIs
  <1>2. n \in Nat /\ (n = 0 <=> GoodOnes(sf) = {})
    BY CountGood
  <1>3. /\ \A i \in 1 .. n : e(i).unit = sf[1].unit
        /\ \A i \in 1 .. n : e(i) \in S
    OBVIOUS
  <1> HIDE DEF n, e, S
  <1>4. GoodAus(sf) \in Seq(S) /\ Len(GoodAus(sf)) = n
    BY <1>1, <1>2, <1>3
  <1>5. GoodAus(sf) = <<>> <=> n = 0
    BY <1>4, EmptySeq
  <1>6. ASSUME n # 0
        PROVE  GoodAus(sf)[n].unit = sf[1].unit
    BY <1>1, <1>2, <1>3, <1>6
  <1>7. ASSUME n # 0
        PROVE  sf[1].part = 0
    <2>1. PICK j : j \in GoodOnes(sf)
      BY <1>2, <1>7
    <2>2. True(sf, 0)
      BY <2>1 DEF GoodOnes, Good
    <2>3. QED
      BY <2>2 DEF True, InPlace
  <1>8. QED
    BY <1>2, <1>4, <1>5, <1>6, <1>7

-----------------------------------------------------------------------------
\* What a step does, one logical frame after the other.

Arriving(q) == [unit |-> at[1], part |-> at[2], quality |-> q]

LEMMA Cases ==
  ASSUME ANext
  PROVE  \/ LoseFrame
         \/ \E q \in Qualities : Arrive(q) /\ Dab /\ wfdabplusdec(Arriving(q))
         \/ \E q \in Qualities : Arrive(q) /\ ~Dab /\ wfmp2(Arriving(q))
  BY DEF ANext, msc_decode, Dab, Arriving, Qualities

LastPart == at[2] + 1 = UnitFrames(svc.kind)
Unhurt(q) == clean /\ \/ q = "good"
                      \/ q = "slight" /\ Dab /\ at[2] > 0 /\ intact > 0

LEMMA Arrival ==
  ASSUME NEW q, Arrive(q)
  PROVE  /\ at' = IF LastPart THEN <<at[1] + 1, 0>> ELSE <<at[1], at[2] + 1>>
         /\ lostrun' = IF q = "lost" THEN lostrun + 1 ELSE 0
         /\ clean' = (LastPart \/ Unhurt(q))
         /\ intact' = IF ~LastPart THEN intact
                      ELSE IF ~Unhurt(q) THEN 0 ELSE IF intact = 2 THEN 2 ELSE intact + 1
  BY DEF Arrive, LastPart, Unhurt, Dab

\* What arrives of the unit's frames counts on, one by one.
LEMMA Counting ==
  ASSUME ATypeOK, NEW q, Arrive(q)
  PROVE  /\ at' \in Nat \X Nat /\ at'[2] < UnitFrames(svc.kind)
         /\ lostrun' \in Nat /\ clean' \in BOOLEAN /\ intact' \in 0 .. 2
         /\ LastPart => at'[1] = at[1] + 1 /\ at'[2] = 0
         /\ ~LastPart => at'[1] = at[1] /\ at'[2] = at[2] + 1
         /\ at[1] \in Nat /\ at[2] \in Nat
  <1> USE DEF ATypeOK
  <1>1. at[1] \in Nat /\ at[2] \in Nat /\ UnitFrames(svc.kind) \in Nat /\ at[2] + 1 <= UnitFrames(svc.kind)
    <2>1. UnitFrames(svc.kind) \in {1, 2, 5}
      BY KindsOf
    <2>2. QED
      BY <2>1
  <1>2. lostrun' \in Nat /\ intact' \in 0 .. 2
    BY Arrival
  <1>3. clean' \in BOOLEAN
    <2>1. clean' = (LastPart \/ Unhurt(q))
      BY Arrival
    <2>2. QED
      BY <2>1, Zenon
  <1>4. /\ LastPart => at' = <<at[1] + 1, 0>>
        /\ ~LastPart => at' = <<at[1], at[2] + 1>>
    BY Arrival
  <1>5. QED
    BY <1>1, <1>2, <1>3, <1>4 DEF LastPart

\* wfmp2: what the header check decides, and what is written.
LEMMA Mp2Step ==
  ASSUME ATypeOK, ~Dab, NEW q \in Qualities, wfmp2(Arriving(q))
  PROVE  /\ UNCHANGED <<svc, frame, sfbuf>>
         /\ header_valid' \in BOOLEAN /\ header_expected' \in BOOLEAN
         /\ ~header_expected => header_expected' /\ header_valid' = header_valid
         /\ header_expected /\ q = "good" /\ at[2] = 0 =>
               header_valid' /\ (header_expected' <=> ~Low)
         /\ header_expected /\ q = "good" /\ at[2] # 0 => ~header_valid' /\ header_expected'
         /\ header_valid' => Write(<<Item(Arriving(q))>>)
         /\ ~header_valid' => Write(<<>>)
  <1> USE DEF ATypeOK
  <1>1. UNCHANGED <<svc, frame, sfbuf>>
    BY DEF wfmp2
  <1>2. /\ header_valid' => Write(<<Item(Arriving(q))>>)
        /\ ~header_valid' => Write(<<>>)
    BY DEF wfmp2
  <1>3. CASE ~header_expected
    <2>1. header_expected' = TRUE /\ header_valid' = header_valid
      BY <1>3 DEF wfmp2
    <2>2. QED
      BY <1>1, <1>2, <1>3, <2>1, Zenon
  <1>4. CASE header_expected
    <2>1. PICK h \in HeaderResults(Arriving(q)) : header_valid' = h.ok /\ header_expected' = ~h.low
      BY <1>4 DEF wfmp2
    <2>2. ASSUME q = "good", at[2] = 0
          PROVE  h.ok = TRUE /\ h.low = Low
      <3>1. h = [ok |-> svc.sub.bitrate \in (IF Low THEN lbrtab ELSE brtab), low |-> Low]
        BY <2>2 DEF HeaderResults, Arriving, Low
      <3>2. svc.sub.bitrate \in (IF Low THEN lbrtab ELSE brtab)
        BY KindsOf
      <3>3. h.low = Low
        BY <3>1, Zenon
      <3>4. h.ok = (svc.sub.bitrate \in (IF Low THEN lbrtab ELSE brtab))
        BY <3>1, Zenon
      <3>5. QED
        BY <3>2, <3>3, <3>4, Zenon
    <2>3. ASSUME q = "good", at[2] # 0
          PROVE  h.ok = FALSE /\ h.low = FALSE
      BY <2>3 DEF HeaderResults, Arriving
    <2>4. ASSUME q # "good"
          PROVE  h.ok \in BOOLEAN /\ h.low \in BOOLEAN
      BY <2>4 DEF HeaderResults, Arriving
    <2>5. h.ok \in BOOLEAN /\ h.low \in BOOLEAN
      <3>1. Low \in BOOLEAN
        BY Zenon DEF Low
      <3>2. QED
        BY <2>2, <2>3, <2>4, <3>1, Zenon
    <2>6. QED
      BY <1>1, <1>2, <1>4, <2>1, <2>2, <2>3, <2>5, Zenon
  <1>5. QED
    BY <1>3, <1>4

\* wfdabplusdec: a frame is not stored, stored, or completes the five.
Stored(q) == sfbuf' = Append(sfbuf, Arriving(q)) /\ frame' = frame + 1 /\ Write(<<>>)
Flushed(q) == sfbuf' = <<>> /\ frame' = 0 /\ Write(GoodAus(Append(sfbuf, Arriving(q))))

LEMMA DabStep ==
  ASSUME ATypeOK, Dab, NEW q \in Qualities, wfdabplusdec(Arriving(q))
  PROVE  /\ UNCHANGED <<svc, header_valid, header_expected>>
         /\ \/ frame = 0 /\ (q = "good" => at[2] # 0) /\ UNCHANGED <<frame, sfbuf>> /\ Write(<<>>)
            \/ frame < 4 /\ (frame = 0 /\ q = "good" => at[2] = 0) /\ Stored(q)
            \/ frame = 4 /\ Flushed(q)
  <1> USE DEF ATypeOK
  <1>1. UNCHANGED <<svc, header_valid, header_expected>>
    BY DEF wfdabplusdec
  <1>2. PICK stored \in Starts(Arriving(q)) :
          IF ~stored
          THEN Write(<<>>) /\ UNCHANGED <<frame, sfbuf>>
          ELSE IF frame + 1 > 4
               THEN Flushed(q)
               ELSE Stored(q)
    BY DEF wfdabplusdec, Flushed, Stored
  <1>3. /\ stored \in BOOLEAN
        /\ ~stored => frame = 0 /\ (q = "good" => at[2] # 0)
        /\ stored /\ frame = 0 /\ q = "good" => at[2] = 0
    <2>1. CASE frame # 0
      <3>1. stored = TRUE
        BY <2>1, <1>2 DEF Starts
      <3>2. QED
        BY <2>1, <3>1
    <2>2. CASE frame = 0 /\ q = "good"
      <3>1. stored = (at[2] = 0)
        BY <2>2, <1>2 DEF Starts, firecrccheck, Arriving
      <3>2. QED
        BY <2>2, <3>1, Zenon
    <2>3. CASE frame = 0 /\ q # "good"
      <3>1. stored \in BOOLEAN
        BY <2>3, <1>2 DEF Starts, firecrccheck, Arriving
      <3>2. QED
        BY <2>3, <3>1
    <2>4. QED
      BY <2>1, <2>2, <2>3
  <1>4. CASE ~stored
    BY <1>1, <1>2, <1>3, <1>4
  <1>5. CASE stored /\ frame = 4
    BY <1>1, <1>2, <1>3, <1>5
  <1>6. CASE stored /\ frame # 4
    BY <1>1, <1>2, <1>3, <1>6
  <1>7. QED
    BY <1>3, <1>4, <1>5, <1>6

LEMMA Lost ==
  ASSUME LoseFrame
  PROVE  Arrive("lost") /\ Write(<<>>)
         /\ UNCHANGED <<svc, frame, sfbuf, header_valid, header_expected>>
  BY DEF LoseFrame, decoder

LEMMA NothingWritten ==
  ASSUME Write(<<>>)
  PROVE  last' = last
  BY DEF Write

LEMMA FrameType ==
  ASSUME ATypeOK, NEW q \in Qualities
  PROVE  Arriving(q) \in Frames
  BY KindsOf DEF Arriving, Frames, ATypeOK

-----------------------------------------------------------------------------
\* The values of the variables.

LEMMA WriteOne ==
  ASSUME NEW x, Write(<<x>>)
  PROVE  last' = x
  BY DEF Write

\* A superframe's units leave last alone, or replace it by one of the superframe.
LEMMA WriteUnits ==
  ASSUME ATypeOK, Dab, NEW sf, Write(GoodAus(sf))
  PROVE  last' = last \/ (sf[1].part = 0 /\ last'.unit = sf[1].unit)
  <1>1. svc.aus \in Nat
    BY KindsOf DEF ATypeOK
  <1>2. CASE GoodAus(sf) = <<>>
    BY <1>2 DEF Write
  <1>3. CASE GoodAus(sf) # <<>>
    <2>1. last' = GoodAus(sf)[Len(GoodAus(sf))]
      BY <1>3 DEF Write
    <2>2. QED
      BY <1>1, <1>3, <2>1, UnitsOfFirst
  <1>4. QED
    BY <1>2, <1>3

\* The first of the frames held, with the one that arrives.
LEMMA FirstHeld ==
  ASSUME ATypeOK, NEW q \in Qualities
  PROVE  LET sf == Append(sfbuf, Arriving(q))
         IN  /\ sf \in Seq(Frames) /\ Len(sf) = frame + 1
             /\ sf[1] = IF frame = 0 THEN Arriving(q) ELSE sfbuf[1]
             /\ sf[1] \in Frames
             /\ \A k \in 1 .. frame : sf[k] = sfbuf[k]
             /\ sf[frame + 1] = Arriving(q)
  BY FrameType DEF ATypeOK

LEMMA ItemType ==
  ASSUME ATypeOK, NEW q \in Qualities
  PROVE  /\ Item(Arriving(q)) \in Items
         /\ Item(Arriving(q)).unit = at[1] /\ Item(Arriving(q)).part = at[2]
         /\ Item(Arriving(q)).good <=> q = "good"
         /\ at[1] \in Nat /\ at[2] \in Nat
  <1>1. at[1] \in Nat /\ at[2] \in Nat
    BY DEF ATypeOK
  <1>2. PICK x : x = Item(Arriving(q))
    OBVIOUS
  <1>3. PICK g \in BOOLEAN : g <=> q = "good"
    OBVIOUS
  <1>4. x = [unit |-> at[1], part |-> at[2], good |-> q = "good"]
    BY <1>2 DEF Item, Arriving
  <1>5. (q = "good") = g
    BY <1>3
  <1>6. x = [unit |-> at[1], part |-> at[2], good |-> g]
    BY <1>4, <1>5, Zenon
  <1>7. x \in Items /\ x.unit = at[1] /\ x.part = at[2]
    BY <1>1, <1>6 DEF Items
  <1>8. x.good <=> g
    BY <1>6, Zenon
  <1>9. QED
    BY <1>1, <1>2, <1>3, <1>7, <1>8, Zenon

LEMMA HeldTyped ==
  ASSUME ATypeOK, frame > 0
  PROVE  sfbuf[1] \in Frames /\ sfbuf[1].unit \in Nat /\ sfbuf[1].part \in Nat
  <1>1. sfbuf[1] \in Frames
    BY ElementOfSeq DEF ATypeOK
  <1>2. QED
    BY <1>1 DEF Frames

LEMMA TypeInit ==
  ASSUME AInit
  PROVE  ATypeOK
  <1>1. UnitFrames(svc.kind) > 0
    BY KindsOf DEF AInit
  <1>2. at \in Nat \X Nat /\ at[2] = 0
    BY DEF AInit
  <1>3. sfbuf \in Seq(Frames) /\ Len(sfbuf) = 0 /\ frame = 0
    BY DEF AInit
  <1>4. header_valid \in BOOLEAN /\ header_expected \in BOOLEAN /\ clean \in BOOLEAN
    BY Zenon DEF AInit
  <1>5. last = [unit |-> 0, part |-> 0, good |-> TRUE]
    BY DEF AInit, Nothing
  <1>6. last \in Items /\ last.unit = 0
    BY <1>5 DEF Items
  <1>7. svc \in Services /\ lostrun = 0 /\ intact = 0
    BY DEF AInit
  <1>8. QED
    <2>1. lostrun \in Nat /\ intact \in 0 .. 2 /\ frame \in 0 .. 4
          /\ at[2] < UnitFrames(svc.kind) /\ last.unit \in Nat
      BY <1>1, <1>2, <1>3, <1>6, <1>7
    <2>2. QED
      BY <1>2, <1>3, <1>4, <1>6, <1>7, <2>1, Zenon DEF ATypeOK

LEMMA TypeNext ==
  ASSUME ATypeOK, [ANext]_avars
  PROVE  ATypeOK'
  <1> USE DEF ATypeOK
  <1>1. CASE LoseFrame
    <2>1. svc' = svc /\ frame' = frame /\ sfbuf' = sfbuf /\ last' = last
          /\ header_valid' = header_valid /\ header_expected' = header_expected
      BY <1>1, Lost, NothingWritten
    <2>2. QED
      BY <1>1, <2>1, Lost, Counting DEF Dab
  <1>2. ASSUME NEW q \in Qualities, Arrive(q), Dab, wfdabplusdec(Arriving(q))
        PROVE  ATypeOK'
    <2>1. svc' = svc /\ header_valid' = header_valid /\ header_expected' = header_expected
      BY <1>2, DabStep
    <2>2. frame' \in 0 .. 4 /\ sfbuf' \in Seq(Frames) /\ Len(sfbuf') = frame'
      <3>1. Append(sfbuf, Arriving(q)) \in Seq(Frames) /\ Len(Append(sfbuf, Arriving(q))) = frame + 1
        BY <1>2, FirstHeld
      <3>2. CASE Flushed(q)
        <4>1. frame' = 0 /\ sfbuf' = <<>>
          BY <3>2 DEF Flushed
        <4>2. QED
          BY <4>1
      <3>3. CASE frame < 4 /\ Stored(q)
        BY <3>1, <3>3 DEF Stored
      <3>4. QED
        BY <1>2, <3>2, <3>3, DabStep
    <2>3. last'.unit \in Nat
      <3>1. CASE Write(<<>>)
        BY <3>1, NothingWritten
      <3>2. CASE Flushed(q)
        <4>1. PICK sf : sf = Append(sfbuf, Arriving(q))
          OBVIOUS
        <4>2. Write(GoodAus(sf)) /\ sf[1] \in Frames
          BY <3>2, <4>1, FirstHeld DEF Flushed
        <4>3. QED
          BY <1>2, <4>2, WriteUnits DEF Frames
      <3>3. QED
        BY <1>2, <3>1, <3>2, DabStep DEF Stored
    <2>4. QED
      BY <1>2, <2>1, <2>2, <2>3, Counting DEF Dab
  <1>3. ASSUME NEW q \in Qualities, Arrive(q), ~Dab, wfmp2(Arriving(q))
        PROVE  ATypeOK'
    <2>1. svc' = svc /\ frame' = frame /\ sfbuf' = sfbuf
          /\ header_valid' \in BOOLEAN /\ header_expected' \in BOOLEAN
      BY <1>3, Mp2Step
    <2>2. last' \in Items
      <3>1. Item(Arriving(q)) \in Items
        <4>1. at[1] \in Nat /\ at[2] \in Nat
          BY <1>3, Counting
        <4>2. QED
          BY <4>1 DEF Item, Items, Arriving
      <3>2. last' = last \/ last' = Item(Arriving(q))
        BY <1>3, Mp2Step, WriteOne, NothingWritten
      <3>3. QED
        BY <1>3, <3>1, <3>2
    <2>3. last'.unit \in Nat
      BY <2>2 DEF Items
    <2>4. QED
      BY <1>3, <2>1, <2>2, <2>3, Counting DEF Dab
  <1>4. CASE UNCHANGED avars
    BY <1>4 DEF avars, decoder, history, Dab
  <1>5. QED
    BY <1>1, <1>2, <1>3, <1>4, Cases

-----------------------------------------------------------------------------
\* What is written does not go back.

\* A place before the next frame.
Precedes(u, p) == u < at[1] \/ (u = at[1] /\ p < at[2])

\* What was written last comes before the next frame (of a superframe, before the unit the
\* next frame is of, or before that frame), and the first frame held comes after it; a
\* 24 kHz header that was just taken is what was written last.
SpliceInv ==
    /\ Dab => Precedes(last.unit, 0)
    /\ ~Dab => Precedes(last.unit, last.part)
    /\ Dab /\ frame > 0 =>
          /\ Precedes(sfbuf[1].unit, sfbuf[1].part)
          /\ sfbuf[1].unit > last.unit \/ (sfbuf[1].unit = last.unit /\ sfbuf[1].part > 0)
    /\ Low /\ ~header_expected /\ header_valid /\ lostrun < 2 =>
          /\ 2 * last.unit + last.part = 2 * at[1] + at[2] - 1 - lostrun
          /\ last.good => last.part = 0

\* NothingSpliced's action.
Splices ==
    last' # last =>
         /\ Later(last', last)
         /\ (svc.kind = "mp2low" /\ last'.part = 1 /\ last'.good) =>
              \/ last.unit = last'.unit /\ last.part = 0
              \/ lostrun >= 2
              \/ ~last.good

LEMMA PrecedesNext ==
  ASSUME ATypeOK, NEW q, Arrive(q), NEW u \in Nat, NEW p \in Nat,
         Precedes(u, p) \/ (u = at[1] /\ p = at[2])
  PROVE  u < at'[1] \/ (u = at'[1] /\ p < at'[2])
  <1>1. /\ LastPart => at'[1] = at[1] + 1 /\ at'[2] = 0
        /\ ~LastPart => at'[1] = at[1] /\ at'[2] = at[2] + 1
        /\ at[1] \in Nat /\ at[2] \in Nat
    BY Counting
  <1>2. QED
    BY <1>1 DEF Precedes

\* At 24 kHz the frames are two to a unit.
LEMMA HalfCount ==
  ASSUME ATypeOK, Low, NEW q, Arrive(q)
  PROVE  /\ 2 * at'[1] + at'[2] = 2 * at[1] + at[2] + 1
         /\ at'[1] \in Nat /\ at'[2] \in Nat /\ at[1] \in Nat /\ at[2] \in 0 .. 1
         /\ last \in Items /\ last.unit \in Nat /\ last.part \in Nat
  <1>1. UnitFrames(svc.kind) = 2 /\ ~Dab
    BY KindsOf DEF ATypeOK
  <1>2. /\ at[1] \in Nat /\ at[2] \in Nat /\ at[2] < 2
        /\ LastPart => at'[1] = at[1] + 1 /\ at'[2] = 0
        /\ ~LastPart => at'[1] = at[1] /\ at'[2] = at[2] + 1
    BY <1>1, Counting DEF ATypeOK
  <1>3. LastPart <=> at[2] = 1
    BY <1>1, <1>2 DEF LastPart
  <1>4. last \in Items
    BY <1>1 DEF ATypeOK
  <1>5. last.unit \in Nat /\ last.part \in Nat
    BY <1>4 DEF Items
  <1>6. CASE LastPart
    BY <1>2, <1>3, <1>4, <1>5, <1>6
  <1>7. CASE ~LastPart
    BY <1>2, <1>3, <1>4, <1>5, <1>7
  <1>8. QED
    BY <1>6, <1>7

LEMMA SpliceNext ==
  ASSUME ATypeOK, SpliceInv, [ANext]_avars
  PROVE  SpliceInv' /\ [Splices]_avars
  <1> USE DEF ATypeOK, SpliceInv
  <1>1. CASE LoseFrame
    <2>1. /\ svc' = svc /\ frame' = frame /\ sfbuf' = sfbuf /\ last' = last
          /\ header_valid' = header_valid /\ header_expected' = header_expected
          /\ Arrive("lost")
      BY <1>1, Lost, NothingWritten
    <2>2. lostrun' = lostrun + 1
      BY <2>1, Arrival
    <2>3. (Dab => Precedes(last.unit, 0)') /\ (~Dab => Precedes(last.unit, last.part)')
      BY <2>1, PrecedesNext DEF Precedes, Items
    <2>4. Dab /\ frame > 0 => Precedes(sfbuf[1].unit, sfbuf[1].part)'
      <3>1. frame > 0 => sfbuf[1].unit \in Nat /\ sfbuf[1].part \in Nat
        BY HeldTyped
      <3>2. QED
        BY <2>1, <3>1, PrecedesNext DEF Precedes
    <2>5. ASSUME Low, ~header_expected, header_valid, lostrun' < 2
          PROVE  2 * last.unit + last.part = 2 * at'[1] + at'[2] - 1 - lostrun'
      <3>1. lostrun = 0 /\ 2 * last.unit + last.part = 2 * at[1] + at[2] - 1 - lostrun
        BY <2>2, <2>5
      <3>2. 2 * at'[1] + at'[2] = 2 * at[1] + at[2] + 1
        BY <2>1, <2>5, HalfCount
      <3>3. /\ at[1] \in Nat /\ at[2] \in Nat /\ at'[1] \in Nat /\ at'[2] \in Nat
            /\ last.unit \in Nat /\ last.part \in Nat
        BY <2>1, <2>5, HalfCount
      <3>4. PICK a, b, c, d \in Nat : a = at[1] /\ b = at[2] /\ c = at'[1] /\ d = at'[2]
        BY <3>3
      <3>5. PICK u, p \in Nat : u = last.unit /\ p = last.part
        BY <3>3
      <3>6. 2 * u + p = 2 * a + b - 1 /\ 2 * c + d = 2 * a + b + 1
        BY <3>1, <3>2, <3>4, <3>5
      <3>7. 2 * u + p = 2 * c + d - 2
        BY <3>6
      <3>8. 2 * last.unit + last.part = 2 * at'[1] + at'[2] - 2
        BY <3>4, <3>5, <3>7
      <3>9. lostrun' = 1
        BY <2>2, <3>1
      <3>10. QED
        BY <3>3, <3>8, <3>9
    <2>6. QED
      BY <2>1, <2>2, <2>3, <2>4, <2>5 DEF Dab, Low, Splices
  <1>2. ASSUME NEW q \in Qualities, Arrive(q), Dab, wfdabplusdec(Arriving(q))
        PROVE  SpliceInv' /\ Splices
    <2>1. svc' = svc /\ ~Low
      BY <1>2, DabStep, KindsOf
    <2> DEFINE sf == Append(sfbuf, Arriving(q))
    <2>2. /\ sf[1] \in Frames
          /\ Precedes(sf[1].unit, sf[1].part) \/ (sf[1].unit = at[1] /\ sf[1].part = at[2])
          /\ sf[1].unit > last.unit \/ (sf[1].unit = last.unit /\ sf[1].part > 0)
      <3>1. sf[1] = (IF frame = 0 THEN Arriving(q) ELSE sfbuf[1]) /\ sf[1] \in Frames
        BY FirstHeld
      <3>2. CASE frame = 0
        <4>1. sf[1].unit = at[1] /\ sf[1].part = at[2]
          BY <3>1, <3>2 DEF Arriving
        <4>2. QED
          BY <1>2, <3>1, <4>1, Counting DEF Precedes
      <3>3. CASE frame # 0
        BY <1>2, <3>1, <3>3
      <3>4. QED
        BY <3>2, <3>3
    <2>3. CASE UNCHANGED <<frame, sfbuf>> /\ Write(<<>>)
      <3>1. last' = last /\ frame' = frame /\ sfbuf' = sfbuf
        BY <2>3, NothingWritten
      <3>2. Precedes(last.unit, 0)'
        BY <1>2, <3>1, PrecedesNext DEF Precedes
      <3>3. frame > 0 => Precedes(sfbuf[1].unit, sfbuf[1].part)'
        <4>1. frame > 0 => sfbuf[1].unit \in Nat /\ sfbuf[1].part \in Nat
          BY HeldTyped
        <4>2. QED
          BY <1>2, <3>1, <4>1, PrecedesNext DEF Precedes
      <3>4. QED
        BY <1>2, <2>1, <3>1, <3>2, <3>3 DEF Dab, Low, Splices
    <2>4. CASE Stored(q)
      <3>1. last' = last /\ frame' = frame + 1 /\ sfbuf' = sf
        BY <2>4, NothingWritten DEF Stored
      <3> HIDE DEF sf
      <3>2. Precedes(last.unit, 0)'
        BY <1>2, <3>1, PrecedesNext DEF Precedes
      <3>3. Precedes(sfbuf[1].unit, sfbuf[1].part)'
        BY <1>2, <2>2, <3>1, PrecedesNext DEF Precedes, Frames
      <3>4. QED
        BY <1>2, <2>1, <2>2, <3>1, <3>2, <3>3 DEF Dab, Low, Splices
    <2>5. CASE Flushed(q)
      <3>1. Write(GoodAus(sf)) /\ frame' = 0
        BY <2>5 DEF Flushed
      <3> HIDE DEF sf
      <3>2. last' = last \/ (sf[1].part = 0 /\ last'.unit = sf[1].unit)
        BY <1>2, <3>1, WriteUnits
      <3>3. CASE last' = last
        <4>1. Precedes(last.unit, 0)'
          BY <1>2, <3>3, PrecedesNext DEF Precedes
        <4>2. QED
          BY <1>2, <2>1, <3>1, <3>3, <4>1 DEF Dab, Low, Splices
      <3>4. CASE sf[1].part = 0 /\ last'.unit = sf[1].unit
        <4>1. Precedes(last.unit, 0)'
          BY <1>2, <2>2, <3>4, PrecedesNext DEF Precedes, Frames
        <4>2. last'.unit > last.unit
          BY <2>2, <3>4 DEF Frames
        <4>3. Splices
          BY <2>1, <4>2 DEF Splices, Later, Low
        <4>4. QED
          BY <1>2, <2>1, <3>1, <4>1, <4>3 DEF Dab, Low
      <3>5. QED
        BY <3>2, <3>3, <3>4
    <2>6. QED
      BY <1>2, <2>3, <2>4, <2>5, DabStep
  <1>3. ASSUME NEW q \in Qualities, Arrive(q), ~Dab, wfmp2(Arriving(q))
        PROVE  SpliceInv' /\ Splices
    <2> DEFINE x == Item(Arriving(q))
    <2>1. svc' = svc /\ lostrun' = 0
      BY <1>3, Mp2Step, Arrival DEF Qualities
    <2>2. /\ x \in Items /\ x.unit = at[1] /\ x.part = at[2] /\ (x.good <=> q = "good")
          /\ at[1] \in Nat /\ at[2] \in Nat
      BY <1>3, ItemType
    <2>3. header_valid' => last' = x
      BY <1>3, Mp2Step, WriteOne
    <2>4. ~header_valid' => last' = last
      BY <1>3, Mp2Step, NothingWritten
    <2> HIDE DEF x
    <2>5. Precedes(last.unit, last.part)'
      BY <1>3, <2>2, <2>3, <2>4, PrecedesNext DEF Precedes, Items
    <2>6. ASSUME Low, ~header_expected', header_valid'
          PROVE  /\ 2 * last'.unit + last'.part = 2 * at'[1] + at'[2] - 1 - lostrun'
                 /\ last'.good => last'.part = 0
      <3>1. header_expected
        BY <1>3, <2>6, Mp2Step
      <3>2. q = "good" => at[2] = 0
        BY <1>3, <2>6, <3>1, Mp2Step
      <3>3. 2 * at'[1] + at'[2] = 2 * at[1] + at[2] + 1
        BY <1>3, <2>6, HalfCount
      <3>4. QED
        BY <2>1, <2>2, <2>3, <2>6, <3>2, <3>3, Counting, <1>3
    <2>7. Splices
      <3>1. SUFFICES ASSUME last' # last
                     PROVE  Splices
        BY DEF Splices
      <3>2. last' = x
        BY <2>3, <2>4, <3>1
      <3>3. Later(last', last)
        BY <1>3, <2>2, <3>2 DEF Later, Precedes, Items
      <3>4. ASSUME svc.kind = "mp2low", last'.part = 1, last'.good, lostrun < 2, last.good
            PROVE  last.unit = last'.unit /\ last.part = 0
        <4>1. q = "good" /\ at[2] = 1 /\ Low /\ header_valid'
          BY <2>2, <2>4, <3>1, <3>2, <3>4 DEF Low
        <4>2. ~header_expected
          <5>1. header_expected /\ q = "good" /\ at[2] # 0 => ~header_valid'
            BY <1>3, Mp2Step, Zenon
          <5>2. at[2] # 0
            BY <4>1
          <5>3. QED
            BY <4>1, <5>1, <5>2, Zenon
        <4>3. header_valid
          BY <1>3, <4>1, <4>2, Mp2Step
        <4>4. 2 * last.unit + last.part = 2 * at[1] + at[2] - 1 - lostrun /\ last.part = 0
          BY <3>4, <4>1, <4>2, <4>3
        <4>5. last.unit \in Nat /\ lostrun \in 0 .. 1 /\ at[1] \in Nat
          BY <2>2, <3>4
        <4>6. last.unit = at[1]
          BY <4>1, <4>4, <4>5
        <4>7. QED
          BY <2>2, <3>2, <4>4, <4>6
      <3>5. QED
        BY <3>3, <3>4 DEF Splices, ATypeOK
    <2>8. QED
      BY <1>3, <2>1, <2>5, <2>6, <2>7 DEF Dab, Low
  <1>4. CASE UNCHANGED avars
    BY <1>4 DEF avars, decoder, history, Dab, Low, Precedes
  <1>5. QED
    BY <1>1, <1>2, <1>3, <1>4, Cases

\* NothingSpliced: whatever is lost, damaged or taken for something it is not, the audio
\* on stdout never goes back, and the second half of a 24 kHz frame follows its own header
\* (wfdabplusdec, wfmp2), for any services and any number of damaged or lost frames.
THEOREM AudioNeverGoesBack == ASpec => NothingSpliced
  <1>1. AInit => ATypeOK /\ SpliceInv
    <2>1. SUFFICES ASSUME AInit
                   PROVE  ATypeOK /\ SpliceInv
      OBVIOUS
    <2>2. at[1] = 1 /\ last.unit = 0 /\ frame = 0
      BY <2>1 DEF AInit, Nothing
    <2>3. header_expected
      <3>1. header_expected = TRUE
        BY <2>1 DEF AInit
      <3>2. QED
        BY <3>1
    <2>4. Precedes(last.unit, 0) /\ Precedes(last.unit, last.part) /\ ~(frame > 0)
      BY <2>2 DEF Precedes
    <2>5. QED
      BY <2>1, <2>3, <2>4, TypeInit, Zenon DEF SpliceInv
  <1>2. ATypeOK /\ SpliceInv /\ [ANext]_avars => ATypeOK' /\ SpliceInv' /\ [Splices]_avars
    BY TypeNext, SpliceNext
  <1>3. [][Splices]_avars => NothingSpliced
    BY DEF Splices, NothingSpliced
  <1>4. QED
    BY <1>1, <1>2, <1>3, PTL DEF ASpec

-----------------------------------------------------------------------------
\* A superframe that arrived whole gives all its units.

LEMMA SlotsOfFive ==
  ASSUME NEW n \in Nat \ {0}, NEW i \in 0 .. n - 1
  PROVE  Slots(i, n) \subseteq 0 .. 4
  <1> DEFINE m == 24 * n
             a == 110 * i
             b == 110 * (i + 1) - 1
  <1>1. m \in Nat \ {0} /\ a \in Int /\ b \in Int /\ m * 0 + 0 <= a /\ b <= m * 4 + (m - 1)
    OBVIOUS
  <1>2. Slots(i, n) = (a \div m) .. (b \div m)
    BY DEF Slots
  <1> HIDE DEF m, a, b
  <1>3. (m * 0 + 0) \div m = 0
    <2>1. 0 \in 0 .. m - 1
      BY <1>1
    <2>2. QED
      BY <1>1, <2>1, DivOf
  <1>4. (m * 4 + (m - 1)) \div m = 4
    <2>1. m - 1 \in 0 .. m - 1
      BY <1>1
    <2>2. QED
      BY <1>1, <2>1, DivOf
  <1>5. 0 <= a \div m
    BY <1>1, <1>3, DivMono
  <1>6. b \div m <= 4
    <2>1. m * 4 + (m - 1) \in Int
      BY <1>1
    <2>2. QED
      BY <1>1, <1>4, <2>1, DivMono
  <1>7. a \div m \in Int /\ b \div m \in Int
    BY <1>1, ModDiv
  <1>8. QED
    BY <1>2, <1>5, <1>6, <1>7

LEMMA WholeUnits ==
  ASSUME svc \in Services, Dab, NEW sf, NEW u,
         \A k \in 0 .. 4 : sf[k + 1].unit = u /\ sf[k + 1].part = k /\ sf[k + 1].quality # "bad"
  PROVE  GoodAus(sf) = Whole(u) /\ <<>> \o GoodAus(sf) = GoodAus(sf)
  <1> DEFINE n == svc.aus
  <1>1. n \in Nat \ {0}
    BY KindsOf
  <1>2. sf[1].unit = u
    <2>1. sf[0 + 1].unit = u
      OBVIOUS
    <2>2. QED
      BY <2>1
  <1>3. \A k \in 0 .. 4 : True(sf, k)
    BY <1>2 DEF True, InPlace, Corrected
  <1>4. ASSUME NEW i \in 0 .. n - 1
        PROVE  Good(sf, i)
    <2>1. Slots(i, n) \subseteq 0 .. 4
      BY <1>1, SlotsOfFive
    <2>2. QED
      BY <1>3, <2>1 DEF Good
  <1>5. GoodOnes(sf) = 0 .. n - 1
    BY <1>4 DEF GoodOnes
  <1>6. Cardinality(GoodOnes(sf)) = n
    BY <1>1, <1>5, FS_Interval
  <1>7. ASSUME NEW i \in 1 .. n
        PROVE  Unit(sf, i) = i - 1
    <2>1. ASSUME NEW j \in 0 .. n - 1
          PROVE  Cardinality(GoodUpTo(sf, j)) = j + 1
      <3>1. GoodUpTo(sf, j) = 0 .. j
        BY <1>1, <1>4 DEF GoodUpTo
      <3>2. QED
        <4>1. j \in Int /\ 0 <= j
          BY <1>1
        <4>2. Cardinality(0 .. j) = j - 0 + 1
          BY <4>1, FS_Interval
        <4>3. QED
          BY <3>1, <4>1, <4>2
    <2>2. i - 1 \in 0 .. n - 1 /\ (i - 1) + 1 = i
      BY <1>1
    <2>3. Good(sf, i - 1) /\ Cardinality(GoodUpTo(sf, i - 1)) = i
      BY <1>4, <2>1, <2>2
    <2>4. /\ Unit(sf, i) \in 0 .. n - 1
          /\ Cardinality(GoodUpTo(sf, Unit(sf, i))) = i
      BY <2>2, <2>3 DEF Unit
    <2>5. QED
      BY <1>1, <2>1, <2>4
  <1>8. GoodAus(sf) = [i \in 1 .. n |-> [unit |-> u, part |-> i - 1, good |-> TRUE]]
    BY <1>2, <1>6, <1>7, GoodAusIs
  <1>9. Whole(u) = [i \in 1 .. n |-> [unit |-> u, part |-> i - 1, good |-> TRUE]]
    BY DEF Whole, Dab
  <1>10. <<>> \o GoodAus(sf) = GoodAus(sf)
    <2> DEFINE e(i) == [unit |-> u, part |-> i - 1, good |-> TRUE]
               S == {e(i) : i \in 1 .. n}
    <2>1. \A i \in 1 .. n : e(i) \in S
      OBVIOUS
    <2>2. GoodAus(sf) = [i \in 1 .. n |-> e(i)]
      BY <1>8
    <2> HIDE DEF n, e, S
    <2>3. GoodAus(sf) \in Seq(S)
      BY <1>1, <2>1, <2>2
    <2>4. QED
      BY <2>3, ConcatEmptySeq
  <1>11. QED
    BY <1>8, <1>9, <1>10

-----------------------------------------------------------------------------
\* Finding back into step.

\* The frames held are those of the current unit that arrived, which is undamaged.
InStep ==
    /\ frame = at[2]
    /\ \A k \in 1 .. frame : /\ sfbuf[k].unit = at[1] /\ sfbuf[k].part = k - 1
                             /\ sfbuf[k].quality # "bad"
    /\ at[2] > 0 => out = <<>>

\* In an undamaged unit wfdabplusdec holds nothing, or at least as many frames as the unit
\* has had, so that it is empty at the unit's end at the latest; after a whole unit it is
\* in step. wfmp2 expects a header after a whole unit, and has taken it at the half of a
\* second one.
ResyncInv ==
    /\ at[2] = 0 => clean
    /\ Dab /\ clean /\ intact = 0 => frame = 0 \/ frame >= at[2]
    /\ Dab /\ clean /\ intact > 0 => InStep
    /\ ~Dab /\ at[2] = 0 /\ intact > 0 => header_expected
    /\ Low /\ at[2] = 1 /\ clean /\ intact > 0 =>
          /\ ~header_expected /\ header_valid
          /\ out = <<[unit |-> at[1], part |-> 0, good |-> TRUE]>>

LEMMA Outcome ==
  ASSUME ATypeOK, NEW q, Arrive(q)
  PROVE  /\ LastPart => clean'
         /\ ~LastPart => (clean' <=> Unhurt(q)) /\ intact' = intact
         /\ LastPart /\ ~Unhurt(q) => intact' = 0
         /\ LastPart /\ Unhurt(q) => intact' > 0 /\ (intact' = 2 => intact > 0)
  <1>1. clean' = (LastPart \/ Unhurt(q))
    BY Arrival
  <1>2. /\ LastPart => clean'
        /\ ~LastPart => (clean' <=> Unhurt(q))
    BY <1>1, Zenon
  <1>3. /\ ~LastPart => intact' = intact
        /\ LastPart /\ ~Unhurt(q) => intact' = 0
        /\ LastPart /\ Unhurt(q) => intact' = IF intact = 2 THEN 2 ELSE intact + 1
    BY Arrival
  <1>4. intact \in 0 .. 2
    BY DEF ATypeOK
  <1>5. QED
    BY <1>2, <1>3, <1>4

\* A damaged frame leaves nothing to show.
LEMMA Hurt ==
  ASSUME ATypeOK, ATypeOK', NEW q, Arrive(q), ~Unhurt(q)
  PROVE  ResyncInv' /\ Resync'
  <1>1. frame' \in 0 .. 4
    BY DEF ATypeOK
  <1>2. CASE LastPart
    <2>1. clean' /\ intact' = 0 /\ at'[2] = 0
      BY <1>2, Outcome, Counting
    <2>2. frame' >= at'[2] /\ ~(at'[2] = 1) /\ ~(intact' > 0) /\ ~(intact' = 2)
      BY <1>1, <2>1
    <2>3. QED
      BY <2>1, <2>2, Zenon DEF ResyncInv, Resync
  <1>3. CASE ~LastPart
    <2>1. ~clean' /\ at'[2] = at[2] + 1 /\ at[2] \in Nat
      BY <1>3, Outcome, Counting
    <2>2. ~(at'[2] = 0)
      BY <2>1
    <2>3. QED
      BY <2>1, <2>2, Zenon DEF ResyncInv, Resync
  <1>4. QED
    BY <1>2, <1>3

\* DAB+.
LEMMA HeldAfter ==
  ASSUME ATypeOK, ResyncInv, Dab, clean, NEW q \in Qualities, intact = 0, q = "good",
         wfdabplusdec(Arriving(q))
  PROVE  IF LastPart THEN frame' = 0 ELSE frame' = 0 \/ frame' >= at[2] + 1
  <1>1. frame = 0 \/ frame >= at[2]
    BY DEF ResyncInv
  <1>2. frame \in 0 .. 4 /\ at[2] \in Nat /\ UnitFrames(svc.kind) = 5
    BY KindsOf DEF ATypeOK
  <1>3. LastPart <=> at[2] = 4
    BY <1>2 DEF LastPart
  <1>4. \/ frame = 0 /\ at[2] # 0 /\ frame' = frame
        \/ frame < 4 /\ (frame = 0 => at[2] = 0) /\ frame' = frame + 1
        \/ frame = 4 /\ frame' = 0
    BY DabStep DEF Stored, Flushed
  <1>5. QED
    BY <1>1, <1>2, <1>3, <1>4

LEMMA StaysInStep ==
  ASSUME ATypeOK, ATypeOK', InStep, Dab, NEW q \in Qualities, q # "bad", at[2] = 0 => q = "good",
         Arrive(q), wfdabplusdec(Arriving(q)), svc' = svc
  PROVE  InStep' /\ (LastPart => out' = Whole(at[1]))
  <1>1. frame = at[2] /\ frame \in 0 .. 4 /\ at[2] \in Nat /\ UnitFrames(svc.kind) = 5
    BY KindsOf DEF ATypeOK, InStep
  <1>2. LastPart <=> frame = 4
    BY <1>1 DEF LastPart
  <1> DEFINE sf == Append(sfbuf, Arriving(q))
  <1>3. ASSUME NEW k \in 1 .. frame + 1
        PROVE  sf[k].unit = at[1] /\ sf[k].part = k - 1 /\ sf[k].quality # "bad"
    <2>1. CASE k = frame + 1
      <3>1. sf[k] = Arriving(q)
        BY <2>1, FirstHeld
      <3>2. sf[k] = [unit |-> at[1], part |-> at[2], quality |-> q]
        BY <3>1 DEF Arriving
      <3> HIDE DEF sf
      <3>3. sf[k].unit = at[1] /\ sf[k].part = at[2] /\ sf[k].quality = q
        BY <3>2
      <3>4. k - 1 = at[2]
        BY <1>1, <2>1
      <3>5. QED
        BY <3>3, <3>4
    <2>2. CASE k # frame + 1
      <3>1. k \in 1 .. frame
        BY <1>1, <2>2
      <3>2. sf[k] = sfbuf[k]
        BY <3>1, FirstHeld
      <3>3. sfbuf[k].unit = at[1] /\ sfbuf[k].part = k - 1 /\ sfbuf[k].quality # "bad"
        BY <3>1 DEF InStep
      <3>4. QED
        BY <3>2, <3>3
    <2>3. QED
      BY <2>1, <2>2
  <1>4. CASE frame = 4
    <2>1. Flushed(q)
      BY <1>4, DabStep
    <2>2. frame' = 0 /\ at'[2] = 0
      BY <1>2, <1>4, <2>1, Counting DEF Flushed
    <2>3. InStep'
      BY <2>2 DEF InStep
    <2>4. GoodAus(sf) = Whole(at[1]) /\ <<>> \o GoodAus(sf) = GoodAus(sf)
      <3>1. PICK t, u : t = sf /\ u = at[1]
        OBVIOUS
      <3> HIDE DEF sf
      <3>2. \A k \in 0 .. 4 : t[k + 1].unit = u /\ t[k + 1].part = k /\ t[k + 1].quality # "bad"
        <4>1. ASSUME NEW k \in 0 .. 4
              PROVE  t[k + 1].unit = u /\ t[k + 1].part = k /\ t[k + 1].quality # "bad"
          <5>1. k + 1 \in 1 .. frame + 1 /\ (k + 1) - 1 = k
            BY <1>4
          <5>2. QED
            BY <1>3, <3>1, <5>1
        <4>2. QED
          BY <4>1
      <3>3. QED
        BY <3>1, <3>2, WholeUnits DEF ATypeOK
    <2>5. out' = <<>> \o GoodAus(sf)
      <3>1. out = <<>> /\ at[2] # 0
        BY <1>1, <1>4 DEF InStep
      <3>2. QED
        BY <2>1, <3>1 DEF Flushed, Write
    <2>6. QED
      BY <2>3, <2>4, <2>5
  <1>5. CASE frame # 4
    <2>1. Stored(q)
      BY <1>1, <1>5, DabStep
    <2>2. frame' = frame + 1 /\ sfbuf' = sf /\ at'[2] = at[2] + 1 /\ at'[1] = at[1]
      BY <1>2, <1>5, <2>1, Counting DEF Stored
    <2>3. out' = <<>>
      <3>1. (IF at[2] = 0 THEN <<>> ELSE out) = <<>>
        BY <1>1 DEF InStep
      <3>2. QED
        BY <2>1, <3>1 DEF Stored, Write
    <2> HIDE DEF sf
    <2>4. InStep'
      BY <1>1, <1>3, <2>2, <2>3 DEF InStep
    <2>5. QED
      BY <1>2, <1>5, <2>4
  <1>6. QED
    BY <1>4, <1>5

LEMMA DabResync ==
  ASSUME ATypeOK, ATypeOK', ResyncInv, Dab, NEW q \in Qualities, Arrive(q), Unhurt(q),
         wfdabplusdec(Arriving(q))
  PROVE  ResyncInv' /\ Resync'
  <1>1. svc' = svc /\ ~Low /\ Dab' /\ ~Low'
    BY DabStep, KindsOf DEF Dab, Low, ATypeOK
  <1>2. clean /\ q # "bad" /\ (q # "good" => intact > 0 /\ at[2] # 0)
    <2>1. at[2] \in Nat
      BY Counting
    <2>2. QED
      BY <2>1 DEF Unhurt
  <1>3. /\ LastPart => clean' /\ at'[2] = 0 /\ at'[1] = at[1] + 1 /\ intact' > 0
        /\ LastPart => (intact' = 2 => intact > 0)
        /\ ~LastPart => clean' /\ at'[2] = at[2] + 1 /\ intact' = intact
        /\ at[1] \in Nat /\ at[2] \in Nat /\ intact \in 0 .. 2
    BY Outcome, Counting DEF ATypeOK
  <1>4. CASE intact = 0
    <2>1. IF LastPart THEN frame' = 0 ELSE frame' = 0 \/ frame' >= at[2] + 1
      BY <1>2, <1>4, HeldAfter
    <2>2. CASE LastPart
      <3>1. InStep'
        BY <1>3, <2>1, <2>2 DEF InStep
      <3>2. QED
        BY <1>1, <1>3, <1>4, <2>2, <3>1 DEF ResyncInv, Resync
    <2>3. CASE ~LastPart
      <3>1. at'[2] > 0 /\ (frame' = 0 \/ frame' >= at'[2]) /\ intact' = 0
        BY <1>3, <1>4, <2>1, <2>3
      <3>2. QED
        BY <1>1, <3>1 DEF ResyncInv, Resync
    <2>4. QED
      BY <2>2, <2>3
  <1>5. CASE intact > 0
    <2>1. InStep
      BY <1>2, <1>5 DEF ResyncInv
    <2>2. InStep' /\ (LastPart => out' = Whole(at[1]))
      BY <1>1, <1>2, <2>1, StaysInStep
    <2>3. CASE LastPart
      <3>1. at'[1] - 1 = at[1]
        BY <1>3, <2>3
      <3>2. Resync'
        BY <1>1, <2>2, <2>3, <3>1 DEF Resync, Whole
      <3>3. QED
        BY <1>1, <1>3, <2>2, <2>3, <3>2 DEF ResyncInv
    <2>4. CASE ~LastPart
      <3>1. at'[2] > 0 /\ intact' > 0
        BY <1>3, <1>5, <2>4
      <3>2. QED
        BY <1>1, <2>2, <3>1 DEF ResyncInv, Resync
    <2>5. QED
      BY <2>3, <2>4
  <1>6. QED
    BY <1>3, <1>4, <1>5

\* MPEG layer II.
LEMMA WriteAtStart ==
  ASSUME at[2] = 0, NEW x, Write(<<x>>)
  PROVE  out' = <<x>>
  BY ConcatEmptySeq DEF Write

LEMMA GoodItem ==
  ASSUME ATypeOK
  PROVE  Item(Arriving("good")) = [unit |-> at[1], part |-> at[2], good |-> TRUE]
  BY DEF Item, Arriving

LEMMA WholeOfOne ==
  ASSUME svc.kind # "dabplus", UnitFrames(svc.kind) = 1, NEW u
  PROVE  Whole(u) = <<[unit |-> u, part |-> 0, good |-> TRUE]>>
  <1>1. PICK a : a = [unit |-> u, part |-> 0, good |-> TRUE]
    OBVIOUS
  <1>2. \A i \in 1 .. 1 : [unit |-> u, part |-> i - 1, good |-> TRUE] = a
    BY <1>1
  <1>3. Whole(u) = [i \in 1 .. 1 |-> a]
    BY <1>2 DEF Whole
  <1>4. [i \in 1 .. 1 |-> a] = <<a>>
    OBVIOUS
  <1>5. QED
    BY <1>1, <1>3, <1>4

LEMMA WholeOfTwo ==
  ASSUME svc.kind # "dabplus", UnitFrames(svc.kind) = 2, NEW u
  PROVE  Whole(u) = <<[unit |-> u, part |-> 0, good |-> TRUE],
                      [unit |-> u, part |-> 1, good |-> TRUE]>>
  <1>1. PICK a, b : /\ a = [unit |-> u, part |-> 0, good |-> TRUE]
                    /\ b = [unit |-> u, part |-> 1, good |-> TRUE]
    OBVIOUS
  <1>2. ASSUME NEW i \in 1 .. 2
        PROVE  [unit |-> u, part |-> i - 1, good |-> TRUE] = IF i = 1 THEN a ELSE b
    <2>1. CASE i = 1
      BY <1>1, <2>1
    <2>2. CASE i = 2
      <3>1. i - 1 = 1 /\ i # 1
        BY <2>2
      <3>2. QED
        BY <1>1, <3>1
    <2>3. QED
      BY <2>1, <2>2
  <1>3. Whole(u) = [i \in 1 .. 2 |-> IF i = 1 THEN a ELSE b]
    BY <1>2 DEF Whole
  <1>4. [i \in 1 .. 2 |-> IF i = 1 THEN a ELSE b] = <<a, b>>
    OBVIOUS
  <1>5. QED
    BY <1>1, <1>3, <1>4

LEMMA Pair ==
  ASSUME NEW a, NEW b
  PROVE  <<a>> \o <<b>> = <<a, b>>
  <1> DEFINE S == {a, b}
             s == <<a>> \o <<b>>
             t == <<a, b>>
  <1>1. <<a>> \in Seq(S) /\ <<b>> \in Seq(S) /\ t \in Seq(S)
    OBVIOUS
  <1>2. Len(<<a>>) = 1 /\ Len(<<b>>) = 1 /\ Len(t) = 2
    OBVIOUS
  <1>3. s \in Seq(S) /\ Len(s) = 2
    BY <1>1, <1>2, ConcatProperties
  <1>4. s[1] = <<a>>[1] /\ s[2] = <<b>>[1]
    BY <1>1, <1>2, ConcatProperties
  <1>5. <<a>>[1] = a /\ <<b>>[1] = b /\ t[1] = a /\ t[2] = b
    OBVIOUS
  <1> HIDE DEF s, t
  <1>6. \A i \in 1 .. Len(s) : s[i] = t[i]
    BY <1>3, <1>4, <1>5
  <1>7. s = t
    BY <1>1, <1>2, <1>3, <1>6, SeqEqual
  <1>8. QED
    BY <1>7 DEF s, t

LEMMA Mp2Resync ==
  ASSUME ATypeOK, ATypeOK', ResyncInv, ~Dab, NEW q \in Qualities, Arrive(q), Unhurt(q),
         wfmp2(Arriving(q))
  PROVE  ResyncInv' /\ Resync'
  <1>1. svc' = svc /\ ~Dab' /\ (Low' <=> Low)
    BY Mp2Step DEF Dab, Low
  <1>2. clean /\ q = "good"
    BY DEF Unhurt
  <1>3. /\ LastPart => clean' /\ at'[2] = 0 /\ at'[1] = at[1] + 1 /\ intact' > 0
        /\ LastPart => (intact' = 2 => intact > 0)
        /\ ~LastPart => clean' /\ at'[2] = at[2] + 1 /\ intact' = intact /\ at'[1] = at[1]
        /\ at[1] \in Nat /\ at[2] \in Nat /\ intact \in 0 .. 2
    BY Outcome, Counting DEF ATypeOK
  <1>4. /\ ~header_expected => header_expected' /\ header_valid' = header_valid
        /\ header_expected /\ at[2] = 0 => header_valid' /\ (header_expected' <=> ~Low)
        /\ header_expected /\ at[2] # 0 => ~header_valid' /\ header_expected'
    BY <1>2, Mp2Step, Zenon
  <1> DEFINE x == [unit |-> at[1], part |-> at[2], good |-> TRUE]
  <1>5. header_valid' => Write(<<x>>)
    BY <1>2, Mp2Step, GoodItem
  <1> HIDE DEF x
  <1>6. CASE ~LastPart
    <2>1. Low /\ at[2] = 0 /\ at'[2] = 1
      BY <1>3, <1>6, KindsOf DEF ATypeOK, LastPart
    <2>2. ASSUME intact' > 0
          PROVE  ~header_expected' /\ header_valid' /\ out' = <<x>>
      <3>1. header_expected
        BY <1>3, <1>6, <2>1, <2>2 DEF ResyncInv
      <3>2. header_valid' /\ ~header_expected'
        BY <1>4, <2>1, <3>1, Zenon
      <3>3. QED
        BY <1>5, <2>1, <3>2, WriteAtStart
    <2>3. x = [unit |-> at'[1], part |-> 0, good |-> TRUE]
      BY <1>3, <1>6, <2>1 DEF x
    <2>4. ~(at'[2] = 0)
      BY <2>1
    <2>5. QED
      BY <1>1, <2>2, <2>3, <2>4, Zenon DEF ResyncInv, Resync
  <1>7. CASE LastPart
    <2>1. header_expected'
      <3>1. at[2] = 0 => ~Low
        BY <1>7, KindsOf DEF ATypeOK, LastPart
      <3>2. QED
        BY <1>4, <3>1, Zenon
    <2>2. ASSUME intact > 0
          PROVE  out' = Whole(at[1])
      <3>1. CASE Low
        <4>1. at[2] = 1 /\ svc.kind # "dabplus" /\ UnitFrames(svc.kind) = 2
          BY <1>3, <1>7, <3>1, KindsOf DEF ATypeOK, LastPart, Dab
        <4>2. /\ ~header_expected /\ header_valid
              /\ out = <<[unit |-> at[1], part |-> 0, good |-> TRUE]>>
          BY <1>2, <2>2, <3>1, <4>1 DEF ResyncInv
        <4>3. header_valid'
          BY <1>4, <4>2
        <4>4. Write(<<x>>)
          BY <1>5, <4>3
        <4>5. out' = out \o <<x>>
          BY <4>1, <4>4 DEF Write
        <4>6. PICK y : y = [unit |-> at[1], part |-> 0, good |-> TRUE]
          OBVIOUS
        <4>7. out' = <<y, x>>
          BY <4>2, <4>5, <4>6, Pair
        <4>8. QED
          BY <4>1, <4>6, <4>7, WholeOfTwo DEF x
      <3>2. CASE ~Low
        <4>1. at[2] = 0 /\ svc.kind # "dabplus" /\ UnitFrames(svc.kind) = 1
          BY <1>3, <1>7, <3>2, KindsOf DEF ATypeOK, LastPart, Dab
        <4>2. header_expected
          BY <2>2, <4>1 DEF ResyncInv
        <4>3. header_valid'
          BY <1>4, <4>1, <4>2
        <4>4. out' = <<x>>
          BY <1>5, <4>1, <4>3, WriteAtStart
        <4>5. QED
          BY <4>1, <4>4, WholeOfOne DEF x
      <3>3. QED
        BY <3>1, <3>2
    <2>3. Resync'
      <3>1. at'[1] - 1 = at[1]
        BY <1>3, <1>7
      <3>2. QED
        BY <1>1, <1>3, <1>7, <2>2, <3>1 DEF Resync, Whole
    <2>4. clean' /\ ~(at'[2] = 1)
      BY <1>3, <1>7
    <2>5. ResyncInv'
      BY <1>1, <2>1, <2>4, Zenon DEF ResyncInv
    <2>6. QED
      BY <2>3, <2>5
  <1>8. QED
    BY <1>6, <1>7

\* The values of the variables are right in every state.
THEOREM AudioTyped == ASpec => []ATypeOK
  BY TypeInit, TypeNext, PTL DEF ASpec

\* Resync: of two whole units in a row the second is written whole, and nothing else with
\* it, whatever was lost or damaged before and whatever damaged frame was taken for the
\* start of a superframe or for a header (wfdabplusdec, wfmp2), for any services, any
\* number of AUs in a superframe and any number of damaged or lost frames.
THEOREM FindsBackIntoStep == ASpec => []Resync
  <1>1. AInit => ATypeOK /\ ResyncInv /\ Resync
    <2>1. SUFFICES ASSUME AInit
                   PROVE  ATypeOK /\ ResyncInv /\ Resync
      OBVIOUS
    <2>2. frame = 0 /\ at[2] = 0 /\ intact = 0 /\ clean = TRUE
      BY <2>1 DEF AInit
    <2>3. clean /\ ~(intact > 0) /\ ~(intact = 2)
      BY <2>2
    <2>4. QED
      BY <2>1, <2>2, <2>3, TypeInit, Zenon DEF ResyncInv, Resync
  <1>2. ATypeOK /\ ResyncInv /\ Resync /\ [ANext]_avars => ATypeOK' /\ ResyncInv' /\ Resync'
    <2>1. SUFFICES ASSUME ATypeOK, ResyncInv, Resync, [ANext]_avars
                   PROVE  ATypeOK' /\ ResyncInv' /\ Resync'
      OBVIOUS
    <2>2. ATypeOK'
      BY <2>1, TypeNext
    <2>3. CASE LoseFrame
      <3>1. Arrive("lost") /\ ~Unhurt("lost")
        BY <2>3, Lost DEF Unhurt
      <3>2. QED
        BY <2>1, <2>2, <3>1, Hurt
    <2>4. ASSUME NEW q \in Qualities, Arrive(q), Dab, wfdabplusdec(Arriving(q))
          PROVE  ResyncInv' /\ Resync'
      BY <2>1, <2>2, <2>4, Hurt, DabResync
    <2>5. ASSUME NEW q \in Qualities, Arrive(q), ~Dab, wfmp2(Arriving(q))
          PROVE  ResyncInv' /\ Resync'
      BY <2>1, <2>2, <2>5, Hurt, Mp2Resync
    <2>6. CASE UNCHANGED avars
      <3>1. /\ svc' = svc /\ at' = at /\ frame' = frame /\ sfbuf' = sfbuf /\ out' = out
            /\ header_valid' = header_valid /\ header_expected' = header_expected
            /\ clean' = clean /\ intact' = intact
        BY <2>6 DEF avars, decoder, history
      <3>2. InStep' <=> InStep
        BY <3>1 DEF InStep
      <3>3. (Dab' <=> Dab) /\ (Low' <=> Low)
        BY <3>1 DEF Dab, Low
      <3>4. ResyncInv'
        BY <2>1, <3>1, <3>2, <3>3, Zenon DEF ResyncInv
      <3>5. Resync'
        BY <2>1, <3>1 DEF Resync, Whole
      <3>6. QED
        BY <2>2, <3>4, <3>5
    <2>7. QED
      BY <2>1, <2>2, <2>3, <2>4, <2>5, <2>6, Cases
  <1>3. QED
    BY <1>1, <1>2, PTL DEF ASpec

-----------------------------------------------------------------------------
\* The sums over the parts of a codeword, of which there are at most four.

In(p, x, s) == IF p \in s THEN x ELSE 0
FourSum(p1, p2, p3, p4, f, s) ==
    In(p1, f[p1], s) + In(p2, f[p2], s) + In(p3, f[p3], s) + In(p4, f[p4], s)
FourPlaces(p1, p2, p3, p4, s) == In(p1, 1, s) + In(p2, 1, s) + In(p3, 1, s) + In(p4, 1, s)

\* total[s] is the sum of f over s, as MapThenFoldSet adds it up.
Totals(total, f, S) ==
    total = [s \in SUBSET S |-> IF s = {} THEN 0
               ELSE f[CHOOSE x \in s : TRUE] + total[s \ {CHOOSE x \in s : TRUE}]]

LEMMA FourSumStep ==
  ASSUME NEW p1, NEW p2, NEW p3, NEW p4,
         p1 # p2, p1 # p3, p1 # p4, p2 # p3, p2 # p4, p3 # p4,
         NEW f, \A p \in {p1, p2, p3, p4} : f[p] \in Int,
         NEW s \in SUBSET {p1, p2, p3, p4}, NEW x \in s
  PROVE  /\ FourSum(p1, p2, p3, p4, f, s \ {x}) \in Int
         /\ FourSum(p1, p2, p3, p4, f, s) = f[x] + FourSum(p1, p2, p3, p4, f, s \ {x})
  <1>1. ASSUME NEW p \in {p1, p2, p3, p4}
        PROVE  /\ In(p, f[p], s) = In(p, f[p], s \ {x}) + (IF p = x THEN f[x] ELSE 0)
               /\ In(p, f[p], s \ {x}) \in Int
    BY DEF In
  <1>2. x = p1 \/ x = p2 \/ x = p3 \/ x = p4
    OBVIOUS
  <1>3. QED
    BY <1>1, <1>2 DEF FourSum

LEMMA FourPlacesStep ==
  ASSUME NEW p1, NEW p2, NEW p3, NEW p4,
         p1 # p2, p1 # p3, p1 # p4, p2 # p3, p2 # p4, p3 # p4,
         NEW s \in SUBSET {p1, p2, p3, p4}
  PROVE  /\ FourPlaces(p1, p2, p3, p4, s) \in 0 .. 4
         /\ FourPlaces(p1, p2, p3, p4, s) = 0 => s = {}
         /\ \A x \in s : FourPlaces(p1, p2, p3, p4, s)
                           = 1 + FourPlaces(p1, p2, p3, p4, s \ {x})
  BY DEF FourPlaces, In

Summable(p1, p2, p3, p4, f, S) ==
    /\ p1 # p2 /\ p1 # p3 /\ p1 # p4 /\ p2 # p3 /\ p2 # p4 /\ p3 # p4
    /\ S \in SUBSET {p1, p2, p3, p4}
    /\ \A p \in {p1, p2, p3, p4} : f[p] \in Int

\* There is such a function, and its value at S is the sum of the four terms.
LEMMA TotalsExist ==
  ASSUME NEW p1, NEW p2, NEW p3, NEW p4, NEW S, NEW f, Summable(p1, p2, p3, p4, f, S)
  PROVE  \E total : Totals(total, f, S)
  <1> /\ p1 # p2 /\ p1 # p3 /\ p1 # p4 /\ p2 # p3 /\ p2 # p4 /\ p3 # p4
      /\ S \in SUBSET {p1, p2, p3, p4}
      /\ \A p \in {p1, p2, p3, p4} : f[p] \in Int
    BY DEF Summable
  <1> DEFINE w(s) == FourSum(p1, p2, p3, p4, f, s)
             W == [s \in SUBSET S |-> w(s)]
             first(s) == CHOOSE x \in s : TRUE
             next == [s \in SUBSET S |-> IF s = {} THEN 0 ELSE f[first(s)] + W[s \ {first(s)}]]
  <1>1. ASSUME NEW s \in SUBSET S
        PROVE  W[s] = next[s]
    <2>1. CASE s = {}
      BY <2>1 DEF FourSum, In
    <2>2. CASE s # {}
      <3>1. first(s) \in s
        BY <2>2
      <3>2. s \in SUBSET {p1, p2, p3, p4} /\ s \ {first(s)} \in SUBSET S
        OBVIOUS
      <3>3. W[s] = w(s) /\ W[s \ {first(s)}] = w(s \ {first(s)})
        BY <3>2
      <3>4. next[s] = f[first(s)] + W[s \ {first(s)}]
        BY <2>2
      <3> HIDE DEF w, W, next, first
      <3>5. w(s) = f[first(s)] + w(s \ {first(s)})
        BY <3>1, <3>2, FourSumStep DEF w
      <3>6. QED
        BY <3>3, <3>4, <3>5
    <2>3. QED
      BY <2>1, <2>2
  <1>2. W = next
    <2>1. /\ W = [s \in SUBSET S |-> W[s]]
          /\ next = [s \in SUBSET S |-> next[s]]
      OBVIOUS
    <2> HIDE DEF W, next
    <2>2. QED
      BY <1>1, <2>1
  <1>3. Totals(W, f, S)
    BY <1>2, Zenon DEF Totals
  <1>4. QED
    BY <1>3

LEMMA TotalsSum ==
  ASSUME NEW p1, NEW p2, NEW p3, NEW p4, NEW S, NEW f, Summable(p1, p2, p3, p4, f, S),
         NEW total, Totals(total, f, S)
  PROVE  total[S] = FourSum(p1, p2, p3, p4, f, S)
  <1> /\ p1 # p2 /\ p1 # p3 /\ p1 # p4 /\ p2 # p3 /\ p2 # p4 /\ p3 # p4
      /\ S \in SUBSET {p1, p2, p3, p4}
      /\ \A p \in {p1, p2, p3, p4} : f[p] \in Int
    BY DEF Summable
  <1> DEFINE W == [s \in SUBSET S |-> FourSum(p1, p2, p3, p4, f, s)]
             C == [s \in SUBSET S |-> FourPlaces(p1, p2, p3, p4, s)]
  <1>1. ASSUME NEW s \in SUBSET S, s # {}
        PROVE  \E x \in s : /\ total[s] = f[x] + total[s \ {x}]
                            /\ W[s] = f[x] + W[s \ {x}]
                            /\ C[s] = 1 + C[s \ {x}]
    <2>1. (CHOOSE y \in s : TRUE) \in s
      BY <1>1
    <2>2. PICK x \in s : total[s] = f[x] + total[s \ {x}]
      BY <1>1, <2>1 DEF Totals
    <2>3. s \in SUBSET {p1, p2, p3, p4} /\ s \ {x} \in SUBSET S
      OBVIOUS
    <2>4. W[s] = f[x] + W[s \ {x}]
      BY <2>3, FourSumStep
    <2>5. C[s] = 1 + C[s \ {x}]
      BY <2>3, FourPlacesStep
    <2> HIDE DEF W, C
    <2>6. QED
      BY <2>2, <2>4, <2>5
  <1>2. \A s \in SUBSET S : C[s] \in 0 .. 4 /\ (C[s] = 0 => s = {})
    <2>1. \A s \in SUBSET S : s \in SUBSET {p1, p2, p3, p4}
      OBVIOUS
    <2>2. QED
      BY <2>1, FourPlacesStep
  <1>3. {} \in SUBSET S /\ total[{}] = 0 /\ W[{}] = 0
    BY DEF Totals, FourSum, In
  <1> HIDE DEF W, C
  <1>4. ASSUME NEW k \in 0 .. 3, \A s \in SUBSET S : C[s] <= k => total[s] = W[s]
        PROVE  \A s \in SUBSET S : C[s] <= k + 1 => total[s] = W[s]
    <2>1. SUFFICES ASSUME NEW s \in SUBSET S, C[s] <= k + 1, s # {}
                   PROVE  total[s] = W[s]
      BY <1>3
    <2>2. PICK x \in s : /\ total[s] = f[x] + total[s \ {x}]
                         /\ W[s] = f[x] + W[s \ {x}]
                         /\ C[s] = 1 + C[s \ {x}]
      BY <1>1, <2>1
    <2>3. s \ {x} \in SUBSET S /\ C[s \ {x}] <= k
      BY <1>2, <2>1, <2>2
    <2>4. QED
      BY <1>4, <2>2, <2>3
  <1>5. \A s \in SUBSET S : C[s] <= 0 => total[s] = W[s]
    <2>1. SUFFICES ASSUME NEW s \in SUBSET S, C[s] <= 0
                   PROVE  total[s] = W[s]
      OBVIOUS
    <2>2. s = {}
      BY <1>2, <2>1
    <2>3. QED
      BY <1>3, <2>2
  <1>6. \A s \in SUBSET S : C[s] <= 1 => total[s] = W[s]
    BY <1>4, <1>5
  <1>7. \A s \in SUBSET S : C[s] <= 2 => total[s] = W[s]
    BY <1>4, <1>6
  <1>8. \A s \in SUBSET S : C[s] <= 3 => total[s] = W[s]
    BY <1>4, <1>7
  <1>9. \A s \in SUBSET S : C[s] <= 4 => total[s] = W[s]
    BY <1>4, <1>8
  <1>10. total[S] = W[S]
    BY <1>2, <1>9
  <1>11. QED
    BY <1>10 DEF W

PartTaken(p) == Taken(p[3], BLKSIZE * p[2])
PartBits(p) == BLKSIZE * p[2]

LEMMA ConsumedIs ==
  ASSUME NEW p1, NEW p2, NEW p3, NEW p4,
         p1 # p2, p1 # p3, p1 # p4, p2 # p3, p2 # p4, p3 # p4,
         NEW S \in SUBSET {p1, p2, p3, p4}, \A p \in S : PartTaken(p) \in Int
  PROVE  Consumed(S) = In(p1, PartTaken(p1), S) + In(p2, PartTaken(p2), S)
                       + In(p3, PartTaken(p3), S) + In(p4, PartTaken(p4), S)
                       + Taken(TailVector, TailBits)
  <1> DEFINE f == [p \in {p1, p2, p3, p4} |-> In(p, PartTaken(p), S)]
             adds(t) == t = [s \in SUBSET S |-> IF s = {} THEN 0
                               ELSE PartTaken(CHOOSE x \in s : TRUE) + t[s \ {CHOOSE x \in s : TRUE}]]
             total == CHOOSE t : adds(t)
  <1>1. Consumed(S) = total[S] + Taken(TailVector, TailBits)
    BY DEF Consumed, MapThenSumSet, MapThenFoldSet, PartTaken
  <1>2. Summable(p1, p2, p3, p4, f, S)
    BY DEF In, Summable
  <1>3. ASSUME NEW t
        PROVE  adds(t) <=> Totals(t, f, S)
    <2>1. ASSUME NEW s \in SUBSET S, s # {}
          PROVE  PartTaken(CHOOSE x \in s : TRUE) = f[CHOOSE x \in s : TRUE]
      <3>1. PICK z \in s : z = CHOOSE x \in s : TRUE
        BY <2>1
      <3>2. PartTaken(z) = f[z]
        BY DEF In
      <3>3. QED
        BY <3>1, <3>2
    <2> HIDE DEF f
    <2> DEFINE a == [s \in SUBSET S |-> IF s = {} THEN 0
                       ELSE PartTaken(CHOOSE x \in s : TRUE) + t[s \ {CHOOSE x \in s : TRUE}]]
               b == [s \in SUBSET S |-> IF s = {} THEN 0
                       ELSE f[CHOOSE x \in s : TRUE] + t[s \ {CHOOSE x \in s : TRUE}]]
    <2>2. a = b
      BY <2>1
    <2>3. QED
      BY <2>2, Zenon DEF Totals
  <1> HIDE DEF f, adds
  <1>4. \E t : adds(t)
    <2>1. PICK t : Totals(t, f, S)
      BY <1>2, TotalsExist, Zenon
    <2>2. adds(t)
      BY <1>3, <2>1
    <2>3. QED
      BY <2>2, Zenon
  <1>5. adds(total)
    BY <1>4, Zenon
  <1> HIDE DEF total
  <1>6. total[S] = FourSum(p1, p2, p3, p4, f, S)
    BY <1>2, <1>3, <1>5, TotalsSum
  <1>7. FourSum(p1, p2, p3, p4, f, S)
          = In(p1, PartTaken(p1), S) + In(p2, PartTaken(p2), S)
            + In(p3, PartTaken(p3), S) + In(p4, PartTaken(p4), S)
    BY DEF FourSum, In, f
  <1>8. QED
    BY <1>1, <1>6, <1>7

LEMMA ProducedIs ==
  ASSUME NEW p1, NEW p2, NEW p3, NEW p4,
         p1 # p2, p1 # p3, p1 # p4, p2 # p3, p2 # p4, p3 # p4,
         NEW S \in SUBSET {p1, p2, p3, p4}, \A p \in S : PartBits(p) \in Int
  PROVE  Produced(S) = In(p1, PartBits(p1), S) + In(p2, PartBits(p2), S)
                       + In(p3, PartBits(p3), S) + In(p4, PartBits(p4), S)
                       + TailBits
  <1> DEFINE f == [p \in {p1, p2, p3, p4} |-> In(p, PartBits(p), S)]
             adds(t) == t = [s \in SUBSET S |-> IF s = {} THEN 0
                               ELSE PartBits(CHOOSE x \in s : TRUE) + t[s \ {CHOOSE x \in s : TRUE}]]
             total == CHOOSE t : adds(t)
  <1>1. Produced(S) = total[S] + TailBits
    BY DEF Produced, MapThenSumSet, MapThenFoldSet, PartBits
  <1>2. Summable(p1, p2, p3, p4, f, S)
    BY DEF In, Summable
  <1>3. ASSUME NEW t
        PROVE  adds(t) <=> Totals(t, f, S)
    <2>1. ASSUME NEW s \in SUBSET S, s # {}
          PROVE  PartBits(CHOOSE x \in s : TRUE) = f[CHOOSE x \in s : TRUE]
      <3>1. PICK z \in s : z = CHOOSE x \in s : TRUE
        BY <2>1
      <3>2. PartBits(z) = f[z]
        BY DEF In
      <3>3. QED
        BY <3>1, <3>2
    <2> HIDE DEF f
    <2> DEFINE a == [s \in SUBSET S |-> IF s = {} THEN 0
                       ELSE PartBits(CHOOSE x \in s : TRUE) + t[s \ {CHOOSE x \in s : TRUE}]]
               b == [s \in SUBSET S |-> IF s = {} THEN 0
                       ELSE f[CHOOSE x \in s : TRUE] + t[s \ {CHOOSE x \in s : TRUE}]]
    <2>2. a = b
      BY <2>1
    <2>3. QED
      BY <2>2, Zenon DEF Totals
  <1> HIDE DEF f, adds
  <1>4. \E t : adds(t)
    <2>1. PICK t : Totals(t, f, S)
      BY <1>2, TotalsExist, Zenon
    <2>2. adds(t)
      BY <1>3, <2>1
    <2>3. QED
      BY <2>2, Zenon
  <1>5. adds(total)
    BY <1>4, Zenon
  <1> HIDE DEF total
  <1>6. total[S] = FourSum(p1, p2, p3, p4, f, S)
    BY <1>2, <1>3, <1>5, TotalsSum
  <1>7. FourSum(p1, p2, p3, p4, f, S)
          = In(p1, PartBits(p1), S) + In(p2, PartBits(p2), S)
            + In(p3, PartBits(p3), S) + In(p4, PartBits(p4), S)
    BY DEF FourSum, In, f
  <1>8. QED
    BY <1>1, <1>6, <1>7

-----------------------------------------------------------------------------
\* A vector keeps nine positions and its number more of every 32.

LEMMA NextKeptIs ==
  /\ \A i \in 1 .. 24 : NextKept[i] \in 0 .. 31 /\ NextKept[i] % 4 # 0
  /\ \A i \in 1 .. 24, j \in 1 .. 24 : NextKept[i] = NextKept[j] => i = j
  <1>1. \A i \in 1 .. 24 : NextKept[i] \in 0 .. 31 /\ NextKept[i] % 4 # 0
    BY SMTT(30) DEF NextKept
  <1>2. \A i \in 1 .. 24, j \in 1 .. 24 : NextKept[i] = NextKept[j] => i = j
    BY SMTT(30) DEF NextKept
  <1>3. QED
    BY <1>1, <1>2

LEMMA KeptCount ==
  ASSUME NEW v \in 0 .. 23
  PROVE  /\ pvec[v] \subseteq 0 .. 31
         /\ IsFiniteSet(pvec[v]) /\ Cardinality(pvec[v]) = 9 + v
  <1> DEFINE place(i) == IF i <= 8 THEN 4 * (i - 1) ELSE NextKept[i - 8]
             at1 == [i \in 1 .. 9 + v |-> place(i)]
  <1>1. pvec[v] = KeptByAll \cup {NextKept[i] : i \in 1 .. v + 1}
    BY DEF pvec
  <1>2. \A i \in 1 .. 9 + v : i <= 8 \/ i - 8 \in 1 .. 24
    OBVIOUS
  <1>3. \A i \in 1 .. 9 + v : at1[i] \in pvec[v] /\ at1[i] \in 0 .. 31
    <2>1. SUFFICES ASSUME NEW i \in 1 .. 9 + v
                   PROVE  place(i) \in pvec[v] /\ place(i) \in 0 .. 31
      OBVIOUS
    <2>2. CASE i <= 8
      <3>1. i - 1 \in 0 .. 7 /\ place(i) = 4 * (i - 1)
        BY <2>2
      <3>2. QED
        BY <1>1, <3>1 DEF KeptByAll
    <2>3. CASE ~(i <= 8)
      <3>1. i - 8 \in 1 .. v + 1 /\ i - 8 \in 1 .. 24 /\ place(i) = NextKept[i - 8]
        BY <2>3
      <3>2. QED
        BY <1>1, <3>1, NextKeptIs
    <2>4. QED
      BY <2>2, <2>3
  <1>4. ASSUME NEW i \in 1 .. 9 + v, NEW j \in 1 .. 9 + v, place(i) = place(j)
        PROVE  i = j
    <2>1. \A n \in 1 .. 9 + v : n <= 8 => place(n) % 4 = 0
      OBVIOUS
    <2>2. \A n \in 1 .. 9 + v : ~(n <= 8) => place(n) % 4 # 0
      BY <1>2, NextKeptIs
    <2>3. i <= 8 <=> j <= 8
      BY <1>4, <2>1, <2>2
    <2>4. CASE i <= 8
      BY <1>4, <2>3, <2>4
    <2>5. CASE ~(i <= 8)
      BY <1>2, <1>4, <2>3, <2>5, NextKeptIs
    <2>6. QED
      BY <2>4, <2>5
  <1>5. \A x \in pvec[v] : \E i \in 1 .. 9 + v : at1[i] = x
    <2>1. SUFFICES ASSUME NEW x \in pvec[v]
                   PROVE  \E i \in 1 .. 9 + v : place(i) = x
      OBVIOUS
    <2>2. CASE x \in KeptByAll
      <3>1. PICK i \in 0 .. 7 : x = 4 * i
        BY <2>2 DEF KeptByAll
      <3>2. i + 1 \in 1 .. 9 + v /\ place(i + 1) = x
        BY <3>1
      <3>3. QED
        BY <3>2
    <2>3. CASE x \notin KeptByAll
      <3>1. PICK i \in 1 .. v + 1 : x = NextKept[i]
        BY <1>1, <2>3
      <3>2. i + 8 \in 1 .. 9 + v /\ place(i + 8) = x
        BY <3>1
      <3>3. QED
        BY <3>2
    <2>4. QED
      BY <2>2, <2>3
  <1>6. at1 \in Bijection(1 .. 9 + v, pvec[v])
    <2>1. at1 \in [1 .. 9 + v -> pvec[v]]
      BY <1>3
    <2>2. \A i \in 1 .. 9 + v, j \in 1 .. 9 + v : at1[i] = at1[j] => i = j
      BY <1>4
    <2> HIDE DEF at1
    <2>3. QED
      BY <1>5, <2>1, <2>2 DEF Bijection, Injection, Surjection, IsInjective
  <1>7. IsFiniteSet(1 .. 9 + v) /\ Cardinality(1 .. 9 + v) = 9 + v
    BY FS_Interval
  <1>8. IsFiniteSet(pvec[v]) /\ Cardinality(pvec[v]) = 9 + v
    BY <1>6, <1>7, FS_Bijection DEF ExistsBijection
  <1>9. pvec[v] \subseteq 0 .. 31
    BY <1>3, <1>5
  <1>10. QED
    BY <1>8, <1>9

\* A whole number of blocks is punctured by whole vectors.
LEMMA BlocksTaken ==
  ASSUME NEW v \in 0 .. 23, NEW l \in Nat
  PROVE  Taken(v, BLKSIZE * l) = 4 * (l * (9 + v))
  <1>1. BLKSIZE * l = 32 * (4 * l) + 0 /\ 4 * l \in Nat
    BY DEF BLKSIZE
  <1>2. (32 * (4 * l) + 0) \div 32 = 4 * l /\ (32 * (4 * l) + 0) % 32 = 0
    <2>1. 4 * l \in Int /\ 0 \in 0 .. 32 - 1 /\ 32 \in Nat \ {0}
      OBVIOUS
    <2>2. QED
      BY <2>1, DivOf, ModOf
  <1>3. {i \in pvec[v] : i < 0} = {}
    BY KeptCount
  <1>4. Taken(v, BLKSIZE * l) = (4 * l) * Cardinality(pvec[v]) + Cardinality({i \in pvec[v] : i < 0})
    <2>1. PICK n : n = BLKSIZE * l
      OBVIOUS
    <2>2. n \div 32 = 4 * l /\ n % 32 = 0
      BY <1>1, <1>2, <2>1
    <2>3. Taken(v, n) = (4 * l) * Cardinality(pvec[v]) + Cardinality({i \in pvec[v] : i < 0})
      BY <2>2, Zenon DEF Taken
    <2>4. QED
      BY <2>1, <2>3
  <1>5. Cardinality(pvec[v]) = 9 + v /\ Cardinality({i \in pvec[v] : i < 0}) = 0
    BY <1>3, KeptCount, FS_EmptySet
  <1>6. (4 * l) * (9 + v) + 0 = 4 * (l * (9 + v))
    OBVIOUS
  <1>7. QED
    BY <1>4, <1>5, <1>6

\* The tail takes twelve bits.
LEMMA TailTaken == Taken(TailVector, TailBits) = 12
  <1> DEFINE t == << 0, 4, 8, 12, 16, 20, 1, 17, 9, 5, 21, 13 >>
             T == {i \in pvec[7] : i < 24}
  <1>1. pvec[7] = KeptByAll \cup {NextKept[i] : i \in 1 .. 8}
    BY DEF pvec
  <1>2. \A i \in 1 .. 12 : t[i] \in T
    BY <1>1 DEF KeptByAll, NextKept
  <1>3. \A x \in T : \E i \in 1 .. 12 : t[i] = x
    BY <1>1 DEF KeptByAll, NextKept
  <1>4. \A i \in 1 .. 12, j \in 1 .. 12 : t[i] = t[j] => i = j
    OBVIOUS
  <1>5. DOMAIN t = 1 .. 12 /\ t = [i \in 1 .. 12 |-> t[i]]
    OBVIOUS
  <1> HIDE DEF t, T
  <1>6. t \in Bijection(1 .. 12, T)
    <2>1. t \in [1 .. 12 -> T]
      BY <1>2, <1>5
    <2>2. QED
      BY <1>3, <1>4, <2>1, <1>5 DEF Bijection, Injection, Surjection, IsInjective
  <1>7. IsFiniteSet(1 .. 12) /\ Cardinality(1 .. 12) = 12
    <2>1. 1 \in Int /\ 12 \in Int /\ ~(1 > 12) /\ 12 - 1 + 1 = 12
      OBVIOUS
    <2>2. QED
      BY <2>1, FS_Interval
  <1>8. Cardinality(T) = 12
    BY <1>6, <1>7, FS_Bijection DEF ExistsBijection
  <1>9. Taken(7, 24) = (24 \div 32) * Cardinality(pvec[7]) + Cardinality({i \in pvec[7] : i < 24 % 32})
    BY DEF Taken
  <1>10. 24 \div 32 = 0 /\ 24 % 32 = 24 /\ Cardinality(pvec[7]) \in Nat
    BY KeptCount
  <1>11. QED
    BY <1>8, <1>9, <1>10 DEF TailVector, TailBits, T

-----------------------------------------------------------------------------
\* The logical frame of a subchannel with at most four parts: l[i] blocks by vector pi[i].

PartOf(l, pi, i) == <<i, l[i], pi[i]>>
PartsOf(l, pi, I) == {PartOf(l, pi, i) : i \in I}
TakenBy(l, pi, I) == In(1, 4 * (l[1] * (9 + pi[1])), I) + In(2, 4 * (l[2] * (9 + pi[2])), I)
                     + In(3, 4 * (l[3] * (9 + pi[3])), I) + In(4, 4 * (l[4] * (9 + pi[4])), I) + 12
GivenBy(l, I) == In(1, 128 * l[1], I) + In(2, 128 * l[2], I)
                 + In(3, 128 * l[3], I) + In(4, 128 * l[4], I) + 24

LEMMA PartsAdd ==
  ASSUME NEW l, NEW pi,
         NEW I \in SUBSET (1 .. 4), \A i \in I : l[i] \in Nat /\ pi[i] \in 0 .. 23
  PROVE  /\ Consumed(PartsOf(l, pi, I)) = TakenBy(l, pi, I)
         /\ Produced(PartsOf(l, pi, I)) = GivenBy(l, I)
  <1> DEFINE q(i) == PartOf(l, pi, i)
  <1>0. PICK S : S = PartsOf(l, pi, I)
    OBVIOUS
  <1>1. /\ q(1) # q(2) /\ q(1) # q(3) /\ q(1) # q(4)
        /\ q(2) # q(3) /\ q(2) # q(4) /\ q(3) # q(4)
    BY DEF PartOf
  <1>2. S \in SUBSET {q(1), q(2), q(3), q(4)}
    BY <1>0 DEF PartsOf
  <1>3. ASSUME NEW i \in 1 .. 4
        PROVE  q(i) \in S <=> i \in I
    BY <1>0 DEF PartOf, PartsOf
  <1>4. ASSUME NEW i \in I
        PROVE  /\ PartTaken(q(i)) = 4 * (l[i] * (9 + pi[i])) /\ PartTaken(q(i)) \in Int
               /\ PartBits(q(i)) = 128 * l[i] /\ PartBits(q(i)) \in Int
    <2>1. q(i)[2] = l[i] /\ q(i)[3] = pi[i]
      BY DEF PartOf
    <2>2. l[i] \in Nat /\ pi[i] \in 0 .. 23
      OBVIOUS
    <2>3. PartTaken(q(i)) = 4 * (l[i] * (9 + pi[i]))
      BY <2>1, <2>2, BlocksTaken DEF PartTaken
    <2>4. 4 * (l[i] * (9 + pi[i])) \in Int
      BY <2>2
    <2>5. QED
      BY <2>1, <2>2, <2>3, <2>4 DEF PartBits, BLKSIZE
  <1>5. \A p \in S : PartTaken(p) \in Int /\ PartBits(p) \in Int
    BY <1>0, <1>4 DEF PartsOf
  <1>6. ASSUME NEW i \in 1 .. 4
        PROVE  /\ In(q(i), PartTaken(q(i)), S) = In(i, 4 * (l[i] * (9 + pi[i])), I)
               /\ In(q(i), PartBits(q(i)), S) = In(i, 128 * l[i], I)
    BY <1>3, <1>4, Zenon DEF In
  <1>7. PICK q1, q2, q3, q4 : q1 = q(1) /\ q2 = q(2) /\ q3 = q(3) /\ q4 = q(4)
    OBVIOUS
  <1>8. /\ q1 # q2 /\ q1 # q3 /\ q1 # q4 /\ q2 # q3 /\ q2 # q4 /\ q3 # q4
        /\ S \in SUBSET {q1, q2, q3, q4}
    BY <1>1, <1>2, <1>7
  <1>9. Consumed(S) = In(q1, PartTaken(q1), S) + In(q2, PartTaken(q2), S)
                      + In(q3, PartTaken(q3), S) + In(q4, PartTaken(q4), S)
                      + Taken(TailVector, TailBits)
    BY <1>5, <1>8, ConsumedIs
  <1>10. Produced(S) = In(q1, PartBits(q1), S) + In(q2, PartBits(q2), S)
                       + In(q3, PartBits(q3), S) + In(q4, PartBits(q4), S) + TailBits
    BY <1>5, <1>8, ProducedIs
  <1>11. /\ 1 \in 1 .. 4 /\ 2 \in 1 .. 4 /\ 3 \in 1 .. 4 /\ 4 \in 1 .. 4
    OBVIOUS
  <1>12. /\ In(q1, PartTaken(q1), S) = In(1, 4 * (l[1] * (9 + pi[1])), I)
         /\ In(q2, PartTaken(q2), S) = In(2, 4 * (l[2] * (9 + pi[2])), I)
         /\ In(q3, PartTaken(q3), S) = In(3, 4 * (l[3] * (9 + pi[3])), I)
         /\ In(q4, PartTaken(q4), S) = In(4, 4 * (l[4] * (9 + pi[4])), I)
         /\ In(q1, PartBits(q1), S) = In(1, 128 * l[1], I)
         /\ In(q2, PartBits(q2), S) = In(2, 128 * l[2], I)
         /\ In(q3, PartBits(q3), S) = In(3, 128 * l[3], I)
         /\ In(q4, PartBits(q4), S) = In(4, 128 * l[4], I)
    BY <1>6, <1>7, <1>11, Zenon
  <1>13. QED
    BY <1>0, <1>9, <1>10, <1>12, TailTaken, Zenon DEF TailBits, TakenBy, GivenBy

\* The FIC, and a subchannel whose parts add up as they should.
LEMMA FicFilled == Consumed(FicParts) = 2304 /\ Produced(FicParts) = 3096
  <1> DEFINE l == <<21, 3>>
             pi == <<15, 14>>
             I == {1, 2}
  <1>1. FicParts = PartsOf(l, pi, I)
    BY DEF FicParts, PartOf, PartsOf
  <1>2. I \in SUBSET (1 .. 4) /\ \A i \in I : l[i] \in Nat /\ pi[i] \in 0 .. 23
    OBVIOUS
  <1>3. /\ Consumed(FicParts) = TakenBy(l, pi, I)
        /\ Produced(FicParts) = GivenBy(l, I)
    <2> HIDE DEF l, pi, I
    <2>1. QED
      BY <1>1, <1>2, PartsAdd
  <1>4. QED
    BY <1>3 DEF In, TakenBy, GivenBy

\* FrameFilled of a subchannel.
Filled(s) ==
    /\ \/ Consumed(Parts(s)) + PadBits(s) = LogicalFrameBits(s)
       \/ IsEep2a8(s) /\ Consumed(Parts(s)) = 336
    /\ DecodedBits(s) = 24 * s.bitrate
    /\ s.bitrate \in Nat /\ s.bitrate % 8 = 0

-----------------------------------------------------------------------------
\* Unequal error protection: every row of ueptable.

RowAdds(l, pi, padbits, size) ==
    4 * (l[1] * (9 + pi[1]) + l[2] * (9 + pi[2]) + l[3] * (9 + pi[3]) + l[4] * (9 + pi[4]))
      + 12 + padbits = 64 * size

RowTrue(r) ==
    /\ r[1] \in Nat /\ r[1] % 8 = 0 /\ r[2] \in Nat /\ r[6] \in Nat
    /\ \A i \in 1 .. 4 : r[4][i] \in Nat
    /\ \A i \in 1 .. 4 : r[5][i] \in Int
    /\ \A i \in 1 .. 4 : r[4][i] > 0 => r[5][i] \in 0 .. 23
    /\ 32 * (r[4][1] + r[4][2] + r[4][3] + r[4][4]) = 24 * r[1]
    /\ RowAdds(r[4], r[5], r[6], r[2])

LEMMA UepRowsAdd == \A k \in 1 .. 64 : RowTrue(UepRows[k])
  <1>1. ASSUME NEW r,
               \/ r = UepRows[1] \/ r = UepRows[2] \/ r = UepRows[3] \/ r = UepRows[4]
        PROVE  RowTrue(r)
    BY <1>1, SMTT(30) DEF UepRows, RowTrue, RowAdds
  <1>2. ASSUME NEW r,
               \/ r = UepRows[5] \/ r = UepRows[6] \/ r = UepRows[7] \/ r = UepRows[8]
        PROVE  RowTrue(r)
    BY <1>2, SMTT(30) DEF UepRows, RowTrue, RowAdds
  <1>3. ASSUME NEW r,
               \/ r = UepRows[9] \/ r = UepRows[10] \/ r = UepRows[11] \/ r = UepRows[12]
        PROVE  RowTrue(r)
    BY <1>3, SMTT(30) DEF UepRows, RowTrue, RowAdds
  <1>4. ASSUME NEW r,
               \/ r = UepRows[13] \/ r = UepRows[14] \/ r = UepRows[15] \/ r = UepRows[16]
        PROVE  RowTrue(r)
    BY <1>4, SMTT(30) DEF UepRows, RowTrue, RowAdds
  <1>5. ASSUME NEW r,
               \/ r = UepRows[17] \/ r = UepRows[18] \/ r = UepRows[19] \/ r = UepRows[20]
        PROVE  RowTrue(r)
    BY <1>5, SMTT(30) DEF UepRows, RowTrue, RowAdds
  <1>6. ASSUME NEW r,
               \/ r = UepRows[21] \/ r = UepRows[22] \/ r = UepRows[23] \/ r = UepRows[24]
        PROVE  RowTrue(r)
    BY <1>6, SMTT(30) DEF UepRows, RowTrue, RowAdds
  <1>7. ASSUME NEW r,
               \/ r = UepRows[25] \/ r = UepRows[26] \/ r = UepRows[27] \/ r = UepRows[28]
        PROVE  RowTrue(r)
    BY <1>7, SMTT(30) DEF UepRows, RowTrue, RowAdds
  <1>8. ASSUME NEW r,
               \/ r = UepRows[29] \/ r = UepRows[30] \/ r = UepRows[31] \/ r = UepRows[32]
        PROVE  RowTrue(r)
    BY <1>8, SMTT(30) DEF UepRows, RowTrue, RowAdds
  <1>9. ASSUME NEW r,
               \/ r = UepRows[33] \/ r = UepRows[34] \/ r = UepRows[35] \/ r = UepRows[36]
        PROVE  RowTrue(r)
    BY <1>9, SMTT(30) DEF UepRows, RowTrue, RowAdds
  <1>10. ASSUME NEW r,
               \/ r = UepRows[37] \/ r = UepRows[38] \/ r = UepRows[39] \/ r = UepRows[40]
        PROVE  RowTrue(r)
    BY <1>10, SMTT(30) DEF UepRows, RowTrue, RowAdds
  <1>11. ASSUME NEW r,
               \/ r = UepRows[41] \/ r = UepRows[42] \/ r = UepRows[43] \/ r = UepRows[44]
        PROVE  RowTrue(r)
    BY <1>11, SMTT(30) DEF UepRows, RowTrue, RowAdds
  <1>12. ASSUME NEW r,
               \/ r = UepRows[45] \/ r = UepRows[46] \/ r = UepRows[47] \/ r = UepRows[48]
        PROVE  RowTrue(r)
    BY <1>12, SMTT(30) DEF UepRows, RowTrue, RowAdds
  <1>13. ASSUME NEW r,
               \/ r = UepRows[49] \/ r = UepRows[50] \/ r = UepRows[51] \/ r = UepRows[52]
        PROVE  RowTrue(r)
    BY <1>13, SMTT(30) DEF UepRows, RowTrue, RowAdds
  <1>14. ASSUME NEW r,
               \/ r = UepRows[53] \/ r = UepRows[54] \/ r = UepRows[55] \/ r = UepRows[56]
        PROVE  RowTrue(r)
    BY <1>14, SMTT(30) DEF UepRows, RowTrue, RowAdds
  <1>15. ASSUME NEW r,
               \/ r = UepRows[57] \/ r = UepRows[58] \/ r = UepRows[59] \/ r = UepRows[60]
        PROVE  RowTrue(r)
    BY <1>15, SMTT(30) DEF UepRows, RowTrue, RowAdds
  <1>16. ASSUME NEW r,
               \/ r = UepRows[61] \/ r = UepRows[62] \/ r = UepRows[63] \/ r = UepRows[64]
        PROVE  RowTrue(r)
    BY <1>16, SMTT(30) DEF UepRows, RowTrue, RowAdds
  <1>17. SUFFICES ASSUME NEW k \in 1 .. 64
                  PROVE  RowTrue(UepRows[k])
    OBVIOUS
  <1>18. CASE k \in 1 .. 4
    BY <1>1, <1>18
  <1>19. CASE k \in 5 .. 8
    BY <1>2, <1>19
  <1>20. CASE k \in 9 .. 12
    BY <1>3, <1>20
  <1>21. CASE k \in 13 .. 16
    BY <1>4, <1>21
  <1>22. CASE k \in 17 .. 20
    BY <1>5, <1>22
  <1>23. CASE k \in 21 .. 24
    BY <1>6, <1>23
  <1>24. CASE k \in 25 .. 28
    BY <1>7, <1>24
  <1>25. CASE k \in 29 .. 32
    BY <1>8, <1>25
  <1>26. CASE k \in 33 .. 36
    BY <1>9, <1>26
  <1>27. CASE k \in 37 .. 40
    BY <1>10, <1>27
  <1>28. CASE k \in 41 .. 44
    BY <1>11, <1>28
  <1>29. CASE k \in 45 .. 48
    BY <1>12, <1>29
  <1>30. CASE k \in 49 .. 52
    BY <1>13, <1>30
  <1>31. CASE k \in 53 .. 56
    BY <1>14, <1>31
  <1>32. CASE k \in 57 .. 60
    BY <1>15, <1>32
  <1>33. CASE k \in 61 .. 64
    BY <1>16, <1>33
  <1>34. QED
    BY <1>18, <1>19, <1>20, <1>21, <1>22, <1>23, <1>24, <1>25,
       <1>26, <1>27, <1>28, <1>29, <1>30, <1>31, <1>32, <1>33

LEMMA UepFilled ==
  ASSUME NEW i \in 0 .. 63
  PROVE  Filled(UepSubchannel(i))
  <1>1. PICK r : r = UepRows[i + 1]
    OBVIOUS
  <1>2. Len(UepRows) = 64
    BY DEF UepRows
  <1>3. ueptable[i] = [bitrate |-> r[1], subchsz |-> r[2], protlvl |-> r[3],
                       l |-> r[4], pi |-> r[5], padbits |-> r[6]]
    <2>1. i \in 0 .. Len(UepRows) - 1
      BY <1>2
    <2>2. QED
      BY <1>1, <2>1 DEF ueptable
  <1>4. PICK s : s = UepSubchannel(i)
    OBVIOUS
  <1>5. /\ s.eepprot = FALSE /\ s.uep_indx = i /\ s.subchsz = r[2] /\ s.bitrate = r[1]
    BY <1>3, <1>4 DEF UepSubchannel
  <1> DEFINE l == r[4]
             pi == r[5]
             I == {j \in 1 .. 4 : l[j] > 0}
  <1>6. /\ r[1] \in Nat /\ r[1] % 8 = 0 /\ r[2] \in Nat /\ r[6] \in Nat
        /\ \A j \in 1 .. 4 : l[j] \in Nat /\ pi[j] \in Int
        /\ \A j \in 1 .. 4 : l[j] > 0 => pi[j] \in 0 .. 23
        /\ 32 * (l[1] + l[2] + l[3] + l[4]) = 24 * r[1]
        /\ RowAdds(l, pi, r[6], r[2])
    <2>1. i + 1 \in 1 .. 64
      OBVIOUS
    <2>2. QED
      BY <1>1, <2>1, UepRowsAdd DEF RowTrue
  <1>7. Parts(s) = PartsOf(l, pi, I)
    BY <1>3, <1>5 DEF Parts, UepParts, PartOf, PartsOf
  <1>8. I \in SUBSET (1 .. 4) /\ \A j \in I : l[j] \in Nat /\ pi[j] \in 0 .. 23
    BY <1>6
  <1>9. \A j \in 1 .. 4 : /\ In(j, 4 * (l[j] * (9 + pi[j])), I) = 4 * (l[j] * (9 + pi[j]))
                          /\ In(j, 128 * l[j], I) = 128 * l[j]
                          /\ 4 * (l[j] * (9 + pi[j])) \in Int /\ l[j] \in Int
    <2>1. SUFFICES ASSUME NEW j \in 1 .. 4
                   PROVE  /\ In(j, 4 * (l[j] * (9 + pi[j])), I) = 4 * (l[j] * (9 + pi[j]))
                          /\ In(j, 128 * l[j], I) = 128 * l[j]
                          /\ 4 * (l[j] * (9 + pi[j])) \in Int /\ l[j] \in Int
      OBVIOUS
    <2>2. l[j] \in Nat /\ pi[j] \in Int
      BY <1>6
    <2>3. CASE j \in I
      BY <2>2, <2>3 DEF In, TakenBy, GivenBy
    <2>4. CASE j \notin I
      <3>1. l[j] = 0
        BY <2>2, <2>4
      <3>2. l[j] * (9 + pi[j]) = 0
        BY <2>2, <3>1
      <3>3. QED
        BY <2>4, <3>1, <3>2 DEF In, TakenBy, GivenBy
    <2>5. QED
      BY <2>3, <2>4
  <1> HIDE DEF l, pi, I
  <1>10. PICK P : P = Parts(s)
    OBVIOUS
  <1>11. /\ Consumed(P) = TakenBy(l, pi, I)
         /\ Produced(P) = GivenBy(l, I)
    <2>1. P = PartsOf(l, pi, I)
      BY <1>7, <1>10
    <2>2. QED
      BY <1>8, <2>1, PartsAdd
  <1>12. Consumed(P) + r[6] = 64 * r[2] /\ Produced(P) = 4 * (24 * r[1]) + 24
    <2>1. PICK a1, a2, a3, a4 : /\ a1 = l[1] * (9 + pi[1]) /\ a2 = l[2] * (9 + pi[2])
                                /\ a3 = l[3] * (9 + pi[3]) /\ a4 = l[4] * (9 + pi[4])
      OBVIOUS
    <2>2. a1 \in Int /\ a2 \in Int /\ a3 \in Int /\ a4 \in Int
      <3>1. /\ l[1] \in Int /\ l[2] \in Int /\ l[3] \in Int /\ l[4] \in Int
            /\ pi[1] \in Int /\ pi[2] \in Int /\ pi[3] \in Int /\ pi[4] \in Int
        BY <1>6
      <3>2. QED
        BY <2>1, <3>1
    <2>3. Consumed(P) = 4 * a1 + 4 * a2 + 4 * a3 + 4 * a4 + 12
      BY <1>9, <1>11, <2>1 DEF TakenBy
    <2>4. 4 * (a1 + a2 + a3 + a4) + 12 + r[6] = 64 * r[2]
      BY <1>6, <2>1 DEF RowAdds
    <2>5. Consumed(P) + r[6] = 64 * r[2]
      BY <1>6, <2>2, <2>3, <2>4
    <2>6. Produced(P) = 4 * (24 * r[1]) + 24
      BY <1>6, <1>9, <1>11 DEF GivenBy
    <2>7. QED
      BY <2>5, <2>6
  <1>13. PadBits(s) = r[6] /\ LogicalFrameBits(s) = 64 * r[2]
    <2>1. ueptable[s.uep_indx].padbits = r[6]
      BY <1>3, <1>5
    <2>2. PadBits(s) = r[6]
      BY <1>5, <2>1 DEF PadBits
    <2>3. LogicalFrameBits(s) = r[2] * 64
      BY <1>5, Zenon DEF LogicalFrameBits, BITSPERCU
    <2>4. r[2] * 64 = 64 * r[2]
      BY <1>6
    <2>5. QED
      BY <2>2, <2>3, <2>4
  <1>14. DecodedBits(s) = 24 * r[1]
    BY <1>6, <1>10, <1>12 DEF DecodedBits
  <1>15. QED
    BY <1>4, <1>5, <1>6, <1>10, <1>12, <1>13, <1>14 DEF Filled

-----------------------------------------------------------------------------
\* Equal error protection: every level and any size.

LEMMA EepFactors ==
  ASSUME NEW level \in 0 .. 7, NEW r, r = eeptable[level + 1]
  PROVE  r.sizemul \in Nat \ {0} /\ r.ratemul \in {8, 32}
  BY DEF eeptable, EepRow

\* Level 2-A with n = 1 has a profile of its own.
RowFills(r, n) ==
    LET l1 == r.l[1].mul * n + r.l[1].offset
        l2 == r.l[2].mul * n + r.l[2].offset
    IN  /\ l1 \in Nat /\ l2 \in Nat
        /\ r.pi[1] \in 0 .. 23 /\ r.pi[2] \in 0 .. 23
        /\ 4 * (l1 * (9 + r.pi[1])) + 4 * (l2 * (9 + r.pi[2])) + 12 = 64 * (n * r.sizemul)
        /\ 32 * (l1 + l2) = 24 * (n * r.ratemul)

LEMMA EepRowsAdd ==
  ASSUME NEW level \in 0 .. 7, NEW n \in Nat \ {0}, ~(level = 1 /\ n = 1),
         NEW r, r = eeptable[level + 1]
  PROVE  RowFills(r, n)
  <1> USE DEF eeptable, EepRow, Lin, RowFills
  <1>1. CASE level = 0
    BY <1>1
  <1>2. CASE level = 1
    <2>1. n >= 2
      BY <1>2
    <2>2. QED
      BY <1>2, <2>1
  <1>3. CASE level = 2
    BY <1>3
  <1>4. CASE level = 3
    BY <1>4
  <1>5. CASE level = 4
    BY <1>5
  <1>6. CASE level = 5
    BY <1>6
  <1>7. CASE level = 6
    BY <1>7
  <1>8. CASE level = 7
    BY <1>8
  <1> HIDE DEF eeptable, EepRow, Lin, RowFills
  <1>9. \/ level = 0 \/ level = 1 \/ level = 2 \/ level = 3
        \/ level = 4 \/ level = 5 \/ level = 6 \/ level = 7
    OBVIOUS
  <1>10. QED
    BY <1>1, <1>2, <1>3, <1>4, <1>5, <1>6, <1>7, <1>8, <1>9, Zenon

LEMMA EepFilled ==
  ASSUME NEW level \in 0 .. 7, NEW n \in Nat \ {0}
  PROVE  Filled(EepSubchannel(level, n))
  <1>1. PICK s : s = EepSubchannel(level, n)
    OBVIOUS
  <1>2. PICK r : r = eeptable[level + 1]
    OBVIOUS
  <1>3. /\ s.eepprot = TRUE /\ s.protlvl = level
        /\ s.subchsz = n * r.sizemul /\ s.bitrate = n * r.ratemul
    BY <1>1, <1>2 DEF EepSubchannel
  <1>4. r.sizemul \in Nat \ {0} /\ r.ratemul \in {8, 32}
    BY <1>2, EepFactors
  <1>5. s.bitrate \in Nat /\ s.bitrate % 8 = 0
    <2>1. CASE r.ratemul = 8
      BY <1>3, <2>1
    <2>2. CASE r.ratemul = 32
      <3>1. s.bitrate = 8 * (4 * n) + 0
        BY <1>3, <2>2
      <3>2. QED
        BY <3>1
    <2>3. QED
      BY <1>4, <2>1, <2>2
  <1>6. PadBits(s) = 0
    BY <1>3, Zenon DEF PadBits
  <1>7. LogicalFrameBits(s) = 64 * (n * r.sizemul)
    <2>1. LogicalFrameBits(s) = (n * r.sizemul) * 64
      BY <1>3, Zenon DEF LogicalFrameBits, BITSPERCU
    <2>2. n * r.sizemul \in Nat
      BY <1>4
    <2>3. QED
      BY <2>1, <2>2
  <1>8. CASE level = 1 /\ n = 1
    <2>1. r.sizemul = 8 /\ r.ratemul = 8
      BY <1>2, <1>8 DEF eeptable, EepRow
    <2>2. IsEep2a8(s) /\ s.bitrate = 8 /\ s.subchsz = 8
      BY <1>3, <1>8, <2>1 DEF IsEep2a8
    <2>0. PICK l, pi, I : l = <<5, 1>> /\ pi = <<3, 12>> /\ I = {1, 2}
      OBVIOUS
    <2>3. Parts(s) = PartsOf(l, pi, I)
      <3>1. Parts(s) = {<<i, Blocks(eep2a8kbps.l[i].mul * 1 + eep2a8kbps.l[i].offset),
                          eep2a8kbps.pi[i]>> : i \in 1 .. 2}
        <4>1. 8 \div eep2a8kbps.sizemul = 1
          BY DEF eep2a8kbps, EepRow
        <4>2. QED
          BY <1>3, <2>2, <4>1 DEF Parts, EepParts
      <3>2. \A i \in 1 .. 2 : /\ Blocks(eep2a8kbps.l[i].mul * 1 + eep2a8kbps.l[i].offset) = l[i]
                              /\ eep2a8kbps.pi[i] = pi[i]
        BY <2>0 DEF Blocks, eep2a8kbps, EepRow, Lin
      <3>3. I = 1 .. 2
        BY <2>0
      <3>4. QED
        BY <3>1, <3>2, <3>3 DEF PartOf, PartsOf
    <2>4. PICK P : P = Parts(s)
      OBVIOUS
    <2>5. I \in SUBSET (1 .. 4) /\ \A i \in I : l[i] \in Nat /\ pi[i] \in 0 .. 23
      BY <2>0
    <2>6. /\ Consumed(P) = TakenBy(l, pi, I)
          /\ Produced(P) = GivenBy(l, I)
      <3>1. P = PartsOf(l, pi, I)
        BY <2>3, <2>4
      <3>2. QED
        BY <2>5, <3>1, PartsAdd
    <2>7. Consumed(P) = 336 /\ Produced(P) = 792
      BY <2>0, <2>6 DEF In, TakenBy, GivenBy
    <2>8. DecodedBits(s) = 24 * s.bitrate
      BY <2>2, <2>4, <2>7 DEF DecodedBits
    <2>9. QED
      BY <1>1, <1>5, <2>2, <2>4, <2>7, <2>8 DEF Filled
  <1>9. CASE ~(level = 1 /\ n = 1)
    <2>1. PICK L1, L2 : /\ L1 = r.l[1].mul * n + r.l[1].offset
                        /\ L2 = r.l[2].mul * n + r.l[2].offset
      OBVIOUS
    <2>2. /\ L1 \in Nat /\ L2 \in Nat
          /\ r.pi[1] \in 0 .. 23 /\ r.pi[2] \in 0 .. 23
          /\ 4 * (L1 * (9 + r.pi[1])) + 4 * (L2 * (9 + r.pi[2])) + 12 = 64 * (n * r.sizemul)
          /\ 32 * (L1 + L2) = 24 * (n * r.ratemul)
      <3>1. RowFills(r, n)
        BY <1>2, <1>9, EepRowsAdd
      <3>2. QED
        BY <2>1, <3>1 DEF RowFills
    <2>3. ~IsEep2a8(s)
      <3>1. ASSUME level = 1
            PROVE  s.bitrate # 8
        <4>1. r.ratemul = 8
          BY <1>2, <3>1 DEF eeptable, EepRow
        <4>2. QED
          BY <1>3, <1>9, <3>1, <4>1
      <3>2. QED
        BY <1>3, <3>1 DEF IsEep2a8
    <2>0. PICK l, pi, I : l = <<L1, L2>> /\ pi = <<r.pi[1], r.pi[2]>> /\ I = {1, 2}
      OBVIOUS
    <2>4. s.subchsz \div r.sizemul = n
      <3>1. n * r.sizemul = r.sizemul * n + 0 /\ 0 \in 0 .. r.sizemul - 1 /\ n \in Int
        BY <1>4
      <3>2. (r.sizemul * n + 0) \div r.sizemul = n
        BY <1>4, <3>1, DivOf
      <3>3. QED
        BY <1>3, <3>1, <3>2
    <2>5. Parts(s) = PartsOf(l, pi, I)
      <3>1. Parts(s) = {<<i, Blocks(r.l[i].mul * n + r.l[i].offset), r.pi[i]>> : i \in 1 .. 2}
        BY <1>2, <1>3, <2>3, <2>4, Zenon DEF Parts, EepParts
      <3>2. \A i \in 1 .. 2 : Blocks(r.l[i].mul * n + r.l[i].offset) = l[i] /\ r.pi[i] = pi[i]
        <4>1. Blocks(L1) = L1 /\ Blocks(L2) = L2
          BY <2>2 DEF Blocks
        <4>2. QED
          BY <2>0, <2>1, <4>1
      <3>3. I = 1 .. 2
        BY <2>0
      <3>4. QED
        BY <3>1, <3>2, <3>3 DEF PartOf, PartsOf
    <2>6. PICK P : P = Parts(s)
      OBVIOUS
    <2>7. I \in SUBSET (1 .. 4) /\ \A i \in I : l[i] \in Nat /\ pi[i] \in 0 .. 23
      BY <2>0, <2>2
    <2>8. /\ Consumed(P) = TakenBy(l, pi, I)
          /\ Produced(P) = GivenBy(l, I)
      <3>1. P = PartsOf(l, pi, I)
        BY <2>5, <2>6
      <3>2. QED
        BY <2>7, <3>1, PartsAdd
    <2>9. /\ Consumed(P) = 4 * (L1 * (9 + r.pi[1])) + 4 * (L2 * (9 + r.pi[2])) + 0 + 0 + 12
          /\ Produced(P) = 128 * L1 + 128 * L2 + 0 + 0 + 24
      BY <2>0, <2>8 DEF In, TakenBy, GivenBy
    <2>10. PICK a1, a2 : a1 = L1 * (9 + r.pi[1]) /\ a2 = L2 * (9 + r.pi[2])
      OBVIOUS
    <2>11. a1 \in Int /\ a2 \in Int
      BY <2>2, <2>10
    <2>12. Consumed(P) = 64 * (n * r.sizemul)
      BY <2>2, <2>9, <2>10, <2>11
    <2>13. Consumed(P) + PadBits(s) = LogicalFrameBits(s)
      BY <1>4, <1>6, <1>7, <2>12
    <2>14. DecodedBits(s) = 24 * s.bitrate
      <3>1. Produced(P) = 4 * (24 * s.bitrate) + 24
        BY <1>3, <1>5, <2>2, <2>9
      <3>2. QED
        BY <1>5, <2>6, <3>1 DEF DecodedBits
    <2>15. QED
      BY <1>1, <1>5, <2>6, <2>13, <2>14 DEF Filled
  <1>10. QED
    BY <1>8, <1>9

\* The subchannels of the two tables: every row of ueptable, and at every level of equal
\* protection any multiple of the smallest size.
Subchannels == {UepSubchannel(i) : i \in DOMAIN ueptable}
               \cup {EepSubchannel(level, n) : level \in 0 .. 7, n \in Nat \ {0}}

LEMMA AllFilled == \A s \in Subchannels : Filled(s)
  <1>1. DOMAIN ueptable = 0 .. 63
    <2>1. Len(UepRows) = 64
      BY DEF UepRows
    <2>2. QED
      BY <2>1 DEF ueptable
  <1>2. QED
    BY <1>1, UepFilled, EepFilled DEF Subchannels

\* FrameFilled: the depuncturing of every subchannel reads exactly its logical frame, but
\* for the padding and for EEP 2-A at 8 kbit/s, and 24 ms of its bit rate are decoded
\* (uep_depuncture, eep_depuncture, wftables.c), whatever the size of the subchannel.
THEOREM FramesFilled ==
  ASSUME \A s \in Services : s.sub \in Subchannels
  PROVE  ASpec => []FrameFilled
  <1> DEFINE Listed == svc \in Services
  <1>1. Listed => FrameFilled
    <2>1. SUFFICES ASSUME Listed
                   PROVE  FrameFilled
      OBVIOUS
    <2>2. Filled(svc.sub)
      BY <2>1, AllFilled
    <2>3. 5 * (DecodedBits(svc.sub) \div 8) = 120 * (svc.sub.bitrate \div 8)
      <3>1. PICK b \in Nat : b = svc.sub.bitrate
        BY <2>2 DEF Filled
      <3>2. b % 8 = 0 /\ DecodedBits(svc.sub) = 24 * b
        BY <2>2, <3>1 DEF Filled
      <3>3. 5 * ((24 * b) \div 8) = 120 * (b \div 8)
        BY <3>2
      <3>4. QED
        BY <3>1, <3>2, <3>3
    <2>4. /\ \/ Consumed(Parts(svc.sub)) + PadBits(svc.sub) = LogicalFrameBits(svc.sub)
             \/ IsEep2a8(svc.sub) /\ Consumed(Parts(svc.sub)) = 336
          /\ DecodedBits(svc.sub) = 24 * svc.sub.bitrate
      BY <2>2, Zenon DEF Filled
    <2>5. PICK s : s = svc.sub
      OBVIOUS
    <2>6. FrameFilled <=>
            (at = <<1, 0>> =>
              /\ \/ Consumed(Parts(s)) + PadBits(s) = LogicalFrameBits(s)
                 \/ IsEep2a8(s) /\ Consumed(Parts(s)) = 336
              /\ DecodedBits(s) = 24 * s.bitrate
              /\ (svc.kind = "dabplus" => 5 * (DecodedBits(s) \div 8) = 120 * (s.bitrate \div 8))
              /\ Consumed(FicParts) = 2304 /\ Produced(FicParts) = 3096)
      BY <2>5 DEF FrameFilled
    <2>7. QED
      BY <2>3, <2>4, <2>5, <2>6, FicFilled
  <1>2. AInit => Listed
    BY DEF AInit
  <1>3. Listed /\ [ANext]_avars => Listed'
    BY DEF ANext, LoseFrame, msc_decode, wfmp2, wfdabplusdec, avars, decoder
  <1> HIDE DEF Listed
  <1>4. QED
    BY <1>1, <1>2, <1>3, PTL DEF ASpec

=============================================================================
