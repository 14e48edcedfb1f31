------------------------------ MODULE AudioFrames ------------------------------
(***************************************************************************)
(* From the logical frames of the selected subchannel to the audio on      *)
(* stdout: msc_decode after the deinterleaving, then wfmp2 for MPEG layer  *)
(* II and wfdabplusdec for DAB+.  A logical frame is its place in what the *)
(* station sends, <<unit, index>>, and how it arrives: "good", "slight"    *)
(* (within the reach of the Reed-Solomon code of DAB+), "bad", or not at   *)
(* all, when the symbols of its CIFs are lost.  A unit is what makes sense *)
(* on its own: a frame with a header and, at 24 kHz, its second half, or   *)
(* the five logical frames of a DAB+ superframe.                           *)
(***************************************************************************)
EXTENDS Integers, Sequences, FiniteSets, Puncturing

CONSTANTS Services,    \* [sub, kind, aus]: a subchannel, how it is coded, AUs in a superframe
          MaxUnits,    \* units sent
          MaxFaults    \* frames that are damaged or lost

VARIABLES svc,              \* the service that is decoded
          frame,            \* static frame of wfdabplusdec: frames of the superframe held
          sfbuf,            \* those frames
          header_valid, header_expected,     \* statics of wfmp2
          out,              \* what was written since the current unit began
          last,             \* what was written last
          at,               \* the place of the next frame
          faults, lostrun,  \* frames damaged or lost; frames lost just before this one
          clean, intact     \* the current unit is undamaged so far; whole units in a row before it

decoder == <<svc, frame, sfbuf, header_valid, header_expected>>
history == <<at, faults, lostrun, clean, intact>>
avars == <<decoder, out, last, history>>

-----------------------------------------------------------------------------
Kinds == {"dabplus", "mp2", "mp2low"}        \* low: 24 kHz, two logical frames to a header
UnitFrames(kind) == CASE kind = "dabplus" -> 5 [] kind = "mp2low" -> 2 [] OTHER -> 1
Nothing == [unit |-> 0, part |-> 0, good |-> TRUE]

\* The bit rates a header of wfmp2 can state, by its id bit.
brtab == {32, 48, 56, 64, 80, 96, 112, 128, 160, 192, 224, 256, 320, 384}
lbrtab == {8, 16, 24, 32, 40, 48, 56, 64, 80, 96, 112, 128, 144, 160}

\* A subchannel of MPEG layer II has a bit rate that its header can state.
ASSUME ServicesAssumption ==
    \A s \in Services :
        /\ s.kind \in Kinds
        /\ s.kind = "dabplus" => s.aus \in Nat \ {0}
        /\ s.kind = "mp2" => s.sub.bitrate \in brtab
        /\ s.kind = "mp2low" => s.sub.bitrate \in lbrtab

AInit ==
    /\ svc \in Services
    /\ frame = 0 /\ sfbuf = <<>>
    /\ header_valid = FALSE /\ header_expected = TRUE
    /\ out = <<>> /\ last = Nothing
    /\ at = <<1, 0>>
    /\ faults = 0 /\ lostrun = 0
    /\ clean = TRUE /\ intact = 0

Write(items) == /\ out' = (IF at[2] = 0 THEN <<>> ELSE out) \o items
                /\ last' = IF items = <<>> THEN last ELSE items[Len(items)]

-----------------------------------------------------------------------------
\* wfmp2.
\* mutant: a frame without a header does not reset header_valid.
HeaderResultsStale(f) ==
    IF f.quality = "good"
    THEN IF f.part # 0 THEN {[ok |-> header_valid, low |-> FALSE]}
         ELSE {[ok |-> TRUE, low |-> svc.kind = "mp2low"]}
    ELSE [ok : BOOLEAN, low : BOOLEAN]

\* What the header check can make of a frame: the id bit of a header that agrees with
\* the bit rate of the subchannel, or the id bit with a conflict, or no header at all.
\* The second half of a 24 kHz frame does not begin like a header.
HeaderResults(f) ==
    IF f.quality = "good"
    THEN IF f.part # 0 THEN {[ok |-> FALSE, low |-> FALSE]}
         ELSE LET low == svc.kind = "mp2low"
              IN  {[ok |-> svc.sub.bitrate \in (IF low THEN lbrtab ELSE brtab), low |-> low]}
    ELSE [ok : BOOLEAN, low : BOOLEAN]

Item(f) == [unit |-> f.unit, part |-> f.part, good |-> f.quality = "good"]

wfmp2(f) ==
    /\ \/ /\ header_expected
          /\ \E h \in HeaderResults(f) : header_valid' = h.ok /\ header_expected' = ~h.low
       \/ /\ ~header_expected
          /\ header_expected' = TRUE
          /\ UNCHANGED header_valid
    /\ Write(IF header_valid' THEN <<Item(f)>> ELSE <<>>)
    /\ UNCHANGED <<svc, frame, sfbuf>>

-----------------------------------------------------------------------------
\* wfdabplusdec.  A damaged frame may pass the Fire code check of its first bytes,
\* a good one passes when it begins a superframe.
firecrccheck(f) == IF f.quality = "good" THEN {f.part = 0} ELSE BOOLEAN

\* The slots of sf (five frames) that hold, after the Reed-Solomon decoding, what was sent:
\* a frame has to be where it belongs, in the superframe of the first slot's header, and
\* undamaged; slight damage is corrected if all five slots let the decoder work.
InPlace(sf, k) == sf[k + 1].unit = sf[1].unit /\ sf[k + 1].part = k
Corrected(sf) == \A k \in 0 .. 4 : InPlace(sf, k) /\ sf[k + 1].quality # "bad"
True(sf, k) == InPlace(sf, k) /\ (sf[k + 1].quality = "good" \/ Corrected(sf))

\* AU i of n equal ones lies in the first 110 of the 120 columns of bytes, 24 to a slot.
Slots(i, n) == ((110 * i) \div (24 * n)) .. ((110 * (i + 1) - 1) \div (24 * n))

\* The AUs of sf whose CRC is right, in order.  Their number and places are read from the
\* first slot.  If that is damaged beyond correction the code uses them unchecked, and may
\* read and invert bytes beside sfbuf; here no CRC is right then.
GoodAus(sf) ==
    LET n == svc.aus
        good(i) == \A k \in Slots(i, n) \cup {0} : True(sf, k)
    IN  [i \in 1 .. Cardinality({j \in 0 .. n - 1 : good(j)}) |->
            LET au == CHOOSE j \in 0 .. n - 1 :
                        good(j) /\ Cardinality({k \in 0 .. j : good(k)}) = i
            IN  [unit |-> sf[1].unit, part |-> au, good |-> TRUE]]

StartsAnywhere(f) == {TRUE}                   \* mutant: without the Fire code check
Starts(f) == IF frame = 0 THEN firecrccheck(f) ELSE {TRUE}

wfdabplusdec(f) ==
    /\ \E stored \in Starts(f) :
         IF ~stored
         THEN Write(<<>>) /\ UNCHANGED <<frame, sfbuf>>
         ELSE LET sf == Append(sfbuf, f)
              IN  IF frame + 1 > 4
                  THEN /\ frame' = 0 /\ sfbuf' = <<>>
                       /\ Write(GoodAus(sf))
                  ELSE /\ frame' = frame + 1
                       /\ sfbuf' = sf
                       /\ Write(<<>>)
    /\ UNCHANGED <<svc, header_valid, header_expected>>

-----------------------------------------------------------------------------
\* One logical frame.  msc_decode hands it to one of the two, by the FIC's service type.

Arrive(quality) ==
    LET last_part == at[2] + 1 = UnitFrames(svc.kind)
        \* After a whole unit slight damage is none where the Reed-Solomon code of DAB+
        \* corrects it, which is after the Fire code has checked the first frame.
        unhurt == clean /\ \/ quality = "good"
                           \/ /\ quality = "slight" /\ svc.kind = "dabplus"
                              /\ at[2] > 0 /\ intact > 0
    IN  /\ at' = IF last_part THEN <<at[1] + 1, 0>> ELSE <<at[1], at[2] + 1>>
        /\ faults' = faults + (IF quality = "good" THEN 0 ELSE 1)
        /\ faults' <= MaxFaults
        /\ lostrun' = IF quality = "lost" THEN lostrun + 1 ELSE 0
        /\ clean' = (last_part \/ unhurt)
        /\ intact' = IF ~last_part THEN intact
                     ELSE IF ~unhurt THEN 0 ELSE IF intact = 2 THEN 2 ELSE intact + 1

More == at[1] <= MaxUnits

\* The logical frame arrives and is decoded.
msc_decode(quality) ==
    LET f == [unit |-> at[1], part |-> at[2], quality |-> quality]
    IN  /\ Arrive(quality)
        /\ \/ svc.kind = "dabplus" /\ wfdabplusdec(f)
           \/ svc.kind # "dabplus" /\ wfmp2(f)

LoseFrame == Arrive("lost") /\ Write(<<>>) /\ UNCHANGED decoder

ANext == More /\ (LoseFrame \/ \E quality \in {"good", "slight", "bad"} : msc_decode(quality))

ASpec == AInit /\ [][ANext]_avars

-----------------------------------------------------------------------------
\* The depuncturing reads exactly the logical frame of the subchannel, but for the
\* padding, and what is decoded is 24 ms of the subchannel's bit rate: for DAB+ a fifth
\* of a superframe of 120 columns (uep_depuncture, eep_depuncture, their tables, and the
\* sizes msc_decode and wfdabplusdec compute).  The exception is what the code does: the
\* special profile for EEP 2-A at 8 kbit/s, {3, 12}, reads 336 of the 512 bits.
FrameFilled ==
    LET s == svc.sub
        ibytes == DecodedBits(s) \div 8
    IN  at = <<1, 0>> =>
          /\ \/ Consumed(Parts(s)) + PadBits(s) = LogicalFrameBits(s)
             \/ IsEep2a8(s) /\ Consumed(Parts(s)) = 336
          /\ DecodedBits(s) = 24 * s.bitrate
          /\ svc.kind = "dabplus" => 5 * ibytes = 120 * (s.bitrate \div 8)
          /\ Consumed(FicParts) = 2304 /\ Produced(FicParts) = 3096

\* The parts of a unit that is written whole.
Whole(u) == LET parts == IF svc.kind = "dabplus" THEN svc.aus ELSE UnitFrames(svc.kind)
            IN  [i \in 1 .. parts |-> [unit |-> u, part |-> i - 1, good |-> TRUE]]

\* Whatever was lost or damaged before, and whatever damaged frame was taken for the start
\* of a superframe or for a header: of two whole units in a row the second is written
\* whole, and nothing else with it (wfdabplusdec's count of frames and wfmp2's expectation
\* of a header find back into step by themselves).
Resync == (at[2] = 0 /\ intact = 2) => out = Whole(at[1] - 1)

\* The audio written never goes back, and the second half of a 24 kHz frame follows its own
\* header, unless two frames in a row were lost or the frame before it was damaged
\* (wfdabplusdec starts each superframe from an empty buffer; wfmp2 takes the frame after a
\* header for its second half).
Later(a, b) == a.unit > b.unit \/ (a.unit = b.unit /\ a.part > b.part)
NothingSpliced ==
    [][last' # last =>
         /\ Later(last', last)
         /\ (svc.kind = "mp2low" /\ last'.part = 1 /\ last'.good) =>
              \/ last.unit = last'.unit /\ last.part = 0
              \/ lostrun >= 2
              \/ ~last.good]_avars

=============================================================================
