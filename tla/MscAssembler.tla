----------------------------- MODULE MscAssembler -----------------------------
(***************************************************************************)
(* From Main Service Channel symbols to logical frames: wfsymsel.c's       *)
(* startsym, which says where a subchannel lies in a transmission frame,   *)
(* and wfmsc.c, which collects the subchannel's symbols of the last Depth  *)
(* common interleaved frames (CIFs) in a ring of slots and, whenever a     *)
(* slot is complete, undoes the time interleaving over the ring.           *)
(*                                                                         *)
(* A symbol is known by the transmission frame that brought it and by its  *)
(* number.  The bits of a slot fall into Depth classes, bit i into class   *)
(* i % Depth, and a logical frame takes each class from a slot of its own. *)
(* Nothing depends on the bits themselves, so demapping, depuncturing and  *)
(* decoding are left out.  "first" (the lazy init_cbuf), lfp (the address  *)
(* of cb[lframe]) and cifcnt (never read) are left out too.                *)
(*                                                                         *)
(* The WaveFinder sends the symbols wfsymsel selected, in order; any of    *)
(* them may be lost on the way.                                            *)
(***************************************************************************)
EXTENDS Integers, FiniteSets

CONSTANTS
    Depth,         \* slots of the ring
    Map,           \* map[] of time_disinterleave
    Cifs,          \* CIFs in a transmission frame
    CUSPERSYM,     \* capacity units in a symbol
    SYMSPERCIF,    \* symbols in a CIF
    MSCSTART,      \* number of the first MSC symbol
    Subchannels,   \* those that may be selected: [startaddr, subchsz]
    FrameNumbers,  \* frame numbers are counted modulo this
    MaxFrames,     \* bound: transmission frames sent
    MaxLost        \* bound: symbols lost

ASSUME GeometryAssumption ==
    /\ {Depth, Cifs, CUSPERSYM, SYMSPERCIF, FrameNumbers} \subseteq Nat \ {0}
    /\ {MSCSTART, MaxFrames, MaxLost} \subseteq Nat
    /\ FrameNumbers > 1
ASSUME MapAssumption == Map \in [0 .. Depth - 1 -> 0 .. Depth - 1]
ASSUME SubchannelAssumption ==
    \A s \in Subchannels : /\ {s.startaddr, s.subchsz} \subseteq Nat
                           /\ s.subchsz > 0
                           /\ s.startaddr + s.subchsz <= CUSPERSYM * SYMSPERCIF

VARIABLES
    sub,        \* the subchannel that was selected
    \* wfmsc.c
    data,       \* cb[].data, a symbol at each place
    syms,       \* cb[].syms
    lframe, head, full,
    curFrame,   \* cur_frame
    decoding,   \* the last symbol led to msc_decode
    \* the transmission
    frame, sym, \* the next symbol to be sent
    lost,       \* symbols lost so far
    \* history
    unnoticed,  \* a symbol has been lost since the buffer was last reset
    filled,     \* slots completed since then
    decoded     \* logical frames decoded since then

cbuf == <<data, syms, lframe, head, full>>
sent == <<frame, sym, lost>>
vars == <<sub, cbuf, curFrame, decoding, sent, unnoticed, filled, decoded>>

-----------------------------------------------------------------------------
\* startsym: first and last symbol in CIF j of the frame, and their number

FirstSym(s, j) == s.startaddr \div CUSPERSYM + MSCSTART + j * SYMSPERCIF
LastSym(s, j) ==
    (s.startaddr + s.subchsz) \div CUSPERSYM + MSCSTART + j * SYMSPERCIF
NumSymsShort(s) == LastSym(s, 0) - FirstSym(s, 0)         \* mutant: no "+ 1"
NumSyms(s) == LastSym(s, 0) - FirstSym(s, 0) + 1

CifIndex == 0 .. Cifs - 1
Slots    == 0 .. Depth - 1
Places   == 1 .. NumSyms(sub)
NoSymbol == [frame |-> 0, sym |-> 0]

\* The symbols on the air that wfsymsel selects.
OnAir == MSCSTART .. MSCSTART + Cifs * SYMSPERCIF - 1
Selected(s) == OnAir \cap UNION {FirstSym(s, j) .. LastSym(s, j) : j \in CifIndex}
Least(S) == CHOOSE n \in S : \A m \in S : n <= m

\* Reception begins anywhere in a frame.  If the frame is number 0, which
\* curFrame is initially, the part that was missed is not noticed.
Init ==
    /\ sub \in Subchannels
    /\ data = [s \in Slots |-> [i \in Places |-> NoSymbol]]
    /\ syms = [s \in Slots |-> 0]
    /\ lframe = 0 /\ head = 0 /\ full = FALSE
    /\ curFrame = 0
    /\ decoding = FALSE
    /\ frame \in {0, 1} /\ sym \in Selected(sub) /\ lost = 0
    /\ unnoticed = (frame = 0 /\ sym # FirstSym(sub, 0))
    /\ filled = 0 /\ decoded = 0

-----------------------------------------------------------------------------
\* wcbuf on a buffer b: what it holds afterwards, and whether it returns true.

Buffer == [data |-> data, syms |-> syms, lframe |-> lframe, head |-> head,
           full |-> full, ready |-> FALSE, filled |-> filled]

\* mutants of ResetBuffer: full, or the count of the first slot, is not reset
ResetKeepsFull(b) ==
    [b EXCEPT !.syms = [s \in Slots |-> 0], !.lframe = 0, !.head = 0,
              !.ready = FALSE, !.filled = 0]
ResetKeepsSyms(b) ==
    [b EXCEPT !.syms = [s \in Slots |-> IF s = 0 THEN b.syms[b.lframe] ELSE 0],
              !.lframe = 0, !.head = 0, !.full = FALSE, !.ready = FALSE,
              !.filled = 0]

ResetBuffer(b) ==
    [b EXCEPT !.syms = [s \in Slots |-> 0], !.lframe = 0, !.head = 0,
              !.full = FALSE, !.ready = FALSE, !.filled = 0]

Write(b, d) ==
    LET next == b.syms[b.lframe] = NumSyms(sub)     \* next logical frame
        l == IF next THEN (b.lframe + 1) % Depth ELSE b.lframe
        n == IF next THEN 1 ELSE b.syms[l] + 1
        complete == n = NumSyms(sub)
    IN  [data   |-> [b.data EXCEPT ![l] = [@ EXCEPT ![n] = d]],
         syms   |-> [b.syms EXCEPT ![l] = n],
         lframe |-> l,
         head   |-> IF next THEN (b.head + 1) % Depth ELSE b.head,
         full   |-> b.full \/ l = Depth - 1,
         ready  |-> (b.full \/ l = Depth - 1) /\ complete,
         filled |-> b.filled + (IF complete THEN 1 ELSE 0)]

-----------------------------------------------------------------------------
\* msc_assemble.  A symbol that starts CIF 0 sets the current frame; any other
\* is written once for every CIF it starts and for every CIF it continues, if
\* it belongs to the current frame, and otherwise resets the buffer.

Starts(n)    == {j \in CifIndex \ {0} : n = FirstSym(sub, j)}
Continues(n) == {j \in CifIndex : FirstSym(sub, j) < n /\ n <= LastSym(sub, j)}

Assembled(b, n, d) ==
    LET number == d.frame % FrameNumbers
        op(c)  == IF number = curFrame THEN Write(c, d) ELSE ResetBuffer(c)
        b1     == IF Starts(n) # {} THEN op(b) ELSE b
    IN  IF n = FirstSym(sub, 0) THEN Write(b, d)
        ELSE IF Continues(n) # {} THEN op(b1) ELSE b1

\* The transmission goes on to the next symbol.
Advance ==
    LET later == {n \in Selected(sub) : n > sym} IN
    IF later # {} THEN sym' = Least(later) /\ UNCHANGED frame
                  ELSE sym' = Least(Selected(sub)) /\ frame' = frame + 1

Receive ==
    LET d == [frame |-> frame, sym |-> sym]
        b == Assembled(Buffer, sym, d)
        reset == sym # FirstSym(sub, 0) /\ frame % FrameNumbers # curFrame
    IN
    /\ frame <= MaxFrames
    /\ data' = b.data /\ syms' = b.syms
    /\ lframe' = b.lframe /\ head' = b.head /\ full' = b.full
    /\ curFrame' = IF sym = FirstSym(sub, 0) THEN frame % FrameNumbers ELSE curFrame
    /\ decoding' = b.ready
    /\ filled' = b.filled
    /\ decoded' = IF reset THEN 0 ELSE decoded + (IF b.ready THEN 1 ELSE 0)
    /\ unnoticed' = (unnoticed /\ ~reset)
    /\ Advance
    /\ UNCHANGED <<sub, lost>>

Lose ==
    /\ frame <= MaxFrames /\ lost < MaxLost
    /\ lost' = lost + 1
    /\ unnoticed' = TRUE
    /\ decoding' = FALSE
    /\ Advance
    /\ UNCHANGED <<sub, cbuf, curFrame, filled, decoded>>

Next == Receive \/ Lose

Spec == Init /\ [][Next]_vars

-----------------------------------------------------------------------------
\* time_disinterleave: the slot from which a logical frame takes class c.

SlotOfClassBack(c) == (Depth + head - Map[c]) % Depth     \* mutant: reversed
SlotOfClass(c) == (head + Map[c]) % Depth

\* The CIF a slot holds, counted from the first ever sent.
CifOf(d) == (d.frame - 1) * Cifs + (d.sym - MSCSTART) \div SYMSPERCIF
CifIn(s) == CifOf(data[s][1])

TypeOK ==
    /\ sub \in Subchannels
    /\ syms \in [Slots -> 0 .. NumSyms(sub)]
    /\ data \in [Slots -> [Places -> [frame : Nat, sym : Nat]]]
    /\ lframe \in Slots /\ head \in Slots /\ full \in BOOLEAN
    /\ curFrame \in 0 .. FrameNumbers - 1
    /\ decoding \in BOOLEAN /\ unnoticed \in BOOLEAN
    /\ frame \in 0 .. MaxFrames + 1 /\ sym \in OnAir /\ lost \in 0 .. MaxLost
    /\ filled \in Nat /\ decoded \in Nat

\* Whatever is lost, no logical frame is decoded before a whole ring has been
\* collected since the last reset, and from then on every slot that is
\* completed is decoded.
DecodesEveryFilledSlot ==
    decoded = IF filled < Depth THEN 0 ELSE filled - Depth + 1

\* As long as every loss has been noticed, a decode finds in each slot the
\* symbols of one CIF, each in its place, and in the ring, read from the slot
\* after the newest, Depth successive CIFs.
Aligned ==
    /\ \A s \in Slots, i \in Places :
          /\ data[s][i].sym = data[s][1].sym + i - 1
          /\ CifOf(data[s][i]) = CifIn(s)
    /\ \A k \in 1 .. Depth - 1 :
          CifIn((lframe + 1 + k) % Depth) = CifIn((lframe + 1) % Depth) + k
DecodesAlignedRing == decoding /\ ~unnoticed => Aligned

\* Class c of a logical frame is sent Map[c] CIFs after class 0: this is the
\* logical frame a class is taken from.
LogicalFrame(c) == CifIn(SlotOfClass(c)) - Map[c]

\* time_disinterleave "writes a single logical frame to obuf".
SingleLogicalFrame ==
    decoding /\ ~unnoticed =>
        \A c, d \in Slots : LogicalFrame(c) = LogicalFrame(d)

\* It does for all classes but the one that is not delayed, which comes from a
\* logical frame Depth later.
DelayedClassesAgree ==
    decoding /\ ~unnoticed =>
        \A c, d \in Slots :
            LogicalFrame(c) - LogicalFrame(d) =
                Depth * ((IF Map[c] = 0 THEN 1 ELSE 0) - (IF Map[d] = 0 THEN 1 ELSE 0))

\* msc_assemble "copies symbols corresponding to the given subchannel": if none
\* is lost, those of a slot succeed one another.
SlotsHoldSuccessiveSymbols ==
    lost = 0 => \A s \in Slots, i \in Places :
                    i <= syms[s] => data[s][i].sym = data[s][1].sym + i - 1
=============================================================================
