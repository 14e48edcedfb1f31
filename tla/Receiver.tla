-------------------------------- MODULE Receiver --------------------------------
(***************************************************************************)
(* The main loop of wf (wf.c) from a packet read to the synchronisation    *)
(* and the control messages it sends back: prs_assemble and wf_sync        *)
(* (wfsync.c), the selection handshake of wf.c and the reading of the      *)
(* user's number (wfcmd.c).  The corrections that wf_sync sends besides    *)
(* the selection are in Corrections.                                       *)
(*                                                                         *)
(* The environment is the WaveFinder and the user.  Each frame of 96 ms is *)
(* five packets here: the four blocks of the phase reference symbol (PRS), *)
(* and one for the FIC and the MSC.  Any packet may be lost; a read may    *)
(* fail, and then the packets of the last one are processed                *)
(* again, as wf_read leaves the length as it was.  The Fourier arithmetic  *)
(* of wf_sync is a choice: the estimate it makes of the time and frequency *)
(* offsets is within the limits or not.                                    *)
(***************************************************************************)
EXTENDS Integers, Sequences, FiniteSets

CONSTANTS Lines,        \* what a read of the terminal may return, sequences of characters
          Numbers,      \* the numbers that stand for a service, as sequences of digits
          Batch         \* packets in a read, PIPESIZE / 524

Blocks == 0 .. 3
Digits == {"1", "2"}
Chars == Digits \cup {"newline", "nul"}

ASSUME LinesAssumption == Lines \subseteq Seq(Digits \cup {"newline"})
ASSUME BatchAssumption == Batch \in Nat \ {0}

LockCount == 3          \* lckcnt after a bad estimate
SyncCount == 6          \* synccnt after a selection
Buffer == 3             \* the characters of lbuf that the lines reach
Gap == 3                \* whole PRSs are counted up to 3,
Torn == 2               \* lost packets up to 2

VARIABLES
    pos,                       \* the place in the frame the device sends next
    batch, replay,             \* the packets of the last read; the one being processed again
    seen_flags,                \* the blocks of the PRS collected
    sync_locked, lckcnt,
    synccnt, symstr, selstr,   \* the selection handshake
    collecting, known, selected,  \* the FIC is read; sel_srv.sch # NULL; its symbols are selected
    heard,                     \* sel_srv.sch->subchid < 64
    device,                    \* the symbol selection last sent to the WaveFinder
    lbuf, typed, number,       \* the terminal buffer; the line the step read and its number
    own, torn,                 \* history: collected blocks of this frame; a mixed PRS was used
    goodrun,                   \* history: good estimates in a row, at most LockCount + 1
    lost,                      \* history: PRS packets lost since block 0 arrived, at most Torn
    whole,                     \* history: last blocks since a PRS packet was lost, at most Gap
    intact                     \* history: no PRS packet was lost or repeated since the selection

rvars == <<pos, batch, replay, seen_flags, sync_locked, lckcnt, synccnt, symstr, selstr,
           collecting, known, selected, heard, device, lbuf, typed, number, own, torn,
           goodrun, lost, whole, intact>>

Places == 0 .. 4        \* 0..3 are the blocks of the PRS, 4 is the FIC and the MSC
IsPrs(p) == p \in Blocks
Capped(n, max) == IF n > max THEN max ELSE n

TypeOK ==
    /\ pos \in Places /\ replay \in 0 .. Batch
    /\ batch \in Seq(Places \X BOOLEAN) /\ Len(batch) <= Batch
    /\ seen_flags \in SUBSET Blocks /\ own \in SUBSET Blocks /\ torn \in BOOLEAN
    /\ sync_locked \in BOOLEAN /\ lckcnt \in 0 .. LockCount
    /\ synccnt \in 0 .. SyncCount
    /\ symstr \in {"all", "service", "change"} /\ selstr \in {"all", "service"}
    /\ collecting \in BOOLEAN /\ {known, selected, heard} \subseteq BOOLEAN
    /\ device \in {"init", "all", "service", "change"}
    /\ lbuf \in [1 .. Buffer -> Chars]
    /\ goodrun \in 0 .. LockCount + 1 /\ lost \in 0 .. Torn /\ whole \in 0 .. Gap
    /\ intact \in BOOLEAN

RInit ==
    /\ pos = 0 /\ batch = <<>> /\ replay = 0
    /\ seen_flags = {} /\ own = {} /\ torn = FALSE
    /\ sync_locked = FALSE /\ lckcnt = LockCount
    /\ synccnt = 0 /\ symstr = "all" /\ selstr = "all"
    /\ collecting = TRUE /\ known = FALSE /\ selected = FALSE /\ heard = FALSE
    /\ device = "init"
    /\ lbuf = [i \in 1 .. Buffer |-> "nul"] /\ typed = <<>> /\ number = <<>>
    /\ goodrun = 0 /\ lost = 0 /\ whole = 0 /\ intact = TRUE

-----------------------------------------------------------------------------
\* wf_sync.  The lock counter counts good estimates down from 3.
LockUnlessLocked(good) ==       \* mutant: a bad estimate does not begin the count again
    /\ goodrun' = IF good THEN Capped(goodrun + 1, LockCount + 1) ELSE 0
    /\ sync_locked' = (good /\ lckcnt = 0)
    /\ lckcnt' = IF good /\ lckcnt > 0 THEN lckcnt - 1 ELSE lckcnt

Lock(good) ==
    /\ goodrun' = IF good THEN Capped(goodrun + 1, LockCount + 1) ELSE 0
    /\ sync_locked' = (good /\ lckcnt = 0)
    /\ lckcnt' = IF ~good THEN LockCount ELSE IF lckcnt = 0 THEN 0 ELSE lckcnt - 1

\* The selection goes with the timing message at the end of every call.
wf_sync(sel) == device' = sel /\ \E good \in BOOLEAN : Lock(good)

NoSync == UNCHANGED <<sync_locked, lckcnt, goodrun, device>>

\* prs_assemble.  Block 0 begins a new symbol; the call is made when all flags are set.
FlagsKept(blk) == seen_flags \cup {blk}       \* mutant: block 0 does not
Flags(blk) == IF blk = 0 THEN {0} ELSE seen_flags \cup {blk}
Complete(blk) == blk # 0 /\ Flags(blk) = Blocks

prs_assemble(blk, sel) ==
    /\ seen_flags' = IF Complete(blk) THEN {} ELSE Flags(blk)
    /\ \/ Complete(blk) /\ wf_sync(sel)
       \/ ~Complete(blk) /\ NoSync

-----------------------------------------------------------------------------
\* wfgetnum: the line overwrites the beginning of the buffer, and sscanf reads a number
\* from what is there: after white space, up to the first character that is no digit.
WithoutNewline(line) ==                       \* mutant: only the digits are read
    [i \in 1 .. Buffer |-> IF i <= Len(line) /\ line[i] # "newline" THEN line[i] ELSE lbuf[i]]
Overwritten(line) == [i \in 1 .. Buffer |-> IF i <= Len(line) THEN line[i] ELSE lbuf[i]]

\* The digits from the first character that is not white space.
Scanned(buf) ==
    LET first == {i \in 1 .. Buffer : buf[i] # "newline" /\ \A j \in 1 .. i - 1 : buf[j] = "newline"}
        digits == {i \in 1 .. Buffer : \E f \in first : f <= i /\ \A j \in f .. i : buf[j] \in Digits}
    IN  [i \in 1 .. Cardinality(digits) |-> buf[(CHOOSE f \in first : TRUE) + i - 1]]

NoInput == typed' = <<>> /\ number' = <<>> /\ UNCHANGED lbuf

user_select_service ==
    \/ NoInput /\ UNCHANGED <<known, heard>>           \* nothing has been typed
    \/ \E line \in Lines :
         /\ typed' = line
         /\ lbuf' = Overwritten(line)
         /\ number' = Scanned(lbuf')
         /\ known' = (number' \in Numbers)
         /\ heard' \in IF known' THEN BOOLEAN ELSE {FALSE}

\* One packet in the loop of main.  Each packet of the PRS that is processed counts.
HandshakeAlways(p) ==                         \* mutant: the selection is never sent
    IF ~IsPrs(p) THEN <<synccnt, symstr>>
    ELSE IF synccnt > 0 THEN <<synccnt - 1, "change">> ELSE <<0, symstr>>
HandshakeShort(p) ==                          \* mutant: three packets
    IF ~IsPrs(p) THEN <<synccnt, symstr>>
    ELSE IF synccnt > 3 THEN <<synccnt - 1, "change">> ELSE <<0, selstr>>
Handshake(p) ==
    IF ~IsPrs(p) THEN <<synccnt, symstr>>
    ELSE IF synccnt > 0 THEN <<synccnt - 1, "change">> ELSE <<0, selstr>>

\* The FIC, the user and the MSC come to their turn while synchronisation is locked.  As
\* the FIC is not read any more by then, a subchannel that was not heard of before the user
\* chose it stays unknown.
Select(p, count) ==
    \/ /\ collecting                                  \* fic_assemble, up to the last label
       /\ collecting' \in IF p = 4 THEN BOOLEAN ELSE {TRUE}
       /\ synccnt' = count
       /\ NoInput /\ UNCHANGED <<selstr, known, heard, selected>>
    \/ /\ ~collecting /\ ~known
       /\ user_select_service
       /\ synccnt' = count
       /\ UNCHANGED <<selstr, collecting, selected>>
    \/ /\ ~collecting /\ known /\ heard /\ ~selected   \* startsym, wfsymsel
       /\ selstr' = "service" /\ selected' = TRUE /\ synccnt' = SyncCount
       /\ NoInput /\ UNCHANGED <<collecting, known, heard>>
    \/ /\ ~collecting /\ known /\ (heard => selected)   \* msc_assemble, if synccnt is 0
       /\ synccnt' = count
       /\ NoInput /\ UNCHANGED <<selstr, collecting, known, heard, selected>>

Process(p) ==
    /\ \/ IsPrs(p) /\ prs_assemble(p, Handshake(p)[2])
       \/ ~IsPrs(p) /\ NoSync /\ UNCHANGED seen_flags
    /\ symstr' = Handshake(p)[2]
    /\ \/ /\ ~sync_locked'
          /\ synccnt' = Handshake(p)[1]
          /\ NoInput /\ UNCHANGED <<selstr, collecting, known, heard, selected>>
       \/ sync_locked' /\ Select(p, Handshake(p)[1])

-----------------------------------------------------------------------------
\* The packets.  own follows the collected blocks: those of the frame now sent.
Follow(blk, same) ==
    LET mine == IF blk = 0 THEN {} ELSE IF pos = 0 /\ replay = 0 THEN {} ELSE own
        now == IF same THEN mine \cup {blk} ELSE mine \ {blk}
    IN  /\ torn' = (Complete(blk) /\ now \notin {{}, Blocks})
        /\ own' = IF Complete(blk) THEN {} ELSE now

NoFollow == torn' = FALSE /\ own' = IF pos = 0 /\ replay = 0 THEN {} ELSE own

Aged(b) == IF pos = 0 THEN [i \in DOMAIN b |-> <<b[i][1], FALSE>>] ELSE b
Advance == pos' = IF pos = 4 THEN 0 ELSE pos + 1

Deliver ==
    /\ replay = 0
    /\ batch' = Append(IF Len(batch) = Batch THEN <<>> ELSE Aged(batch), <<pos, TRUE>>)
    /\ Process(pos)
    /\ \/ IsPrs(pos) /\ Follow(pos, TRUE)
       \/ ~IsPrs(pos) /\ NoFollow
    /\ lost' = IF pos = 0 THEN 0 ELSE lost
    /\ whole' = IF pos = 3 THEN Capped(whole + 1, Gap) ELSE whole
    /\ intact' = (intact \/ (selected' /\ ~selected))
    /\ Advance /\ UNCHANGED replay

LosePacket ==
    /\ replay = 0
    /\ batch' = Aged(batch)
    /\ NoSync /\ NoFollow /\ NoInput
    /\ IF IsPrs(pos)
       THEN lost' = Capped(lost + 1, Torn) /\ whole' = 0 /\ intact' = FALSE
       ELSE UNCHANGED <<lost, whole, intact>>
    /\ Advance
    /\ UNCHANGED <<replay, seen_flags, synccnt, symstr, selstr, collecting, known, heard, selected>>

\* The read that follows a complete one fails: the loop processes the same packets again.
ReadFails ==
    /\ replay = 0 /\ Len(batch) = Batch
    /\ replay' = 1
    /\ lost' = Torn /\ whole' = 0 /\ intact' = FALSE
    /\ torn' = FALSE /\ NoInput
    /\ UNCHANGED <<pos, batch, seen_flags, sync_locked, lckcnt, synccnt, symstr, selstr,
                   collecting, known, heard, selected, device, own, goodrun>>

ProcessAgain ==
    /\ replay > 0
    /\ Process(batch[replay][1])
    /\ \/ IsPrs(batch[replay][1]) /\ Follow(batch[replay][1], batch[replay][2])
       \/ ~IsPrs(batch[replay][1]) /\ NoFollow
    /\ replay' = IF replay = Batch THEN 0 ELSE replay + 1
    /\ UNCHANGED <<pos, batch, lost, whole, intact>>

RNext == Deliver \/ LosePacket \/ ReadFails \/ ProcessAgain

RSpec == RInit /\ [][RNext]_rvars /\ WF_rvars(RNext)

-----------------------------------------------------------------------------
\* Synchronisation is locked by the fourth good estimate in a row, and one bad estimate
\* unlocks it and begins the count again (wfsync.c, lckcnt and sync_locked).
LockedAfterFourGood ==
    /\ lckcnt = IF goodrun > LockCount THEN 0 ELSE LockCount - goodrun
    /\ sync_locked <=> goodrun = LockCount + 1

\* prs_assemble compares no frame numbers, yet wf_sync gets blocks of two frames only if
\* two packets of the PRS were lost since block 0 came, or packets were processed again.
TornNeedsTwoLosses == torn => lost = Torn

\* As long as no packet of the PRS is lost or processed again from the selection on, the
\* WaveFinder is told of the service's symbols only after the selection that wf.c keeps
\* "before changing the symbol selection": six packets of the PRS always hold a complete one.
\* When some are lost or repeated synccnt, which counts packets, may be used up before that.
SelectionHandshake ==
    [][intact' /\ device' = "service" /\ device # "service" => device = "change"]_rvars

\* A line that holds a number is read as that number, whatever an earlier and longer line
\* left in the buffer (wfgetnum): the newline ends it.
HoldsNumber(line) ==
    /\ Len(line) > 1 /\ line[Len(line)] = "newline"
    /\ \A i \in 1 .. Len(line) - 1 : line[i] \in Digits
NumberTyped == HoldsNumber(typed) => number = SubSeq(typed, 1, Len(typed) - 1)

\* Once every PRS is received and none gives a bad estimate, synchronisation locks for good
\* and, if anything is known about the subchannel the user chose, its symbols are asked of
\* the WaveFinder.
Received == whole = Gap /\ goodrun > 0
ServiceReceived ==
    <>[]Received => <>[]sync_locked /\ (known /\ heard ~> device = "service")

=============================================================================
