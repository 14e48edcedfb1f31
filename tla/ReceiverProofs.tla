----------------------------- MODULE ReceiverProofs -----------------------------
(***************************************************************************)
(* Theorems about Receiver, for any lines the user may type, any numbers   *)
(* and any size of a read, about Corrections, for any times that pass, and *)
(* about DeviceInit, which comes before them.                              *)
(***************************************************************************)
EXTENDS Receiver, Corrections, DeviceInit, SequenceTheorems, FiniteSetTheorems, TLAPS

\* The counters and the collector, which the theorems below are about.
CollectOK ==
    /\ pos \in Places /\ replay \in Nat /\ lost \in 0 .. Torn
    /\ seen_flags \in SUBSET Blocks /\ own \in SUBSET Blocks /\ torn \in BOOLEAN
CountersOK ==
    /\ CollectOK
    /\ sync_locked \in BOOLEAN
    /\ lckcnt \in 0 .. LockCount /\ goodrun \in 0 .. LockCount + 1

\* A packet is processed at its place, or again.
LEMMA ProcessCases ==
  ASSUME NEW p, Process(p)
  PROVE  \/ IsPrs(p) /\ Complete(p) /\ wf_sync(Handshake(p)[2]) /\ seen_flags' = {}
         \/ IsPrs(p) /\ ~Complete(p) /\ NoSync /\ seen_flags' = Flags(p)
         \/ ~IsPrs(p) /\ NoSync /\ UNCHANGED seen_flags
  BY DEF Process, prs_assemble

-----------------------------------------------------------------------------
\* The lock counter. It is an inductive invariant by itself.

LEMMA LockStep ==
  ASSUME CountersOK, LockedAfterFourGood, NEW good \in BOOLEAN, Lock(good)
  PROVE  /\ LockedAfterFourGood'
         /\ lckcnt' \in 0 .. LockCount /\ goodrun' \in 0 .. LockCount + 1
         /\ sync_locked' \in BOOLEAN
  <1> USE DEF CountersOK, LockedAfterFourGood, LockCount
  <1>1. (sync_locked' <=> good /\ lckcnt = 0) /\ sync_locked' \in BOOLEAN
    BY Zenon DEF Lock
  <1>2. CASE good = FALSE
    <2>1. goodrun' = 0 /\ lckcnt' = 3
      BY <1>2 DEF Lock
    <2>2. QED
      BY <1>1, <1>2, <2>1
  <1>3. CASE good = TRUE
    <2>1. /\ goodrun' = IF goodrun + 1 > 4 THEN 4 ELSE goodrun + 1
          /\ lckcnt' = IF lckcnt = 0 THEN 0 ELSE lckcnt - 1
      BY <1>3 DEF Lock, Capped
    <2>2. goodrun \in 0 .. 4 /\ lckcnt = IF goodrun > 3 THEN 0 ELSE 3 - goodrun
      OBVIOUS
    <2>3. QED
      BY <1>1, <1>3, <2>1, <2>2
  <1>4. QED
    BY <1>2, <1>3

LEMMA LockNext ==
  ASSUME CountersOK, LockedAfterFourGood, [RNext]_rvars
  PROVE  /\ LockedAfterFourGood'
         /\ lckcnt' \in 0 .. LockCount /\ goodrun' \in 0 .. LockCount + 1
         /\ sync_locked' \in BOOLEAN
  <1> DEFINE Goal == /\ LockedAfterFourGood'
                     /\ lckcnt' \in 0 .. LockCount /\ goodrun' \in 0 .. LockCount + 1
                     /\ sync_locked' \in BOOLEAN
  <1>1. UNCHANGED <<sync_locked, lckcnt, goodrun>> => Goal
    BY DEF CountersOK, LockedAfterFourGood
  <1>2. ASSUME NEW p, Process(p) PROVE Goal
    <2>1. NoSync \/ \E good \in BOOLEAN : Lock(good)
      BY <1>2, ProcessCases DEF wf_sync
    <2>2. QED
      BY <1>1, <2>1, LockStep DEF NoSync
  <1>3. QED
    BY <1>1, <1>2 DEF RNext, Deliver, LosePacket, ReadFails, ProcessAgain, NoSync, rvars

-----------------------------------------------------------------------------
\* The collector of the phase reference symbol.  While fewer than two packets have been lost
\* since block 0 came, what it has collected is of the frame now sent; and with none lost it
\* has everything this frame has brought, so that the loss of the next block 0 finds it empty.
Brought == IF pos = 4 THEN {} ELSE {b \in Blocks : b < pos}
CollectInv ==
    /\ lost < Torn => replay = 0 /\ seen_flags = own /\ ~torn
    /\ lost = 0 => seen_flags = Brought

LEMMA CollectDeliver ==
  ASSUME CountersOK, CollectInv, Deliver
  PROVE  CollectInv' /\ CollectOK'
  <1> USE DEF CountersOK, CollectOK, Blocks, Places
  <1>1. replay = 0 /\ replay' = 0 /\ pos' = (IF pos = 4 THEN 0 ELSE pos + 1) /\ Process(pos)
    BY DEF Deliver, Advance
  <1>2. CASE pos = 4
    <2>1. /\ UNCHANGED seen_flags /\ torn' = FALSE /\ own' = own /\ lost' = lost
      BY <1>1, <1>2, ProcessCases DEF Deliver, IsPrs, NoFollow
    <2>2. pos' = 0 /\ Brought = {} /\ Brought' = {}
      BY <1>1, <1>2 DEF Brought
    <2>3. CollectInv'
      BY <1>1, <1>2, <2>1, <2>2 DEF CollectInv
    <2>4. CollectOK'
      <3>1. torn' \in BOOLEAN
        BY <1>1, <1>2, <2>1, <2>2
      <3>2. QED
        BY <1>1, <1>2, <2>1, <2>2, <3>1 DEF CollectOK
    <2>5. QED
      BY <2>3, <2>4
  <1>3. CASE pos = 0
    <2>1. IsPrs(0) /\ ~Complete(0) /\ Flags(0) = {0}
      BY DEF IsPrs, Complete, Flags
    <2>2. seen_flags' = {0}
      BY <1>1, <1>3, <2>1, ProcessCases
    <2>3. torn' = FALSE /\ own' = {0} /\ lost' = 0
      BY <1>3, <2>1 DEF Deliver, Follow
    <2>4. pos' = 1 /\ Brought' = {0}
      BY <1>1, <1>3 DEF Brought
    <2>5. 0 \in 0 .. Torn
      BY DEF Torn
    <2>6. CollectInv'
      BY <1>1, <2>2, <2>3, <2>4, <2>5 DEF CollectInv
    <2>7. CollectOK'
      <3>1. torn' \in BOOLEAN
        BY <1>1, <2>2, <2>3, <2>4, <2>5
      <3>2. QED
        BY <1>1, <2>2, <2>3, <2>4, <2>5, <3>1 DEF CollectOK
    <2>8. QED
      BY <2>6, <2>7
  <1>4. CASE pos \in 1 .. 3
    <2>1. IsPrs(pos) /\ Flags(pos) = seen_flags \cup {pos} /\ (Complete(pos) <=> Flags(pos) = Blocks)
      BY <1>4 DEF IsPrs, Complete, Flags
    <2>2. seen_flags' = IF Complete(pos) THEN {} ELSE seen_flags \cup {pos}
      BY <1>1, <2>1, ProcessCases
    <2>3. /\ torn' = (Complete(pos) /\ own \cup {pos} \notin {{}, Blocks})
          /\ own' = IF Complete(pos) THEN {} ELSE own \cup {pos}
          /\ lost' = lost
      BY <1>4, <2>1 DEF Deliver, Follow
    <2>4. lost < Torn => seen_flags' = own' /\ ~torn'
      BY <2>1, <2>2, <2>3 DEF CollectInv
    <2>5. lost = 0 => seen_flags' = Brought'
      <3>1. CASE lost = 0 /\ pos = 3
        BY <1>1, <2>1, <2>2, <3>1 DEF CollectInv, Brought
      <3>2. CASE lost = 0 /\ pos \in 1 .. 2
        <4>1. 3 \notin seen_flags \cup {pos} /\ seen_flags = {b \in Blocks : b < pos}
          BY <3>2 DEF CollectInv, Brought
        <4>2. ~Complete(pos)
          BY <2>1, <4>1
        <4>3. pos' \in 2 .. 3 /\ pos' = pos + 1
          BY <1>1, <3>2
        <4>4. {b \in Blocks : b < pos + 1} = {b \in Blocks : b < pos} \cup {pos}
          BY <3>2
        <4>5. QED
          BY <2>2, <4>1, <4>2, <4>3, <4>4 DEF Brought
      <3>3. QED
        BY <1>4, <3>1, <3>2
    <2>6. QED
      BY <1>1, <1>4, <2>2, <2>3, <2>4, <2>5 DEF CollectInv
  <1>5. QED
    BY <1>2, <1>3, <1>4

LEMMA CollectLose ==
  ASSUME CountersOK, CollectInv, LosePacket
  PROVE  CollectInv' /\ CollectOK'
  <1> USE DEF CountersOK, CollectOK, Blocks, Places, Torn
  <1>1. /\ replay = 0 /\ replay' = 0 /\ pos' = (IF pos = 4 THEN 0 ELSE pos + 1)
        /\ UNCHANGED seen_flags /\ torn' = FALSE /\ own' = (IF pos = 0 THEN {} ELSE own)
        /\ lost' = IF IsPrs(pos) THEN Capped(lost + 1, Torn) ELSE lost
    BY DEF LosePacket, Advance, NoFollow
  <1>2. CASE pos = 4
    <2>1. pos' = 0 /\ Brought = {} /\ Brought' = {} /\ lost' = lost /\ own' = own
      BY <1>1, <1>2 DEF Brought, IsPrs
    <2>2. CollectInv'
      BY <1>1, <2>1 DEF CollectInv
    <2>3. CollectOK'
      <3>1. torn' \in BOOLEAN
        BY <1>1, <2>1
      <3>2. QED
        BY <1>1, <2>1, <3>1 DEF CollectOK
    <2>4. QED
      BY <2>2, <2>3
  <1>3. CASE pos = 0
    <2>1. Brought = {} /\ own' = {} /\ pos' = 1 /\ lost' = Capped(lost + 1, 2)
      BY <1>1, <1>3 DEF Brought, IsPrs
    <2>2. lost' \in 1 .. 2 /\ (lost' < 2 => lost = 0)
      BY <2>1 DEF Capped
    <2>3. CollectInv'
      BY <1>1, <2>1, <2>2 DEF CollectInv
    <2>4. CollectOK'
      <3>1. torn' \in BOOLEAN
        BY <1>1, <2>1, <2>2
      <3>2. QED
        BY <1>1, <2>1, <2>2, <3>1 DEF CollectOK
    <2>5. QED
      BY <2>3, <2>4
  <1>4. CASE pos \in 1 .. 3
    <2>1. own' = own /\ pos' \in 2 .. 4 /\ lost' = Capped(lost + 1, 2)
      BY <1>1, <1>4 DEF IsPrs
    <2>2. lost' \in 1 .. 2 /\ (lost' < 2 => lost < 2)
      BY <2>1 DEF Capped
    <2>3. CollectInv'
      BY <1>1, <2>1, <2>2 DEF CollectInv
    <2>4. CollectOK'
      <3>1. torn' \in BOOLEAN
        BY <1>1, <2>1, <2>2
      <3>2. QED
        BY <1>1, <2>1, <2>2, <3>1 DEF CollectOK
    <2>5. QED
      BY <2>3, <2>4
  <1>5. QED
    BY <1>2, <1>3, <1>4

LEMMA CollectAgain ==
  ASSUME CountersOK, CollectInv, ProcessAgain
  PROVE  CollectInv' /\ CollectOK'
  <1> DEFINE p == batch[replay][1]
  <1>1. /\ replay > 0 /\ Process(p) /\ UNCHANGED <<pos, lost>>
        /\ \/ IsPrs(p) /\ Follow(p, batch[replay][2])
           \/ ~IsPrs(p) /\ NoFollow
        /\ replay' = IF replay = Batch THEN 0 ELSE replay + 1
    BY DEF ProcessAgain
  <1> HIDE DEF p
  <1>2. replay' \in Nat
    BY <1>1 DEF CollectOK, CountersOK
  <1>3. CollectInv'
    BY <1>1 DEF CollectInv, CollectOK, CountersOK, Torn
  <1>4. seen_flags' \in SUBSET Blocks
    BY <1>1, ProcessCases DEF CollectOK, CountersOK, IsPrs, Flags, Blocks
  <1>5. own' \in SUBSET Blocks /\ torn' \in BOOLEAN
    <2>1. CASE IsPrs(p) /\ Follow(p, batch[replay][2])
      <3>1. own' \in {{}} \cup {mine \cup {p} : mine \in {{}, own}} \cup {mine \ {p} : mine \in {{}, own}}
        BY <2>1 DEF Follow
      <3>2. torn' \in BOOLEAN
        BY <2>1, Zenon DEF Follow
      <3>3. QED
        BY <2>1, <3>1, <3>2 DEF CollectOK, CountersOK, IsPrs
    <2>2. CASE NoFollow
      BY <2>2 DEF NoFollow, CollectOK, CountersOK
    <2>3. QED
      BY <1>1, <2>1, <2>2
  <1>6. QED
    BY <1>1, <1>2, <1>3, <1>4, <1>5 DEF CollectOK, CountersOK

LEMMA CollectFails ==
  ASSUME CountersOK, CollectInv, ReadFails
  PROVE  CollectInv' /\ CollectOK'
  <1>1. /\ UNCHANGED <<pos, seen_flags, own>> /\ replay' = 1 /\ lost' = Torn /\ torn' = FALSE
    BY DEF ReadFails
  <1>2. CollectInv'
    BY <1>1 DEF CollectInv, Torn
  <1>3. CollectOK'
    <2>1. torn' \in BOOLEAN
      BY <1>1
    <2>2. QED
      BY <1>1, <2>1 DEF CollectOK, CountersOK, Torn
  <1>4. QED
    BY <1>2, <1>3

Inv == CountersOK /\ LockedAfterFourGood /\ CollectInv

LEMMA InvInit == RInit => Inv
  <1> SUFFICES ASSUME RInit PROVE Inv
    OBVIOUS
  <1>1. CountersOK
    <2>1. torn \in BOOLEAN /\ sync_locked \in BOOLEAN
      BY DEF RInit
    <2>2. QED
      BY <2>1 DEF RInit, CountersOK, CollectOK, Places, LockCount, Torn
  <1>2. LockedAfterFourGood
    BY DEF RInit, LockedAfterFourGood, LockCount
  <1>3. Brought = {}
    BY DEF RInit, Brought, Blocks
  <1>4. CollectInv
    BY <1>3 DEF RInit, CollectInv
  <1>5. QED
    BY <1>1, <1>2, <1>4 DEF Inv

LEMMA InvNext == Inv /\ [RNext]_rvars => Inv'
  <1> SUFFICES ASSUME CountersOK, LockedAfterFourGood, CollectInv, [RNext]_rvars PROVE Inv'
    BY DEF Inv
  <1>1. /\ LockedAfterFourGood'
        /\ lckcnt' \in 0 .. LockCount /\ goodrun' \in 0 .. LockCount + 1
        /\ sync_locked' \in BOOLEAN
    BY LockNext
  <1>2. CollectInv' /\ CollectOK'
    <2>1. CASE UNCHANGED rvars
      BY <2>1 DEF rvars, CollectInv, Brought, CountersOK, CollectOK
    <2>2. QED
      BY <2>1, CollectDeliver, CollectLose, CollectAgain, CollectFails DEF RNext
  <1>3. QED
    BY <1>1, <1>2 DEF Inv, CountersOK

\* Whatever packets are lost, synchronisation is locked exactly after four good estimates in
\* a row (wf_sync).
THEOREM LockCorrect == RSpec => []LockedAfterFourGood
  <1>1. Inv => LockedAfterFourGood
    BY DEF Inv
  <1>2. QED
    BY <1>1, InvInit, InvNext, PTL DEF RSpec

\* Fewer than two lost packets never let wf_sync see blocks of two frames (prs_assemble).
THEOREM CollectorCorrect == RSpec => []TornNeedsTwoLosses
  <1>1. Inv => TornNeedsTwoLosses
    BY DEF Inv, CollectInv, CollectOK, CountersOK, TornNeedsTwoLosses, Torn
  <1>2. QED
    BY <1>1, InvInit, InvNext, PTL DEF RSpec

-----------------------------------------------------------------------------
\* The selection handshake. After the selection as many packets of the PRS are counted as
\* it takes, at most, to complete one if none is lost: the rest of this one, if it is
\* complete so far, or else that and the four of the next.
HandOK ==
    /\ CollectOK
    /\ synccnt \in 0 .. SyncCount /\ selected \in BOOLEAN /\ intact \in BOOLEAN
Needed ==
    IF pos \in {0, 4} THEN 4
    ELSE IF 0 .. pos - 1 \subseteq seen_flags THEN 4 - pos ELSE 8 - pos
HandshakeInv ==
    /\ selstr = IF selected THEN "service" ELSE "all"
    /\ intact => replay = 0
    /\ intact /\ selected /\ device \notin {"service", "change"} => Needed <= synccnt

LEMMA ProcessHand ==
  ASSUME NEW p, Process(p)
  PROVE  /\ \/ UNCHANGED <<selected, selstr>> /\ synccnt' = Handshake(p)[1]
            \/ ~selected /\ selected' = TRUE /\ selstr' = "service" /\ synccnt' = SyncCount
         /\ device' = device \/ device' = Handshake(p)[2]
         /\ IsPrs(p) /\ Complete(p) => device' = Handshake(p)[2]
         /\ ~IsPrs(p) => device' = device
  <1>1. /\ device' = device \/ device' = Handshake(p)[2]
        /\ IsPrs(p) /\ Complete(p) => device' = Handshake(p)[2]
        /\ ~IsPrs(p) => device' = device
    BY ProcessCases DEF wf_sync, NoSync
  <1>2. \/ UNCHANGED <<selected, selstr>> /\ synccnt' = Handshake(p)[1]
        \/ ~selected /\ selected' = TRUE /\ selstr' = "service" /\ synccnt' = SyncCount
    BY DEF Process, Select
  <1>3. QED
    BY <1>1, <1>2

\* The count, and the selection that is sent
LEMMA Counted ==
  ASSUME synccnt \in 0 .. SyncCount, NEW p
  PROVE  /\ ~IsPrs(p) => Handshake(p)[1] = synccnt
         /\ IsPrs(p) /\ synccnt > 0 => /\ Handshake(p)[1] = synccnt - 1
                                       /\ Handshake(p)[2] = "change"
         /\ IsPrs(p) /\ synccnt = 0 => /\ Handshake(p)[1] = 0
                                       /\ Handshake(p)[2] = selstr
         /\ Handshake(p)[1] \in 0 .. SyncCount
  BY DEF Handshake, SyncCount

LEMMA HandDeliver ==
  ASSUME HandOK, CollectOK', HandshakeInv, Deliver
  PROVE  /\ HandshakeInv'
         /\ device' = "service" /\ device \notin {"service", "change"} => ~intact'
  <1> DEFINE p == pos
             Wants == device \notin {"service", "change"}
  <1>1. /\ replay = 0 /\ replay' = 0 /\ pos' = (IF pos = 4 THEN 0 ELSE pos + 1)
        /\ Process(pos) /\ pos \in 0 .. 4 /\ seen_flags \in SUBSET (0 .. 3)
        /\ synccnt \in 0 .. 6 /\ intact' = (intact \/ (selected' /\ ~selected))
    BY DEF Deliver, Advance, HandOK, CollectOK, Places, Blocks, SyncCount
  <1>2. /\ IsPrs(pos) /\ Complete(pos) => seen_flags' = {}
        /\ IsPrs(pos) /\ ~Complete(pos) => seen_flags' = Flags(pos)
        /\ ~IsPrs(pos) => UNCHANGED seen_flags
    BY <1>1, ProcessCases
  <1>3. /\ \/ UNCHANGED <<selected, selstr>> /\ synccnt' = Handshake(pos)[1]
           \/ ~selected /\ selected' = TRUE /\ selstr' = "service" /\ synccnt' = SyncCount
        /\ device' = device \/ device' = Handshake(pos)[2]
        /\ IsPrs(pos) /\ Complete(pos) => device' = Handshake(pos)[2]
        /\ ~IsPrs(pos) => device' = device
    BY <1>1, ProcessHand
  <1>4. IsPrs(pos) <=> pos \in 0 .. 3
    BY DEF IsPrs, Blocks
  <1>5. selstr' = IF selected' THEN "service" ELSE "all"
    BY <1>3 DEF HandshakeInv
  <1>6. Needed \in 1 .. 7
    BY <1>1 DEF Needed
  <1>7. Needed' \in 1 .. 6
    <2>1. CASE pos = 0
      <3>1. ~Complete(0) /\ Flags(0) = {0}
        BY DEF Complete, Flags
      <3>2. seen_flags' = {0} /\ pos' = 1
        BY <1>1, <1>2, <1>4, <2>1, <3>1
      <3>3. 0 .. pos' - 1 \subseteq seen_flags'
        BY <3>2
      <3>4. QED
        BY <3>2, <3>3 DEF Needed
    <2>2. CASE pos # 0
      BY <1>1, <2>2 DEF Needed
    <2>3. QED
      BY <2>1, <2>2
  \* Each packet of the PRS brings its completion nearer, as long as it is not complete.
  <1>8. IsPrs(pos) => Complete(pos) \/ Needed' <= Needed - 1
    <2>1. CASE pos = 0
      <3>1. ~Complete(0) /\ Flags(0) = {0}
        BY DEF Complete, Flags
      <3>2. seen_flags' = {0} /\ pos' = 1
        BY <1>1, <1>2, <1>4, <2>1, <3>1
      <3>3. 0 .. pos' - 1 \subseteq seen_flags'
        BY <3>2
      <3>4. Needed' = 3 /\ Needed = 4
        BY <2>1, <3>2, <3>3 DEF Needed
      <3>5. QED
        BY <3>4
    <2>2. CASE pos \in 1 .. 2 /\ ~Complete(pos)
      <3>1. seen_flags' = seen_flags \cup {pos} /\ pos' = pos + 1
        BY <1>1, <1>2, <1>4, <2>2 DEF Flags
      <3>2. 0 .. pos = (0 .. pos - 1) \cup {pos} /\ pos' - 1 = pos
        BY <2>2, <3>1
      <3>3. 0 .. pos - 1 \subseteq seen_flags => 0 .. pos' - 1 \subseteq seen_flags'
        BY <3>1, <3>2
      <3>4. pos' \notin {0, 4} /\ pos \notin {0, 4}
        BY <2>2, <3>1
      <3>5. QED
        BY <2>2, <3>1, <3>3, <3>4 DEF Needed
    <2>3. CASE pos = 3 /\ ~Complete(pos)
      <3>1. ~(0 .. 2 \subseteq seen_flags)
        <4>1. pos # 0 /\ Flags(pos) = seen_flags \cup {3} /\ Flags(pos) # 0 .. 3
          BY <2>3 DEF Complete, Flags, Blocks
        <4>2. 0 .. 2 = {0, 1, 2} /\ 0 .. 3 = {0, 1, 2, 3}
          OBVIOUS
        <4>3. QED
          BY <1>1, <4>1, <4>2
      <3>2. Needed = 5 /\ Needed' = 4
        <4>1. pos' = 4 /\ pos - 1 = 2
          BY <1>1, <2>3
        <4>2. QED
          BY <2>3, <3>1, <4>1 DEF Needed
      <3>3. QED
        BY <3>2
    <2>4. QED
      BY <1>1, <1>4, <2>1, <2>2, <2>3
  <1>9. ~IsPrs(pos) => Needed' = 4 /\ Needed = 4
    BY <1>1, <1>4 DEF Needed
  <1>10. intact' /\ selected' /\ device' \notin {"service", "change"} => Needed' <= synccnt'
    <2> SUFFICES ASSUME intact', selected', device' \notin {"service", "change"}
                 PROVE  Needed' <= synccnt'
      OBVIOUS
    <2>1. CASE ~selected
      <3>1. synccnt' = SyncCount
        BY <1>3, <2>1
      <3>2. QED
        BY <1>7, <3>1 DEF SyncCount
    <2>2. CASE selected
      <3>1. intact /\ synccnt' = Handshake(pos)[1]
        BY <1>1, <1>3, <2>2
      <3>2. device \notin {"service", "change"}
        <4>1. selstr = "service"
          BY <2>2 DEF HandshakeInv
        <4>2. Handshake(pos)[2] \in {"service", "change"} \/ ~IsPrs(pos)
          BY <1>1, <4>1, Counted DEF SyncCount
        <4>3. QED
          BY <1>3, <4>2
      <3>3. Needed <= synccnt
        BY <2>2, <3>1, <3>2 DEF HandshakeInv
      <3>4. synccnt > 0
        BY <1>1, <1>6, <3>3
      <3>5. CASE IsPrs(pos)
        <4>1. synccnt' = synccnt - 1 /\ Handshake(pos)[2] = "change"
          BY <1>1, <3>1, <3>4, <3>5, Counted DEF SyncCount
        <4>2. ~Complete(pos)
          BY <1>3, <3>5, <4>1
        <4>3. QED
          BY <1>1, <1>6, <1>7, <1>8, <3>3, <3>5, <4>1, <4>2
      <3>6. CASE ~IsPrs(pos)
        BY <1>1, <1>9, <3>1, <3>3, <3>6, Counted DEF SyncCount
      <3>7. QED
        BY <3>5, <3>6
    <2>3. QED
      BY <2>1, <2>2
  <1>11. ASSUME device' = "service", device \notin {"service", "change"}, intact' PROVE FALSE
    <2>1. IsPrs(pos) /\ Handshake(pos)[2] = "service"
      BY <1>3, <1>11
    <2>2. synccnt = 0 /\ selstr = "service"
      BY <1>1, <2>1, Counted DEF SyncCount
    <2>3. selected /\ intact
      <3>1. selstr = IF selected THEN "service" ELSE "all"
        BY DEF HandshakeInv
      <3>2. selected
        BY <2>2, <3>1
      <3>3. intact' = (intact \/ (selected' /\ ~selected))
        BY <1>1
      <3>4. QED
        BY <1>11, <3>2, <3>3, Zenon
    <2>4. Needed <= synccnt
      BY <1>11, <2>3 DEF HandshakeInv
    <2>5. QED
      BY <1>6, <2>2, <2>4
  <1>12. QED
    BY <1>1, <1>5, <1>10, <1>11 DEF HandshakeInv

LEMMA HandOther ==
  ASSUME HandOK, HandshakeInv, LosePacket \/ ReadFails \/ ProcessAgain \/ UNCHANGED rvars
  PROVE  /\ HandshakeInv'
         /\ device' = "service" /\ device \notin {"service", "change"} => ~intact'
  <1>1. CASE LosePacket
    <2>1. /\ UNCHANGED <<device, selected, selstr, synccnt, replay, seen_flags>>
          /\ IF IsPrs(pos) THEN intact' = FALSE ELSE intact' = intact
          /\ pos' = IF pos = 4 THEN 0 ELSE pos + 1
      BY <1>1 DEF LosePacket, NoSync, Advance
    <2>2. CASE IsPrs(pos)
      BY <2>1, <2>2 DEF HandshakeInv
    <2>3. CASE ~IsPrs(pos)
      <3>1. pos = 4
        BY <2>3 DEF HandOK, CollectOK, Places, Blocks, IsPrs
      <3>2. Needed' = Needed
        BY <2>1, <3>1 DEF Needed
      <3>3. QED
        BY <2>1, <2>3, <3>2 DEF HandshakeInv
    <2>4. QED
      BY <2>2, <2>3
  <1>2. CASE ReadFails
    BY <1>2 DEF ReadFails, HandshakeInv
  <1>3. CASE ProcessAgain
    <2>1. ~intact /\ intact' = intact
      BY <1>3 DEF ProcessAgain, HandshakeInv
    <2>2. selstr' = IF selected' THEN "service" ELSE "all"
      <3>1. PICK p : Process(p)
        BY <1>3 DEF ProcessAgain
      <3>2. \/ UNCHANGED <<selected, selstr>>
            \/ selected' = TRUE /\ selstr' = "service"
        BY <3>1, ProcessHand
      <3>3. selstr = IF selected THEN "service" ELSE "all"
        BY DEF HandshakeInv
      <3>4. QED
        BY <3>2, <3>3
    <2>3. QED
      BY <2>1, <2>2 DEF HandshakeInv
  <1>4. CASE UNCHANGED rvars
    BY <1>4 DEF rvars, HandshakeInv, Needed
  <1>5. QED
    BY <1>1, <1>2, <1>3, <1>4

LEMMA HandType ==
  ASSUME HandOK, CollectOK', [RNext]_rvars
  PROVE  HandOK'
  <1> DEFINE Goal == synccnt' \in 0 .. SyncCount /\ selected' \in BOOLEAN
  <1>1. UNCHANGED <<synccnt, selected>> => Goal
    BY DEF HandOK
  <1>2. ASSUME NEW p, Process(p) PROVE Goal
    <2>1. Handshake(p)[1] \in 0 .. SyncCount /\ SyncCount \in 0 .. SyncCount
      BY Counted DEF HandOK, SyncCount
    <2>2. QED
      BY <1>2, <2>1, ProcessHand DEF HandOK
  <1>3. Goal
    BY <1>1, <1>2 DEF RNext, Deliver, LosePacket, ReadFails, ProcessAgain, rvars
  <1>4. intact' \in BOOLEAN
    <2>1. CASE Deliver
      <3>1. intact' = (intact \/ (selected' /\ ~selected))
        BY <2>1 DEF Deliver
      <3>2. QED
        BY <3>1, Zenon
    <2>2. CASE LosePacket
      BY <2>2 DEF LosePacket, HandOK
    <2>3. CASE ReadFails
      BY <2>3 DEF ReadFails
    <2>4. CASE ProcessAgain \/ UNCHANGED rvars
      BY <2>4 DEF ProcessAgain, rvars, HandOK
    <2>5. QED
      BY <2>1, <2>2, <2>3, <2>4 DEF RNext
  <1>5. QED
    BY <1>3, <1>4 DEF HandOK

\* From the selection on until a packet of the PRS is lost or processed again, and no longer,
\* the WaveFinder is told of the service's symbols only after the selection that wf.c keeps
\* before changing it: the six packets counted always hold a complete PRS.
THEOREM SelectionFollowsChange == RSpec => SelectionHandshake
  <1>1. RInit => HandOK /\ HandshakeInv
    <2> SUFFICES ASSUME RInit PROVE HandOK /\ HandshakeInv
      OBVIOUS
    <2>1. HandOK
      <3>1. CollectOK
        BY InvInit DEF Inv, CountersOK
      <3>2. selected \in BOOLEAN /\ intact \in BOOLEAN
        BY DEF RInit
      <3>3. QED
        BY <3>1, <3>2 DEF RInit, HandOK, SyncCount
    <2>2. QED
      BY <2>1 DEF RInit, HandshakeInv
  <1>2. /\ Inv /\ HandOK /\ HandshakeInv /\ [RNext]_rvars
        => /\ HandOK' /\ HandshakeInv'
           /\ device' = "service" /\ device \notin {"service", "change"} => ~intact'
    <2> SUFFICES ASSUME Inv, HandOK, HandshakeInv, [RNext]_rvars
                 PROVE  /\ HandOK' /\ HandshakeInv'
                        /\ device' = "service" /\ device \notin {"service", "change"} => ~intact'
      OBVIOUS
    <2>1. CollectOK'
      BY InvNext DEF Inv, CountersOK
    <2>2. HandOK'
      BY <2>1, HandType
    <2>3. QED
      BY <2>1, <2>2, HandDeliver, HandOther DEF RNext
  <1> DEFINE Kept == intact' /\ device' = "service" /\ device # "service" => device = "change"
  <1>3. Inv /\ HandOK /\ HandshakeInv /\ [RNext]_rvars
          => HandOK' /\ HandshakeInv' /\ [Kept]_rvars
    BY <1>2
  <1>4. RSpec => [][Kept]_rvars
    <2> HIDE DEF Kept
    <2>1. QED
      BY <1>1, <1>3, InvInit, InvNext, PTL DEF RSpec
  <1>5. QED
    BY <1>4, PTL DEF SelectionHandshake

-----------------------------------------------------------------------------
\* The corrections.  What the clock has gained since a reading is at most the time since the
\* message, which was not sent after that reading, unless the clock was set.
Gained(m) == ahead[m] \/ clock - taken[m] <= since[m] \/ since[m] > Interval[m]
ClockInv ==
    /\ clock \in 0 .. ClockRange - 1
    /\ taken \in [Messages -> 0 .. ClockRange - 1] /\ since \in [Messages -> Nat]
    /\ ahead \in [Messages -> BOOLEAN]
    /\ \A m \in Messages : Gained(m)

LEMMA Intervals == \A m \in Messages : Interval[m] \in Nat
  BY DEF Interval, Messages

LEMMA WrappedClock ==
  ASSUME NEW c \in -ClockRange .. 2 * ClockRange - 2
  PROVE  Wrapped(c) \in 0 .. ClockRange - 1 /\ (c >= 0 => Wrapped(c) <= c)
  BY RangeAssumption DEF Wrapped

LEMMA TimePasses ==
  ASSUME ClockInv, NEW d \in 0 .. ClockRange - 1, Pass(d)
  PROVE  ClockInv'
  <1>1. clock + d \in 0 .. 2 * ClockRange - 2
    BY RangeAssumption DEF ClockInv
  <1>2. clock' \in 0 .. ClockRange - 1 /\ clock' <= clock + d
    BY <1>1, WrappedClock, RangeAssumption DEF Pass
  <1>3. ASSUME NEW m \in Messages
        PROVE  /\ since'[m] = IF since[m] + d > Interval[m] THEN Interval[m] + 1 ELSE since[m] + d
               /\ since'[m] \in Nat
    BY Intervals DEF Pass, ClockInv
  <1>4. since' \in [Messages -> Nat]
    BY <1>3 DEF Pass
  <1>5. ASSUME NEW m \in Messages
        PROVE  Gained(m)'
    <2>1. since[m] \in Nat /\ taken[m] \in 0 .. ClockRange - 1 /\ clock \in 0 .. ClockRange - 1
          /\ Interval[m] \in Nat /\ Gained(m)
      BY Intervals DEF ClockInv
    <2>2. CASE since[m] + d > Interval[m]
      BY <1>3, <2>1, <2>2 DEF Gained
    <2>3. CASE ~(since[m] + d > Interval[m])
      <3>1. since'[m] = since[m] + d /\ ~(since[m] > Interval[m])
        BY <1>3, <2>1, <2>3
      <3>2. taken' = taken /\ ahead' = ahead
        BY DEF Pass
      <3>3. CASE ahead[m]
        BY <3>2, <3>3 DEF Gained
      <3>4. CASE clock - taken[m] <= since[m]
        BY <1>2, <2>1, <3>1, <3>2, <3>4, RangeAssumption DEF Gained
      <3>5. QED
        BY <2>1, <3>1, <3>3, <3>4 DEF Gained
    <2>4. QED
      BY <2>2, <2>3
  <1>6. QED
    BY <1>2, <1>4, <1>5 DEF ClockInv, Pass

LEMMA ClockIsSet ==
  ASSUME ClockInv, NEW d \in -ClockRange .. ClockRange - 1, SetClock(d)
  PROVE  ClockInv'
  <1>1. clock + d \in -ClockRange .. 2 * ClockRange - 2
    BY RangeAssumption DEF ClockInv
  <1>2. clock' \in 0 .. ClockRange - 1 /\ (clock + d >= 0 => clock' <= clock + d)
    BY <1>1, WrappedClock DEF SetClock
  <1>3. ASSUME NEW m \in Messages
        PROVE  Gained(m)'
    <2>1. ahead'[m] <=> ahead[m] \/ d > 0 \/ clock + d < 0
      BY DEF SetClock
    <2>2. taken' = taken /\ since' = since
      BY DEF SetClock
    <2>3. since[m] \in Nat /\ taken[m] \in 0 .. ClockRange - 1 /\ clock \in 0 .. ClockRange - 1
          /\ Interval[m] \in Nat /\ Gained(m)
      BY Intervals DEF ClockInv
    <2>4. CASE ahead[m] \/ d > 0 \/ clock + d < 0
      BY <2>1, <2>4, Zenon DEF Gained
    <2>5. CASE ~ahead[m] /\ ~(d > 0) /\ ~(clock + d < 0)
      <3>1. clock' <= clock
        BY <1>2, <2>3, <2>5, RangeAssumption
      <3>2. clock - taken[m] <= since[m] \/ since[m] > Interval[m]
        BY <2>3, <2>5 DEF Gained
      <3>3. clock' - taken[m] <= since[m] \/ since[m] > Interval[m]
        BY <1>2, <2>3, <3>1, <3>2, RangeAssumption
      <3>4. QED
        BY <2>2, <3>3 DEF Gained
    <2>6. QED
      BY <2>4, <2>5
  <1>4. ahead' \in [Messages -> BOOLEAN]
    BY DEF SetClock
  <1>5. QED
    BY <1>2, <1>3, <1>4 DEF ClockInv, SetClock

LEMMA MessageSent ==
  ASSUME ClockInv, NEW m \in Messages, NEW calls, Send(m, calls), clock' = clock
  PROVE  /\ ClockInv'
         /\ \A n \in Messages : n \in sent' /\ ~ahead[n] => since[n] > Interval[n]
  <1>1. /\ taken' = [taken EXCEPT ![m] = clock]
        /\ since' = [since EXCEPT ![m] = IF m \in sent' THEN 0 ELSE since[m]]
        /\ ahead' = [ahead EXCEPT ![m] = FALSE]
    BY DEF Send
  <1>2. ASSUME NEW n \in Messages
        PROVE  Gained(n)'
    <2>1. CASE n = m
      <3>1. taken'[n] = clock /\ since'[n] \in Nat
        BY <1>1, <2>1 DEF ClockInv
      <3>2. clock' - taken'[n] <= since'[n]
        BY <3>1, RangeAssumption DEF ClockInv
      <3>3. QED
        BY <3>2 DEF Gained
    <2>2. CASE n # m
      <3>1. taken'[n] = taken[n] /\ since'[n] = since[n] /\ (ahead'[n] <=> ahead[n])
        BY <1>1, <2>2 DEF ClockInv
      <3>2. Gained(n)
        BY DEF ClockInv
      <3>3. QED
        BY <3>1, <3>2 DEF Gained
    <2>3. QED
      BY <2>1, <2>2
  <1>3. ASSUME NEW n \in Messages, n \in sent', ~ahead[n]
        PROVE  since[n] > Interval[n]
    <2>1. clock - taken[n] > Interval[n]
      BY <1>3 DEF Send, Due
    <2>2. since[n] \in Nat /\ taken[n] \in 0 .. ClockRange - 1 /\ clock \in 0 .. ClockRange - 1
          /\ Interval[n] \in Nat /\ Gained(n)
      BY Intervals DEF ClockInv
    <2>3. QED
      BY <1>3, <2>1, <2>2, RangeAssumption DEF Gained
  <1>4. /\ taken' \in [Messages -> 0 .. ClockRange - 1] /\ since' \in [Messages -> Nat]
        /\ ahead' \in [Messages -> BOOLEAN]
    BY <1>1 DEF ClockInv
  <1>5. QED
    BY <1>2, <1>3, <1>4 DEF ClockInv

\* MessagesApart: two messages of a kind are further apart than their interval, for any delays
\* and however often the clock is set back; only setting it forward is excepted (wf_sync,
\* wf_afc).
THEOREM CorrectionsApart == CSpec => MessagesApart
  <1> DEFINE Apart == \A m \in Messages : m \in sent' /\ ~ahead[m] => since[m] > Interval[m]
  <1>1. CInit => ClockInv
    <2> SUFFICES ASSUME CInit PROVE ClockInv
      OBVIOUS
    <2>1. /\ clock \in 0 .. ClockRange - 1 /\ taken \in [Messages -> 0 .. ClockRange - 1]
          /\ since \in [Messages -> Nat] /\ ahead \in [Messages -> BOOLEAN]
      BY ClockAssumption, RangeAssumption, Intervals DEF CInit
    <2>2. \A m \in Messages : since[m] > Interval[m]
      BY Intervals DEF CInit
    <2>3. QED
      BY <2>1, <2>2 DEF ClockInv, Gained
  <1>2. ClockInv /\ [CNext]_cvars => ClockInv' /\ [Apart]_cvars
    <2> SUFFICES ASSUME ClockInv, [CNext]_cvars
                 PROVE  ClockInv' /\ [Apart]_cvars
      OBVIOUS
    <2>1. CASE Wait \/ Delay
      <3>1. PICK d \in Steps \cup Delays : Pass(d)
        BY <2>1 DEF Wait, Delay
      <3>2. sent' = {}
        BY <3>1 DEF Pass
      <3>3. QED
        BY <3>1, <3>2, TimePasses, ClockAssumption
    <2>2. CASE \E d \in Sets : SetClock(d)
      <3>1. PICK d \in Sets : SetClock(d)
        BY <2>2
      <3>2. sent' = {}
        BY <3>1 DEF SetClock
      <3>3. QED
        BY <3>1, <3>2, ClockIsSet, ClockAssumption
    <2>3. CASE SyncCorrects
      <3>1. Send("outreg0", asked') /\ clock' = clock /\ "outreg0" \in Messages
        BY <2>3 DEF SyncCorrects, Messages
      <3>2. QED
        BY <3>1, MessageSent
    <2>4. CASE wf_afc
      <3>1. Send("afc", asked) /\ clock' = clock /\ "afc" \in Messages
        BY <2>4 DEF wf_afc, Messages
      <3>2. QED
        BY <3>1, MessageSent
    <2>5. CASE UNCHANGED cvars
      BY <2>5 DEF cvars, ClockInv, Gained
    <2>6. QED
      BY <2>1, <2>2, <2>3, <2>4, <2>5 DEF CNext
  <1>3. CSpec => [][Apart]_cvars
    <2> HIDE DEF Apart
    <2>1. QED
      BY <1>1, <1>2, PTL DEF CSpec
  <1>4. QED
    BY <1>3, PTL DEF MessagesApart

-----------------------------------------------------------------------------
\* The user's number. lbuf begins with the line that the step read, which fits into it.
LinesFit == \A line \in Lines : Len(line) <= Buffer
LineInv ==
    typed # <<>> =>
        /\ typed \in Lines
        /\ \A i \in 1 .. Len(typed) : lbuf[i] = typed[i]
        /\ number = Scanned(lbuf)

LEMMA ScannedNumber ==
  ASSUME NEW line \in Seq(Chars), HoldsNumber(line), Len(line) <= Buffer,
         NEW buf, \A i \in 1 .. Len(line) : buf[i] = line[i]
  PROVE  Scanned(buf) = SubSeq(line, 1, Len(line) - 1)
  <1> DEFINE n == Len(line) - 1
             first == {i \in 1 .. Buffer :
                         buf[i] # "newline" /\ \A j \in 1 .. i - 1 : buf[j] = "newline"}
             digits == {i \in 1 .. Buffer :
                          \E f \in first : f <= i /\ \A j \in f .. i : buf[j] \in Digits}
  <1>1. n \in Nat \ {0} /\ n + 1 <= Buffer /\ Buffer \in Nat /\ Len(line) = n + 1
    BY DEF HoldsNumber, Buffer
  <1>2. /\ \A i \in 1 .. n : buf[i] = line[i] /\ buf[i] \in Digits /\ buf[i] # "newline"
        /\ buf[n + 1] \notin Digits
    <2>1. "newline" \notin Digits
      BY DEF Digits
    <2>2. \A i \in 1 .. n : i \in 1 .. Len(line)
      BY <1>1
    <2>3. n + 1 \in 1 .. Len(line)
      BY <1>1
    <2>4. QED
      BY <1>1, <2>1, <2>2, <2>3 DEF HoldsNumber
  <1> HIDE DEF n
  <1>3. first = {1}
    <2>1. 1 \in first
      BY <1>1, <1>2
    <2>2. ASSUME NEW i \in first PROVE i = 1
      <3>1. i \in 1 .. Buffer /\ \A j \in 1 .. i - 1 : buf[j] = "newline"
        OBVIOUS
      <3>2. 1 \notin 1 .. i - 1
        BY <1>1, <1>2, <3>1
      <3>3. QED
        BY <1>1, <3>1, <3>2
    <2>3. QED
      BY <2>1, <2>2
  <1> HIDE DEF first
  <1>4. digits = 1 .. n
    <2>1. ASSUME NEW i \in 1 .. n PROVE i \in digits
      <3>1. i \in 1 .. Buffer /\ 1 <= i /\ \A j \in 1 .. i : buf[j] \in Digits
        BY <1>1, <1>2
      <3>2. QED
        BY <1>3, <3>1
    <2>2. ASSUME NEW i \in digits PROVE i \in 1 .. n
      <3>1. i \in 1 .. Buffer /\ \A j \in 1 .. i : buf[j] \in Digits
        BY <1>3
      <3>2. n + 1 \notin 1 .. i
        BY <1>2, <3>1
      <3>3. QED
        BY <1>1, <3>1, <3>2
    <2>3. QED
      BY <2>1, <2>2
  <1>5. Cardinality(digits) = n
    <2>1. Cardinality(1 .. n) = n
      BY <1>1, FS_Interval
    <2>2. QED
      BY <1>4, <2>1
  <1>6. (CHOOSE f \in first : TRUE) = 1
    BY <1>3
  <1>7. Scanned(buf) = [i \in 1 .. Cardinality(digits) |-> buf[(CHOOSE f \in first : TRUE) + i - 1]]
    BY DEF Scanned, first, digits
  <1> HIDE DEF digits
  <1>8. Scanned(buf) = [i \in 1 .. n |-> buf[1 + i - 1]]
    BY <1>5, <1>6, <1>7
  <1>9. \A i \in 1 .. n : buf[1 + i - 1] = line[i]
    BY <1>1, <1>2
  <1>10. SubSeq(line, 1, n) = [i \in 1 .. n |-> line[i]]
    BY <1>1
  <1>11. QED
    BY <1>8, <1>9, <1>10 DEF n

\* Whatever is left in the buffer, a line that holds a number is read as that number, if the
\* buffer takes the line as a whole (wfgetnum).
THEOREM NumberRead == LinesFit /\ RSpec => []NumberTyped
  <1> SUFFICES ASSUME LinesFit PROVE RSpec => []NumberTyped
    OBVIOUS
  <1>1. RInit => LineInv
    BY DEF RInit, LineInv
  <1>2. LineInv /\ [RNext]_rvars => LineInv'
    <2> SUFFICES ASSUME LineInv, [RNext]_rvars PROVE LineInv'
      OBVIOUS
    <2>1. NoInput => LineInv'
      BY DEF NoInput, LineInv
    <2>2. ASSUME NEW p, Process(p) PROVE LineInv'
      <3>1. CASE NoInput
        BY <2>1, <3>1
      <3>2. CASE user_select_service
        <4>1. ASSUME NEW line \in Lines, typed' = line, lbuf' = Overwritten(line),
                     number' = Scanned(lbuf')
              PROVE  LineInv'
          <5>1. line \in Seq(Digits \cup {"newline"}) /\ Len(line) <= Buffer
            BY LinesAssumption DEF LinesFit
          <5>2. Len(line) \in Nat /\ Buffer \in Nat
            BY <5>1 DEF Buffer
          <5>3. \A i \in 1 .. Len(line) : lbuf'[i] = line[i]
            BY <4>1, <5>1, <5>2 DEF Overwritten
          <5>4. QED
            BY <4>1, <5>3 DEF LineInv
        <4>2. QED
          BY <2>1, <3>2, <4>1 DEF user_select_service
      <3>3. QED
        BY <2>2, <3>1, <3>2 DEF Process, Select
    <2>3. CASE UNCHANGED rvars
      BY <2>3 DEF rvars, LineInv
    <2>4. QED
      BY <2>1, <2>2, <2>3 DEF RNext, Deliver, LosePacket, ReadFails, ProcessAgain
  <1>3. LineInv => NumberTyped
    <2> SUFFICES ASSUME LineInv, HoldsNumber(typed)
                 PROVE  number = SubSeq(typed, 1, Len(typed) - 1)
      BY DEF NumberTyped
    <2>1. typed # <<>>
      BY DEF HoldsNumber
    <2>2. typed \in Seq(Chars) /\ Len(typed) <= Buffer
      <3>1. typed \in Lines /\ Digits \cup {"newline"} \subseteq Chars
        BY <2>1 DEF LineInv, Chars
      <3>2. QED
        BY <3>1, LinesAssumption DEF LinesFit
    <2>3. QED
      BY <2>1, <2>2, ScannedNumber DEF LineInv
  <1>4. QED
    BY <1>1, <1>2, <1>3, PTL DEF RSpec

-----------------------------------------------------------------------------
\* The start of the device.  Past(n): entry n of the script of wf_boot_dsps is done.
Past(n) == step > 3 \/ (step = 3 /\ bootstep > n)
At(n) == step = 3 /\ bootstep = n

\* The entries of the script that load d, and that start it.
UploadOf == [d \in Dsps |-> IF d = "B" THEN 7 ELSE 10]
StartOf == [d \in Dsps |-> IF d = "B" THEN 14 ELSE 13]
FileBytes == 8065

\* The runs of bytes in the memory of d after k messages, and after the last one.
RunTo(x) == <<128, 128, x>>
LastRun == <<4148, 8167, 8190>>
LoadedBy(k) == IF k = 0 THEN <<>> ELSE <<RunTo(127 + 30 * k)>>
Loaded(d) == code[d] = <<RunTo(8167), LastRun>>
Loading(d) ==
    \/ \E k \in 0 .. 268 : /\ remain = FileBytes - 30 * k /\ hpia[d] = 127 + 15 * k
                           /\ code[d] = LoadedBy(k)
    \/ remain = 0 /\ Loaded(d)

ScriptInv ==
    /\ step \in 1 .. 22 /\ bootstep \in 1 .. 19
    /\ step # 3 => bootstep = 1
    /\ streaming \in BOOLEAN /\ (streaming => step > 3)
MemoryInv(d) ==
    /\ ~Past(UploadOf[d] - 1) => code[d] = <<>>
    /\ At(UploadOf[d] - 1) => remain = FileBytes
    /\ At(UploadOf[d]) => Loading(d)
    /\ Past(UploadOf[d]) => Loaded(d)
StartInv(d) ==
    /\ At(StartOf[d]) \/ (d = "A" /\ At(12)) \/ (d = "B" /\ At(13)) => hpia[d] = 126
    /\ runs[d] = IF Past(StartOf[d]) THEN EntryOf(d) ELSE 0
BInv ==
    /\ hpia \in [Dsps -> Int] /\ runs = [d \in Dsps |-> runs[d]] /\ code = [d \in Dsps |-> code[d]]
    /\ ScriptInv
    /\ \A d \in Dsps : MemoryInv(d) /\ StartInv(d)

LEMMA InitScriptIs ==
  /\ Len(InitScript) = 21
  /\ \A n \in 1 .. 21 : (InitScript[n] = "boot" <=> n = 3) /\ (InitScript[n] = "r1" <=> n = 11)
  <1>1. Len(InitScript) = 21
    BY DEF InitScript
  <1>2. \A n \in 1 .. 21 : InitScript[n] = "boot" <=> n = 3
    BY DEF InitScript
  <1>3. \A n \in 1 .. 21 : InitScript[n] = "r1" <=> n = 11
    BY DEF InitScript
  <1>4. QED
    BY <1>1, <1>2, <1>3

Uploads == {7, 10}
Opens == {5, 8}
Writes == 1 .. 19 \ (Uploads \cup Opens)

LEMMA BootScriptIs ==
  /\ Len(BootScript) = 19
  /\ \A n \in Uploads : BootScript[n].do = "upload"
  /\ \A n \in Opens : BootScript[n].do = "open"
  /\ \A n \in Writes : BootScript[n].do \in {"address", "data", "control"}
  /\ \A n \in 1 .. 19 : BootScript[n].dsp \in Dsps
  <1>1. Len(BootScript) = 19
    BY DEF BootScript
  <1>2. \A n \in Uploads : BootScript[n].do = "upload"
    BY DEF Uploads, BootScript, Upload
  <1>3. \A n \in Opens : BootScript[n].do = "open"
    BY DEF Opens, BootScript, Open
  <1>4. \A n \in Writes : BootScript[n].do \in {"address", "data", "control"}
    BY DEF Writes, Uploads, Opens, BootScript, Address, Data, Control
  <1>5. \A n \in 1 .. 19 : BootScript[n].dsp \in Dsps
    BY DEF Dsps, Files, BootScript, Address, Data, Control, Open, Upload
  <1>6. QED
    BY <1>1, <1>2, <1>3, <1>4, <1>5

LEMMA BootEntries ==
  /\ BootScript[6] = Address("B", 127) /\ BootScript[7].dsp = "B"
  /\ BootScript[9] = Address("A", 127) /\ BootScript[10].dsp = "A"
  /\ BootScript[11] = Address("A", 126) /\ BootScript[12] = Address("B", 126)
  /\ BootScript[13] = Data("A", EntryOf("A")) /\ BootScript[14] = Data("B", EntryOf("B"))
  /\ \A n \in 1 .. 19 : BootScript[n].do = "data" => n \in {13, 14} \/ BootScript[n].value = 0
  /\ \A n \in 1 .. 19 : BootScript[n].value \in Int
  BY DEF BootScript, Files, Address, Data, Control, Open, Upload, EntryOf, CodeStart

\* Where the script is when an entry of it is taken, and after BootNext.
LEMMA BootPlace ==
  ASSUME ScriptInv, Booting
  PROVE  step = 3 /\ bootstep \in 1 .. 19
  BY InitScriptIs DEF ScriptInv, Booting

LEMMA NextPlace ==
  ASSUME ScriptInv, Booting, BootNext, streaming' = streaming
  PROVE  /\ ScriptInv'
         /\ \A n \in 1 .. 19 : Past(n)' <=> bootstep >= n
         /\ \A n \in 1 .. 19 : At(n)' <=> bootstep < 19 /\ bootstep + 1 = n
         /\ \A n \in 1 .. 19 : (Past(n) <=> bootstep > n) /\ (At(n) <=> bootstep = n)
  BY BootPlace, BootScriptIs DEF ScriptInv, BootNext, Past, At

\* A message of the script that is not a part of a file.
LEMMA WriteKeeps == ASSUME BInv, BootWrite PROVE BInv'
  <1>1. step = 3 /\ bootstep \in Writes /\ bootstep \in 1 .. 19
    <2>1. step = 3 /\ bootstep \in 1 .. 19
      BY BootPlace DEF BInv, BootWrite
    <2>2. QED
      BY <2>1, BootScriptIs DEF BootWrite, Now, Writes, Uploads, Opens
  <1>2. PICK e : e = BootScript[bootstep]
    OBVIOUS
  <1>3. e.dsp \in Dsps /\ e.value \in Int
    BY <1>1, <1>2, BootScriptIs, BootEntries
  <1>4. /\ remain' = remain /\ code' = code /\ streaming' = streaming
        /\ Booting /\ BootNext
    BY DEF BootWrite
  <1>5. \/ hpia' = [hpia EXCEPT ![e.dsp] = e.value] /\ runs' = runs /\ e.do = "address"
        \/ /\ e.do = "data" /\ hpia' = [hpia EXCEPT ![e.dsp] = @ + 1]
           /\ runs' = IF hpia[e.dsp] + 1 = 127 /\ e.value # 0
                      THEN [runs EXCEPT ![e.dsp] = e.value] ELSE runs
        \/ e.do = "control" /\ hpia' = hpia /\ runs' = runs
    BY <1>2 DEF BootWrite, Now, HpiWrite, EntryAddress
  <1>6. /\ ScriptInv'
        /\ \A n \in 1 .. 19 : Past(n)' <=> bootstep >= n
        /\ \A n \in 1 .. 19 : At(n)' <=> bootstep < 19 /\ bootstep + 1 = n
        /\ \A n \in 1 .. 19 : (Past(n) <=> bootstep > n) /\ (At(n) <=> bootstep = n)
    BY <1>4, NextPlace DEF BInv
  <1>7. /\ hpia' \in [Dsps -> Int] /\ runs' = [d \in Dsps |-> runs'[d]]
        /\ code' = [d \in Dsps |-> code'[d]]
    BY <1>3, <1>4, <1>5 DEF BInv
  <1>8. ASSUME NEW d \in Dsps
        PROVE  MemoryInv(d)'
    <2>1. /\ UploadOf[d] \in Uploads /\ UploadOf[d] - 2 \in Opens /\ UploadOf[d] - 1 \in 1 .. 19
          /\ UploadOf[d] \in 1 .. 19
      BY DEF UploadOf, Uploads, Opens, Dsps
    <2>2. PICK u : u = UploadOf[d]
      OBVIOUS
    <2>3. /\ ~Past(u - 1) => code[d] = <<>>
          /\ At(u - 1) => remain = FileBytes
          /\ Past(u) => Loaded(d)
      BY <2>2 DEF BInv, MemoryInv
    <2>4. bootstep # u /\ bootstep # u - 2
      BY <1>1, <2>1, <2>2 DEF Writes
    <2>5. u \in 1 .. 19 /\ u - 1 \in 1 .. 19
      BY <2>1, <2>2
    <2>6. ~Past(u - 1)' => code'[d] = <<>>
      <3>1. ~Past(u - 1)' => ~Past(u - 1)
        BY <1>1, <1>6, <2>5
      <3>2. QED
        BY <1>4, <2>3, <3>1
    <2>7. ~At(u - 1)'
      BY <1>1, <1>6, <2>4, <2>5
    <2>8. ASSUME At(u)'
          PROVE  Loading(d)'
      <3>1. bootstep = u - 1
        BY <1>1, <1>6, <2>5, <2>8
      <3>2. remain = FileBytes /\ code[d] = <<>>
        BY <1>1, <1>6, <2>3, <2>5, <3>1
      <3>3. e = Address(d, 127)
        BY <1>2, <2>2, <3>1, BootEntries DEF UploadOf, Dsps
      <3>4. hpia'[d] = 127
        BY <1>5, <3>3 DEF Address, BInv
      <3>5. code'[d] = LoadedBy(0)
        BY <1>4, <3>2 DEF LoadedBy
      <3>6. remain' = FileBytes - 30 * 0 /\ hpia'[d] = 127 + 15 * 0
        BY <1>4, <3>2, <3>4 DEF FileBytes
      <3>7. QED
        BY <3>5, <3>6 DEF Loading
    <2>9. ASSUME Past(u)'
          PROVE  Loaded(d)'
      <3>1. Past(u)
        BY <1>1, <1>6, <2>4, <2>5, <2>9
      <3>2. QED
        BY <1>4, <2>3, <3>1 DEF Loaded
    <2>10. QED
      BY <2>2, <2>6, <2>7, <2>8, <2>9 DEF MemoryInv, UploadOf
  <1>9. ASSUME NEW d \in Dsps
        PROVE  StartInv(d)'
    <2> DEFINE n == bootstep
    <2>1. StartInv(d)
      BY DEF BInv
    <2>2. hpia \in [Dsps -> Int] /\ runs = [c \in Dsps |-> runs[c]]
      BY DEF BInv
    <2>3. CASE d = "A"
      <3>1. (n = 11 \/ n = 12) => hpia'["A"] = 126
        <4>1. CASE n = 11
          BY <1>2, <1>5, <2>2, <2>3, <4>1, BootEntries DEF Address
        <4>2. CASE n = 12
          BY <1>1, <1>2, <1>5, <1>6, <2>1, <2>2, <2>3, <4>2, BootEntries DEF Address, StartInv
        <4>3. QED
          BY <4>1, <4>2
      <3>2. n = 13 => runs'["A"] = EntryOf("A")
        <4>1. SUFFICES ASSUME n = 13
                       PROVE  runs'["A"] = EntryOf("A")
          OBVIOUS
        <4>2. hpia["A"] = 126
          BY <1>1, <1>6, <2>1, <2>3, <4>1 DEF StartInv, StartOf
        <4>3. e.do = "data" /\ e.dsp = "A" /\ e.value = 129 /\ EntryOf("A") = 129
          BY <1>2, <4>1, BootEntries DEF Data, EntryOf, CodeStart
        <4>4. QED
          BY <1>5, <2>2, <2>3, <4>2, <4>3
      <3>3. n # 13 => runs'["A"] = runs["A"]
        BY <1>1, <1>2, <1>5, <2>2, <2>3, BootEntries DEF Data
      <3>4. QED
        BY <1>1, <1>6, <2>1, <2>3, <3>1, <3>2, <3>3 DEF StartInv, StartOf
    <2>4. CASE d = "B"
      <3>1. (n = 12 \/ n = 13) => hpia'["B"] = 126
        <4>1. CASE n = 12
          BY <1>2, <1>5, <2>2, <2>4, <4>1, BootEntries DEF Address
        <4>2. CASE n = 13
          BY <1>1, <1>2, <1>5, <1>6, <2>1, <2>2, <2>4, <4>2, BootEntries DEF Data, StartInv, StartOf
        <4>3. QED
          BY <4>1, <4>2
      <3>2. n = 14 => runs'["B"] = EntryOf("B")
        <4>1. SUFFICES ASSUME n = 14
                       PROVE  runs'["B"] = EntryOf("B")
          OBVIOUS
        <4>2. hpia["B"] = 126
          BY <1>1, <1>6, <2>1, <2>4, <4>1 DEF StartInv, StartOf
        <4>3. e.do = "data" /\ e.dsp = "B" /\ e.value = 130 /\ EntryOf("B") = 130
          BY <1>2, <4>1, BootEntries DEF Data, EntryOf, CodeStart
        <4>4. QED
          BY <1>5, <2>2, <2>4, <4>2, <4>3
      <3>3. n # 14 => runs'["B"] = runs["B"]
        BY <1>1, <1>2, <1>5, <2>2, <2>4, BootEntries DEF Data
      <3>4. QED
        BY <1>1, <1>6, <2>1, <2>4, <3>1, <3>2, <3>3 DEF StartInv, StartOf
    <2>5. QED
      BY <2>3, <2>4 DEF Dsps
  <1>10. QED
    BY <1>6, <1>7, <1>8, <1>9 DEF BInv

\* The place of the script does not move: what it says of the place stands.
LEMMA SamePlace ==
  ASSUME step' = step, bootstep' = bootstep
  PROVE  \A n \in 0 .. 19 : (Past(n)' <=> Past(n)) /\ (At(n)' <=> At(n))
  BY DEF Past, At

LEMMA OpenKeeps == ASSUME BInv, BootOpen PROVE BInv'
  <1>1. step = 3 /\ bootstep \in Opens /\ bootstep \in 1 .. 19
    <2>1. step = 3 /\ bootstep \in 1 .. 19
      BY BootPlace DEF BInv, BootOpen
    <2>2. QED
      BY <2>1, BootScriptIs DEF BootOpen, Now, Writes, Uploads, Opens
  <1>2. /\ remain' = FileBytes /\ hpia' = hpia /\ code' = code /\ runs' = runs
        /\ streaming' = streaming /\ Booting /\ BootNext
    BY DEF BootOpen, FileBytes, CodeEnd, CodeStart
  <1>3. /\ ScriptInv'
        /\ \A n \in 1 .. 19 : Past(n)' <=> bootstep >= n
        /\ \A n \in 1 .. 19 : At(n)' <=> bootstep < 19 /\ bootstep + 1 = n
        /\ \A n \in 1 .. 19 : (Past(n) <=> bootstep > n) /\ (At(n) <=> bootstep = n)
    BY <1>2, NextPlace DEF BInv
  <1>4. ASSUME NEW d \in Dsps
        PROVE  MemoryInv(d)'
    <2>1. PICK u : u = UploadOf[d]
      OBVIOUS
    <2>2. u \in Uploads /\ u \in 1 .. 19 /\ u - 1 \in 1 .. 19
      BY <2>1 DEF UploadOf, Uploads, Dsps
    <2>3. /\ ~Past(u - 1) => code[d] = <<>>
          /\ Past(u) => Loaded(d)
      BY <2>1 DEF BInv, MemoryInv
    <2>4. /\ Past(u - 1)' <=> Past(u - 1)
          /\ Past(u)' <=> Past(u)
          /\ ~At(u)'
      BY <1>1, <1>3, <2>2 DEF Opens, Uploads
    <2>5. Loaded(d)' <=> Loaded(d)
      BY <1>2 DEF Loaded
    <2>6. QED
      BY <1>2, <2>1, <2>3, <2>4, <2>5 DEF MemoryInv, UploadOf
  <1>5. ASSUME NEW d \in Dsps
        PROVE  StartInv(d)'
    <2>1. PICK n : n = StartOf[d]
      OBVIOUS
    <2>2. n \in {13, 14}
      BY <2>1 DEF StartOf, Dsps
    <2>3. (Past(n)' <=> Past(n)) /\ ~At(n)' /\ ~At(12)' /\ ~At(13)'
      BY <1>1, <1>3, <2>2 DEF Opens
    <2>4. runs[d] = IF Past(n) THEN EntryOf(d) ELSE 0
      BY <2>1 DEF BInv, StartInv
    <2>5. QED
      BY <1>2, <2>1, <2>3, <2>4 DEF StartInv, StartOf
  <1>6. QED
    BY <1>2, <1>3, <1>4, <1>5 DEF BInv

LEMMA UploadedKeeps == ASSUME BInv, BootUploaded PROVE BInv'
  <1>1. step = 3 /\ bootstep \in Uploads /\ bootstep \in 1 .. 19
    <2>1. step = 3 /\ bootstep \in 1 .. 19
      BY BootPlace DEF BInv, BootUploaded
    <2>2. QED
      BY <2>1, BootScriptIs DEF BootUploaded, Now, Writes, Uploads, Opens
  <1>2. /\ remain = 0 /\ remain' = remain /\ hpia' = hpia /\ code' = code /\ runs' = runs
        /\ streaming' = streaming /\ Booting /\ BootNext
    BY DEF BootUploaded
  <1>3. /\ ScriptInv'
        /\ \A n \in 1 .. 19 : Past(n)' <=> bootstep >= n
        /\ \A n \in 1 .. 19 : At(n)' <=> bootstep < 19 /\ bootstep + 1 = n
        /\ \A n \in 1 .. 19 : (Past(n) <=> bootstep > n) /\ (At(n) <=> bootstep = n)
    BY <1>2, NextPlace DEF BInv
  <1>4. ASSUME NEW d \in Dsps
        PROVE  MemoryInv(d)'
    <2>1. PICK u : u = UploadOf[d]
      OBVIOUS
    <2>2. u \in Uploads /\ u \in 1 .. 19 /\ u - 1 \in 1 .. 19
      BY <2>1 DEF UploadOf, Uploads, Dsps
    <2>3. /\ ~Past(u - 1) => code[d] = <<>>
          /\ Past(u) => Loaded(d)
          /\ At(u) => Loading(d)
      BY <2>1 DEF BInv, MemoryInv
    <2>4. /\ ~Past(u - 1)' => ~Past(u - 1)
          /\ Past(u)' => Past(u) \/ At(u)
          /\ ~At(u - 1)' /\ ~At(u)'
      BY <1>1, <1>3, <2>2 DEF Uploads
    <2>5. At(u) => Loaded(d)
      BY <1>2, <2>3 DEF Loading, FileBytes
    <2>6. Loaded(d)' <=> Loaded(d)
      BY <1>2 DEF Loaded
    <2>7. QED
      BY <1>2, <2>1, <2>3, <2>4, <2>5, <2>6 DEF MemoryInv, UploadOf
  <1>5. ASSUME NEW d \in Dsps
        PROVE  StartInv(d)'
    <2>1. PICK n : n = StartOf[d]
      OBVIOUS
    <2>2. n \in {13, 14}
      BY <2>1 DEF StartOf, Dsps
    <2>3. (Past(n)' <=> Past(n)) /\ ~At(n)' /\ ~At(12)' /\ ~At(13)'
      BY <1>1, <1>3, <2>2 DEF Uploads
    <2>4. runs[d] = IF Past(n) THEN EntryOf(d) ELSE 0
      BY <2>1 DEF BInv, StartInv
    <2>5. QED
      BY <1>2, <2>1, <2>3, <2>4 DEF StartInv, StartOf
  <1>6. QED
    BY <1>2, <1>3, <1>4, <1>5 DEF BInv

LEMMA RunIs ==
  ASSUME NEW x
  PROVE  /\ RunTo(x)[1] = 128 /\ RunTo(x)[2] = 128 /\ RunTo(x)[3] = x
         /\ \A z : [RunTo(x) EXCEPT ![3] = z] = RunTo(z)
         /\ LastRun[2] = 8167 /\ LastRun[3] = 8190
  BY DEF RunTo, LastRun

LEMMA AppendOne == ASSUME NEW y, NEW z PROVE Append(<<y>>, z) = <<y, z>>
  <1>1. <<y>> \in Seq({y, z}) /\ <<y, z>> \in Seq({y, z}) /\ Len(<<y>>) = 1 /\ <<y>>[1] = y
    OBVIOUS
  <1>2. PICK t : t = Append(<<y>>, z)
    OBVIOUS
  <1>3. t \in Seq({y, z}) /\ Len(t) = 2 /\ t[2] = z /\ t[1] = y
    BY <1>1, <1>2, AppendProperties
  <1>4. t = <<y, z>>
    BY <1>1, <1>3, SeqEqual
  <1>5. QED
    BY <1>2, <1>4

\* A message with a part of the file: the run of bytes goes on, but at the last message.
LEMMA LoadStep ==
  ASSUME NEW d \in Dsps, Loading(d), remain > 0,
         hpia \in [Dsps -> Int], code = [c \in Dsps |-> code[c]],
         HpiLoad(d, FirstByte, FirstByte + BytesSent - 1),
         remain' = IF remain >= USBDATALEN THEN remain - (USBDATALEN - 1) ELSE 0
  PROVE  /\ Loading(d)'
         /\ hpia' \in [Dsps -> Int] /\ code' = [c \in Dsps |-> code'[c]]
         /\ \A c \in Dsps \ {d} : hpia'[c] = hpia[c] /\ code'[c] = code[c]
  <1>1. PICK k \in 0 .. 268 : /\ remain = FileBytes - 30 * k /\ hpia[d] = 127 + 15 * k
                              /\ code[d] = LoadedBy(k)
    <2>1. remain # 0
      OBVIOUS
    <2>2. QED
      BY <2>1, Zenon DEF Loading
  <1>2. PICK first, last : first = FirstByte /\ last = FirstByte + BytesSent - 1
    OBVIOUS
  <1>3. /\ k < 268 => /\ first = 128 + 30 * k /\ last = 157 + 30 * k
                      /\ remain' = FileBytes - 30 * (k + 1)
        /\ k = 268 => first = 8167 /\ last = 8190 /\ remain' = 0
    BY <1>1, <1>2 DEF FirstByte, BytesSent, FileBytes, USBDATALEN, CodeEnd
  <1>4. first \in Int /\ last \in Int /\ last - first \in Int
    BY <1>1, <1>3
  <1>5. /\ hpia' = [hpia EXCEPT ![d] = @ + (last - first + 1) \div 2]
        /\ code' = [code EXCEPT ![d] =
              IF Len(code[d]) > 0 /\ code[d][Len(code[d])][3] = first - 1
              THEN [code[d] EXCEPT ![Len(code[d])][3] = last]
              ELSE Append(code[d], <<hpia[d] + 1, first, last>>)]
    BY <1>2 DEF HpiLoad
  <1>6. (last - first + 1) \div 2 \in Int
    BY <1>4
  <1>7. /\ hpia' \in [Dsps -> Int] /\ code' = [c \in Dsps |-> code'[c]]
        /\ \A c \in Dsps \ {d} : hpia'[c] = hpia[c] /\ code'[c] = code[c]
    <2>1. PICK x : code' = [code EXCEPT ![d] = x]
      BY <1>5, Zenon
    <2>2. PICK y \in Int : hpia' = [hpia EXCEPT ![d] = @ + y]
      BY <1>5, <1>6
    <2>3. /\ code' = [c \in Dsps |-> code'[c]]
          /\ \A c \in Dsps \ {d} : code'[c] = code[c]
      BY <2>1
    <2>4. /\ hpia' \in [Dsps -> Int]
          /\ \A c \in Dsps \ {d} : hpia'[c] = hpia[c]
      BY <2>2
    <2>5. QED
      BY <2>3, <2>4
  <1>8. /\ hpia'[d] = hpia[d] + (last - first + 1) \div 2
        /\ code'[d] = IF Len(code[d]) > 0 /\ code[d][Len(code[d])][3] = first - 1
                      THEN [code[d] EXCEPT ![Len(code[d])][3] = last]
                      ELSE Append(code[d], <<hpia[d] + 1, first, last>>)
    BY <1>5
  <1>9. CASE k = 0
    <2>1. code[d] = <<>> /\ first = 128 /\ last = 157 /\ hpia[d] = 127
      BY <1>1, <1>3, <1>9 DEF LoadedBy
    <2>2. code'[d] = <<RunTo(157)>> /\ hpia'[d] = 142
      <3>1. /\ code'[d] = Append(<<>>, <<hpia[d] + 1, first, last>>)
            /\ hpia'[d] = hpia[d] + (last - first + 1) \div 2
        BY <1>8, <2>1
      <3>2. <<hpia[d] + 1, first, last>> = RunTo(157)
        BY <2>1 DEF RunTo
      <3>3. code'[d] = <<RunTo(157)>>
        BY <3>1, <3>2
      <3>4. QED
        BY <2>1, <3>1, <3>3
    <2>3. LoadedBy(1) = <<RunTo(157)>>
      BY DEF LoadedBy
    <2>4. code'[d] = LoadedBy(1) /\ hpia'[d] = 127 + 15 * 1 /\ remain' = FileBytes - 30 * 1
      BY <1>3, <1>9, <2>2, <2>3
    <2>5. Loading(d)'
      BY <2>4 DEF Loading
    <2>6. QED
      BY <1>7, <2>5, Zenon
  <1>10. CASE k \in 1 .. 267
    <2>1. PICK x \in Int : x = 127 + 30 * k
      BY <1>10
    <2>2. code[d] = <<RunTo(x)>>
      <3>1. k # 0
        BY <1>10
      <3>2. QED
        BY <1>1, <2>1, <3>1, Zenon DEF LoadedBy
    <2>3. Len(code[d]) = 1 /\ code[d][1] = RunTo(x) /\ code[d][1][3] = x
      <3>1. PICK y : y = RunTo(x)
        OBVIOUS
      <3>2. code[d] = <<y>>
        BY <2>2, <3>1
      <3>3. Len(code[d]) = 1 /\ code[d][1] = y
        BY <3>2
      <3>4. y[3] = x
        BY <3>1, RunIs
      <3>5. QED
        BY <3>1, <3>3, <3>4
    <2>4. first - 1 = x /\ last = x + 30
      BY <1>3, <1>10, <2>1
    <2>5. code'[d] = [code[d] EXCEPT ![1][3] = x + 30]
      <3>1. PICK n : n = Len(code[d])
        OBVIOUS
      <3>2. n = 1 /\ n > 0
        BY <2>3, <3>1
      <3>3. code[d][n][3] = first - 1
        BY <2>3, <2>4, <3>2, Zenon
      <3>4. code'[d] = [code[d] EXCEPT ![n][3] = last]
        BY <1>8, <3>1, <3>2, <3>3, Zenon
      <3>5. QED
        BY <2>4, <3>2, <3>4
    <2>6. code'[d] = <<RunTo(x + 30)>>
      <3>1. [RunTo(x) EXCEPT ![3] = x + 30] = RunTo(x + 30)
        BY RunIs
      <3>2. PICK y, z : y = RunTo(x) /\ z = RunTo(x + 30)
        OBVIOUS
      <3>3. code'[d] = [<<y>> EXCEPT ![1] = [y EXCEPT ![3] = x + 30]]
        BY <2>2, <2>5, <3>2
      <3>4. QED
        BY <3>1, <3>2, <3>3
    <2>7. hpia'[d] = 127 + 15 * (k + 1)
      <3>1. (last - first + 1) \div 2 = 15
        BY <1>3, <1>10
      <3>2. hpia'[d] = hpia[d] + 15
        BY <1>8, <3>1
      <3>3. QED
        BY <1>1, <3>2
    <2>8. code'[d] = LoadedBy(k + 1)
      <3>1. k + 1 # 0 /\ x + 30 = 127 + 30 * (k + 1)
        BY <2>1
      <3>2. QED
        BY <2>6, <3>1, Zenon DEF LoadedBy
    <2>9. QED
      <3>1. k + 1 \in 0 .. 268
        BY <1>10
      <3>2. remain' = FileBytes - 30 * (k + 1)
        BY <1>3, <1>10
      <3>3. Loading(d)'
        BY <2>7, <2>8, <3>1, <3>2, Zenon DEF Loading
      <3>4. QED
        BY <1>7, <3>3, Zenon
  <1>11. CASE k = 268
    <2>1. code[d] = <<RunTo(8167)>> /\ hpia[d] = 4147
      <3>1. LoadedBy(268) = <<RunTo(8167)>>
        BY DEF LoadedBy
      <3>2. QED
        BY <1>1, <1>11, <3>1
    <2>2. Len(code[d]) = 1 /\ code[d][1] = RunTo(8167) /\ code[d][1][3] = 8167
      <3>1. PICK y : y = RunTo(8167)
        OBVIOUS
      <3>2. code[d] = <<y>>
        BY <2>1, <3>1
      <3>3. Len(code[d]) = 1 /\ code[d][1] = y
        BY <3>2
      <3>4. y[3] = 8167
        BY <3>1, RunIs
      <3>5. QED
        BY <3>1, <3>3, <3>4
    <2>3. code'[d] = Append(code[d], LastRun)
      <3>1. code[d][Len(code[d])][3] # first - 1
        <4>1. code[d][Len(code[d])][3] = 8167
          <5>1. PICK n, q : n = Len(code[d]) /\ q = code[d][1][3]
            OBVIOUS
          <5>2. n = 1
            BY <2>2, <5>1
          <5>3. q = 8167
            BY <2>2, <5>1
          <5>4. code[d][n][3] = q
            BY <5>1, <5>2, Zenon
          <5>5. code[d][Len(code[d])][3] = q
            BY <5>1, <5>4, Zenon
          <5>6. QED
            BY <5>3, <5>5
        <4>2. first = 8167
          BY <1>3, <1>11
        <4>3. QED
          BY <4>1, <4>2
      <3>2. code'[d] = Append(code[d], <<hpia[d] + 1, first, last>>)
        BY <1>8, <3>1, Zenon
      <3>3. <<hpia[d] + 1, first, last>> = LastRun
        BY <1>3, <1>11, <2>1 DEF LastRun
      <3>4. QED
        BY <3>2, <3>3
    <2>4. Loaded(d)'
      BY <2>1, <2>3, AppendOne DEF Loaded
    <2>5. remain' = 0
      BY <1>3, <1>11
    <2>6. Loading(d)'
      BY <2>4, <2>5, Zenon DEF Loading
    <2>7. QED
      BY <1>7, <2>6, Zenon
  <1>12. QED
    BY <1>9, <1>10, <1>11

LEMMA UploadKeeps == ASSUME BInv, BootUpload PROVE BInv'
  <1>1. step = 3 /\ bootstep \in Uploads /\ bootstep \in 1 .. 19
    <2>1. step = 3 /\ bootstep \in 1 .. 19
      BY BootPlace DEF BInv, BootUpload
    <2>2. QED
      BY <2>1, BootScriptIs DEF BootUpload, Now, Writes, Uploads, Opens
  <1>2. PICK d \in Dsps : d = BootScript[bootstep].dsp
    BY <1>1, BootScriptIs
  <1>3. UploadOf[d] = bootstep /\ \A c \in Dsps \ {d} : UploadOf[c] # bootstep
    BY <1>1, <1>2, BootEntries DEF UploadOf, Uploads, Dsps
  <1>4. /\ step' = step /\ bootstep' = bootstep /\ runs' = runs /\ streaming' = streaming
        /\ HpiLoad(d, FirstByte, FirstByte + BytesSent - 1) /\ remain > 0
        /\ remain' = IF remain >= USBDATALEN THEN remain - (USBDATALEN - 1) ELSE 0
    BY <1>2 DEF BootUpload, Now
  <1>5. \A n \in 0 .. 19 : (Past(n)' <=> Past(n)) /\ (At(n)' <=> At(n))
    BY <1>4, SamePlace
  <1>6. \A n \in 1 .. 19 : (Past(n) <=> bootstep > n) /\ (At(n) <=> bootstep = n)
    BY <1>1 DEF Past, At
  <1>7. Loading(d)
    BY <1>1, <1>3, <1>6 DEF BInv, MemoryInv
  <1>8. /\ Loading(d)'
        /\ hpia' \in [Dsps -> Int] /\ code' = [c \in Dsps |-> code'[c]]
        /\ \A c \in Dsps \ {d} : hpia'[c] = hpia[c] /\ code'[c] = code[c]
    BY <1>4, <1>7, LoadStep DEF BInv
  <1>9. ASSUME NEW c \in Dsps
        PROVE  MemoryInv(c)'
    <2>1. PICK u : u = UploadOf[c]
      OBVIOUS
    <2>2. u \in Uploads /\ u \in 1 .. 19 /\ u - 1 \in 1 .. 19
      BY <2>1 DEF UploadOf, Uploads, Dsps
    <2>3. /\ ~Past(u - 1) => code[c] = <<>>
          /\ Past(u) => Loaded(c)
      BY <2>1 DEF BInv, MemoryInv
    <2>4. CASE c = d
      <3>1. Past(u - 1)' /\ ~At(u - 1)' /\ ~Past(u)'
        BY <1>1, <1>3, <1>5, <1>6, <2>1, <2>2, <2>4
      <3>2. QED
        BY <1>8, <2>1, <2>4, <3>1 DEF MemoryInv, UploadOf
    <2>5. CASE c # d
      <3>1. code'[c] = code[c] /\ u # bootstep
        BY <1>3, <1>8, <2>1, <2>5
      <3>2. Loaded(c)' <=> Loaded(c)
        BY <3>1 DEF Loaded
      <3>3. ~At(u)' /\ ~At(u - 1)'
        BY <1>1, <1>5, <1>6, <2>2, <3>1 DEF Uploads
      <3>4. (Past(u)' <=> Past(u)) /\ (Past(u - 1)' <=> Past(u - 1))
        BY <1>5, <2>2
      <3>5. QED
        BY <2>1, <2>3, <3>1, <3>2, <3>3, <3>4 DEF MemoryInv, UploadOf
    <2>6. QED
      BY <2>4, <2>5
  <1>10. ASSUME NEW c \in Dsps
         PROVE  StartInv(c)'
    <2>1. PICK n : n = StartOf[c]
      OBVIOUS
    <2>2. n \in {13, 14}
      BY <2>1 DEF StartOf, Dsps
    <2>3. (Past(n)' <=> Past(n)) /\ ~At(n)' /\ ~At(12)' /\ ~At(13)'
      BY <1>1, <1>5, <1>6, <2>2 DEF Uploads
    <2>4. runs[c] = IF Past(n) THEN EntryOf(c) ELSE 0
      BY <2>1 DEF BInv, StartInv
    <2>5. QED
      BY <1>4, <2>1, <2>3, <2>4 DEF StartInv, StartOf
  <1>11. ScriptInv'
    BY <1>1, <1>4 DEF BInv, ScriptInv
  <1>12. QED
    BY <1>4, <1>8, <1>9, <1>10, <1>11 DEF BInv

\* A step of wf_init, which the two DSPs have no part in.
LEMMA InitKeeps == ASSUME BInv, InitStep PROVE BInv'
  <1>1. /\ remain' = remain /\ hpia' = hpia /\ code' = code /\ runs' = runs
        /\ bootstep' = bootstep /\ bootstep = 1 /\ step # 3 /\ step \in 1 .. 22
    <2>1. step # 3
      BY InitScriptIs DEF InitStep, Booting
    <2>2. QED
      BY <2>1 DEF InitStep, BInv, ScriptInv
  <1>2. /\ \/ step' = step /\ streaming' = streaming
           \/ /\ step <= 21 /\ step' = step + 1
              /\ streaming' = (streaming \/ InitScript[step] = "r1")
    <2>1. step > Len(InitScript) => step' = step /\ streaming' = streaming
      BY DEF InitStep
    <2>2. ~(step > Len(InitScript)) =>
             step' = step + 1 /\ streaming' = (streaming \/ InitScript[step] = "r1")
      BY DEF InitStep
    <2>3. step <= 21 <=> ~(step > Len(InitScript))
      BY <1>1, InitScriptIs
    <2>4. QED
      BY <2>1, <2>2, <2>3
  <1>3. ScriptInv'
    <2>1. CASE step' = step /\ streaming' = streaming
      BY <1>1, <2>1 DEF BInv, ScriptInv
    <2>2. CASE /\ step <= 21 /\ step' = step + 1
               /\ streaming' = (streaming \/ InitScript[step] = "r1")
      <3>1. InitScript[step] = "r1" <=> step = 11
        BY <1>1, <2>2, InitScriptIs
      <3>2. (streaming \in BOOLEAN)'
        BY <2>2
      <3>3. streaming => step > 3
        BY DEF BInv, ScriptInv
      <3>4. streaming' => step' > 3
        <4>1. CASE streaming
          BY <1>1, <2>2, <3>3, <4>1
        <4>2. CASE InitScript[step] = "r1"
          BY <1>1, <2>2, <3>1, <4>2
        <4>3. QED
          BY <2>2, <4>1, <4>2, Zenon
      <3>5. step' \in 1 .. 22 /\ bootstep' = 1
        BY <1>1, <2>2
      <3>6. QED
        BY <3>2, <3>4, <3>5 DEF ScriptInv
    <2>3. QED
      BY <1>2, <2>1, <2>2
  <1>4. /\ \A n \in 1 .. 19 : Past(n)' <=> Past(n)
        /\ \A n \in 2 .. 19 : ~At(n)'
    BY <1>1, <1>2 DEF Past, At
  <1>5. ASSUME NEW d \in Dsps
        PROVE  MemoryInv(d)'
    <2>1. PICK u : u = UploadOf[d]
      OBVIOUS
    <2>2. u \in 2 .. 19 /\ u - 1 \in 2 .. 19 /\ u \in 1 .. 19 /\ u - 1 \in 1 .. 19
      BY <2>1 DEF UploadOf, Dsps
    <2>3. /\ ~Past(u - 1) => code[d] = <<>>
          /\ Past(u) => Loaded(d)
      BY <2>1 DEF BInv, MemoryInv
    <2>4. Loaded(d)' <=> Loaded(d)
      BY <1>1 DEF Loaded
    <2>5. (Past(u)' <=> Past(u)) /\ (Past(u - 1)' <=> Past(u - 1)) /\ ~At(u)' /\ ~At(u - 1)'
      BY <1>4, <2>2
    <2>6. QED
      BY <1>1, <2>1, <2>3, <2>4, <2>5 DEF MemoryInv, UploadOf
  <1>6. ASSUME NEW d \in Dsps
        PROVE  StartInv(d)'
    <2>1. PICK n : n = StartOf[d]
      OBVIOUS
    <2>2. n \in {13, 14}
      BY <2>1 DEF StartOf, Dsps
    <2>3. (Past(n)' <=> Past(n)) /\ ~At(n)' /\ ~At(12)' /\ ~At(13)'
      BY <1>4, <2>2
    <2>4. runs[d] = IF Past(n) THEN EntryOf(d) ELSE 0
      BY <2>1 DEF BInv, StartInv
    <2>5. QED
      BY <1>1, <2>1, <2>3, <2>4 DEF StartInv, StartOf
  <1>7. QED
    BY <1>1, <1>3, <1>5, <1>6 DEF BInv

LEMMA BootInit == BInit => BInv
  <1> SUFFICES ASSUME BInit
               PROVE  BInv
    OBVIOUS
  <1>1. step = 1 /\ bootstep = 1
    BY DEF BInit
  <1>2. \A n \in 1 .. 19 : ~Past(n) /\ ~At(n)
    BY <1>1 DEF Past, At
  <1>3. ASSUME NEW d \in Dsps
        PROVE  MemoryInv(d) /\ StartInv(d)
    <2>1. PICK u, n : u = UploadOf[d] /\ n = StartOf[d]
      OBVIOUS
    <2>2. u \in 1 .. 19 /\ u - 1 \in 1 .. 19 /\ n \in {13, 14}
      BY <2>1 DEF UploadOf, StartOf, Dsps
    <2>3. ~Past(u) /\ ~Past(u - 1) /\ ~At(u) /\ ~At(u - 1) /\ ~Past(n) /\ ~At(n) /\ ~At(12) /\ ~At(13)
      BY <1>2, <2>2
    <2>4. code[d] = <<>> /\ runs[d] = 0
      BY DEF BInit
    <2>5. QED
      BY <2>1, <2>3, <2>4 DEF MemoryInv, StartInv, UploadOf, StartOf
  <1>4. ScriptInv
    <2>1. streaming = FALSE
      BY DEF BInit
    <2>2. QED
      <3>1. streaming \in BOOLEAN /\ ~streaming
        BY <2>1
      <3>2. QED
        BY <1>1, <3>1 DEF ScriptInv
  <1>5. /\ hpia \in [Dsps -> Int] /\ runs = [d \in Dsps |-> runs[d]]
        /\ code = [d \in Dsps |-> code[d]]
    BY DEF BInit
  <1>6. QED
    BY <1>3, <1>4, <1>5 DEF BInv

LEMMA BootKeeps == BInv /\ [BNext]_bvars => BInv'
  <1> SUFFICES ASSUME BInv, [BNext]_bvars
               PROVE  BInv'
    OBVIOUS
  <1>1. CASE UNCHANGED <<step, bootstep, remain, hpia, code, runs, streaming, timing>>
    BY <1>1 DEF BInv, ScriptInv, MemoryInv, StartInv, Past, At, Loading, Loaded
  <1>2. CASE BootWrite
    BY <1>2, WriteKeeps
  <1>3. CASE BootOpen
    BY <1>3, OpenKeeps
  <1>4. CASE BootUpload
    BY <1>4, UploadKeeps
  <1>5. CASE BootUploaded
    BY <1>5, UploadedKeeps
  <1>6. CASE InitStep
    BY <1>6, InitKeeps
  <1>7. QED
    BY <1>1, <1>2, <1>3, <1>4, <1>5, <1>6
       DEF BNext, BootOpenFails, MessageFails, Interrupt, bvars

\* The bytes of the full messages stay at their place, as the last run is beyond them.
LEMMA LoadedInMemory ==
  ASSUME NEW d \in Dsps, Loaded(d)
  PROVE  InMemory(d, CodeStart, LastFull)
  <1>1. PICK y, z : y = RunTo(8167) /\ z = LastRun
    OBVIOUS
  <1>2. y[1] = 128 /\ y[2] = 128 /\ y[3] = 8167 /\ z[1] = 4148
    BY <1>1, RunIs DEF LastRun
  <1>3. Len(code[d]) = 2 /\ DOMAIN code[d] = 1 .. 2 /\ code[d][1] = y /\ code[d][2] = z
    BY <1>1 DEF Loaded
  <1>4. LastFull = 8167
    BY DEF LastFull, USBDATALEN, CodeStart, CodeEnd
  <1>5. ASSUME NEW j \in 2 .. Len(code[d])
        PROVE  2 * (code[d][j][1] - CodeStart) > LastFull - CodeStart
    <2>1. j = 2
      BY <1>3
    <2>2. QED
      BY <1>2, <1>3, <1>4, <2>1 DEF CodeStart
  <1>6. 1 \in DOMAIN code[d] /\ 1 + 1 = 2
    BY <1>3
  <1>7. /\ 2 * (code[d][1][1] - CodeStart) = code[d][1][2] - CodeStart
        /\ code[d][1][2] <= CodeStart /\ LastFull <= code[d][1][3]
    BY <1>2, <1>3, <1>4 DEF CodeStart
  <1>8. QED
    BY <1>5, <1>6, <1>7 DEF InMemory

LEMMA InvStarts == BInv => StartsLoaded
  <1> SUFFICES ASSUME BInv
               PROVE  StartsLoaded
    OBVIOUS
  <1>1. ASSUME NEW d \in Dsps, runs[d] # 0
        PROVE  runs[d] = EntryOf(d) /\ Loaded(d)
    <2>1. runs[d] = EntryOf(d) /\ Past(StartOf[d])
      BY <1>1 DEF BInv, StartInv
    <2>2. Past(UploadOf[d])
      BY <2>1 DEF Past, UploadOf, StartOf, Dsps, BInv, ScriptInv
    <2>3. QED
      BY <2>1, <2>2 DEF BInv, MemoryInv
  <1>2. ASSUME streaming, NEW d \in Dsps
        PROVE  runs[d] # 0
    <2>1. Past(StartOf[d])
      BY <1>2 DEF BInv, ScriptInv, Past
    <2>2. EntryOf(d) # 0
      BY DEF EntryOf, CodeStart
    <2>3. QED
      BY <2>1, <2>2 DEF BInv, StartInv
  <1>3. QED
    BY <1>1, <1>2, LoadedInMemory DEF StartsLoaded

\* A DSP runs from the entry point of its own file, with the 8040 bytes that the full messages
\* carry of that file each at its place, and the device streams only after both run.  It says
\* nothing of the 24 bytes of the short message, which come one late (wfinit.c).
THEOREM DspsStartLoaded == BSpec => []StartsLoaded
  <1>1. BSpec => []BInv
    BY BootInit, BootKeeps, PTL DEF BSpec
  <1>2. QED
    BY <1>1, InvStarts, PTL

=============================================================================
