----------------------- MODULE WaveFinderDriverProofs -----------------------
(***************************************************************************)
(* Theorems about WaveFinderDriver, for any number of tasks, URBs, packets *)
(* per URB and for any stream.                                             *)
(***************************************************************************)
EXTENDS WaveFinderDriver, SequenceTheorems, TLAPS

LEMMA SlotsNat == Slots \in Nat \ {0}
  BY SizesAssumption, SMT DEF Slots

LEMMA StreamLen == Len(Stream) \in Nat
  BY StreamAssumption, LenProperties

LEMMA NoPackets == <<>> \in Seq(Packets)
  BY EmptySeq

LEMMA ReadAt == BufOK => \A o \in Nat : At(o) \in Packets
  BY SlotsNat, StreamLen DEF BufOK, At, Packets

\* Each part of TypeOK depends on one group of variables only.
LEMMA Frame ==
  /\ DevOK /\ UNCHANGED devVars => DevOK'
  /\ BufOK /\ UNCHANGED bufVars => BufOK'
  /\ UrbOK /\ UNCHANGED urbVars => UrbOK'
  /\ TaskOK /\ UNCHANGED taskVars => TaskOK'
  /\ UsbOK /\ UNCHANGED usbVars => UsbOK'
  /\ IrqOK /\ UNCHANGED irqVars => IrqOK'
  /\ DiscOK /\ UNCHANGED discVars => DiscOK'
  /\ HistOK /\ UNCHANGED histVars => HistOK'
  BY DEF DevOK, BufOK, UrbOK, TaskOK, UsbOK, IrqOK, DiscOK, HistOK,
         devVars, bufVars, urbVars, taskVars, usbVars, irqVars, discVars, histVars

LEMMA TypeInit == Init => TypeOK
  <1> SUFFICES ASSUME Init PROVE TypeOK
    OBVIOUS
  <1> USE SizesAssumption, SlotsNat, StreamLen DEF Init, Urbs, Packets
  <1>1. DevOK
    BY DEF DevOK
  <1>2. BufOK
    BY DEF BufOK
  <1>3. UrbOK
    BY DEF UrbOK
  <1>4. TaskOK
    BY DEF TaskOK, TaskPcs, OpenPcs, IoctlPcs, ReadPcs, ReleasePcs, OopsPcs
  <1>5. UsbOK
    BY DEF UsbOK
  <1>6. IrqOK
    BY DEF IrqOK, HandlerPcs
  <1>7. DiscOK
    BY DEF DiscOK, DiscPcs
  <1>8. HistOK
    BY NoPackets DEF HistOK
  <1>9. QED
    BY <1>1, <1>2, <1>3, <1>4, <1>5, <1>6, <1>7, <1>8 DEF TypeOK

LEMMA TypeNext == TypeOK /\ [Next]_vars => TypeOK'
  <1> SUFFICES ASSUME DevOK, BufOK, UrbOK, TaskOK, UsbOK, IrqOK, DiscOK, HistOK,
                      Next \/ UNCHANGED vars
               PROVE TypeOK'
    BY DEF TypeOK
  <1> USE SizesAssumption, SlotsNat, StreamLen DEF Urbs
  <1>1. ASSUME NEW p \in Procs, OpenLookup(p) PROVE TypeOK'
    <2>1. TaskOK'
      BY <1>1 DEF OpenLookup, Goto, intfdata, TaskOK, TaskPcs, OpenPcs, IoctlPcs, ReadPcs, ReleasePcs, OopsPcs
    <2>2. QED
      BY <1>1, <2>1, Frame DEF OpenLookup, TypeOK
  <1>2. ASSUME NEW p \in Procs, OpenLock(p) PROVE TypeOK'
    <2>1. DevOK'
      BY <1>2 DEF OpenLock, Goto, DevOK
    <2>2. TaskOK'
      BY <1>2 DEF OpenLock, Goto, TaskOK, TaskPcs, OpenPcs, IoctlPcs, ReadPcs, ReleasePcs, OopsPcs
    <2>3. QED
      BY <1>2, <2>1, <2>2, Frame DEF OpenLock, TypeOK
  <1>3. ASSUME NEW p \in Procs, OpenReset(p) PROVE TypeOK'
    <2>1. BufOK'
      BY <1>3 DEF OpenReset, Goto, BufOK, Packets
    <2>2. UrbOK'
      BY <1>3 DEF OpenReset, Goto, UrbOK, Urbs
    <2>3. TaskOK'
      BY <1>3 DEF OpenReset, Goto, TaskOK, TaskPcs, OpenPcs, IoctlPcs, ReadPcs, ReleasePcs, OopsPcs
    <2>4. HistOK'
      BY <1>3, NoPackets DEF OpenReset, HistOK
    <2>5. QED
      BY <1>3, <2>1, <2>2, <2>3, <2>4, Frame DEF OpenReset, TypeOK
  <1>4. ASSUME NEW p \in Procs, IoctlEnter(p) PROVE TypeOK'
    <2>1. TaskOK'
      BY <1>4 DEF IoctlEnter, Goto, TaskOK, TaskPcs, OpenPcs, IoctlPcs, ReadPcs, ReleasePcs, OopsPcs
    <2>2. QED
      BY <1>4, <2>1, Frame DEF IoctlEnter, TypeOK
  <1>5. ASSUME NEW p \in Procs, IoctlLock(p) PROVE TypeOK'
    <2>1. DevOK'
      BY <1>5 DEF IoctlLock, Goto, DevOK
    <2>2. TaskOK'
      BY <1>5 DEF IoctlLock, Goto, TaskOK, TaskPcs, OpenPcs, IoctlPcs, ReadPcs, ReleasePcs, OopsPcs
    <2>3. QED
      BY <1>5, <2>1, <2>2, Frame DEF IoctlLock, TypeOK
  <1>6. ASSUME NEW p \in Procs, IoctlSend(p) PROVE TypeOK'
    <2>1. DevOK'
      BY <1>6 DEF IoctlSend, Goto, DevOK
    <2>2. TaskOK'
      BY <1>6 DEF IoctlSend, Goto, TaskOK, TaskPcs, OpenPcs, IoctlPcs, ReadPcs, ReleasePcs, OopsPcs
    <2>3. QED
      BY <1>6, <2>1, <2>2, Frame DEF IoctlSend, TypeOK
  <1>7. ASSUME NEW p \in Procs, ReadEnter(p) PROVE TypeOK'
    <2>1. TaskOK'
      BY <1>7 DEF ReadEnter, Goto, TaskOK, TaskPcs, OpenPcs, IoctlPcs, ReadPcs, ReleasePcs, OopsPcs
    <2>2. QED
      BY <1>7, <2>1, Frame DEF ReadEnter, TypeOK
  <1>8. ASSUME NEW p \in Procs, ReadDone(p) PROVE TypeOK'
    <2>1. TaskOK'
      BY <1>8 DEF ReadDone, ReadReturn, Goto, TaskOK, TaskPcs, OpenPcs, IoctlPcs, ReadPcs, ReleasePcs, OopsPcs
    <2>2. QED
      BY <1>8, <2>1, Frame DEF ReadDone, TypeOK
  <1>9. ASSUME NEW p \in Procs, ReadLock(p) PROVE TypeOK'
    <2>1. TaskOK'
      <3>1. CASE pc' = [pc EXCEPT ![p] = "rd_state"] /\ cnt' = cnt
        BY <1>9, <3>1 DEF ReadLock, TaskOK, TaskPcs, OpenPcs, IoctlPcs, ReadPcs, ReleasePcs, OopsPcs
      <3>2. ASSUME NEW n \in 1 .. want[p],
                   pc' = [pc EXCEPT ![p] = "rd_copy"] /\ cnt' = [cnt EXCEPT ![p] = n]
            PROVE TaskOK'
        BY <1>9, <3>2 DEF ReadLock, TaskOK, TaskPcs, OpenPcs, IoctlPcs, ReadPcs, ReleasePcs, OopsPcs
      <3> DEFINE rem == count - readptr
                 n   == IF want[p] >= rem THEN rem ELSE want[p]
      <3>3. n > 0 => n \in 1 .. want[p]
        BY DEF BufOK, TaskOK
      <3>4. \/ pc' = [pc EXCEPT ![p] = "rd_state"] /\ cnt' = cnt
            \/ n > 0 /\ pc' = [pc EXCEPT ![p] = "rd_copy"] /\ cnt' = [cnt EXCEPT ![p] = n]
        BY <1>9 DEF ReadLock, Goto, BufOK, TaskOK
      <3> HIDE DEF n
      <3>5. QED
        BY <3>1, <3>2, <3>3, <3>4
    <2>2. QED
      BY <1>9, <2>1, Frame DEF ReadLock, TypeOK
  <1>10. ASSUME NEW p \in Procs, ReadSetState(p) PROVE TypeOK'
    <2>1. TaskOK'
      BY <1>10 DEF ReadSetState, Goto, TaskOK, TaskPcs, OpenPcs, IoctlPcs, ReadPcs, ReleasePcs, OopsPcs
    <2>2. QED
      BY <1>10, <2>1, Frame DEF ReadSetState, TypeOK
  <1>11. ASSUME NEW p \in Procs, ReadStart(p) PROVE TypeOK'
    <2>1. DevOK'
      BY <1>11 DEF ReadStart, Goto, ReadReturn, DevOK
    <2>2. BufOK'
      <3>1. 0 \in Packets
        BY DEF Packets
      <3>2. CASE UNCHANGED <<readptr, recbuf>>
        BY <1>11, <3>2 DEF ReadStart, BufOK
      <3>3. CASE readptr' = 0 /\ recbuf' = [s \in 0 .. Slots - 1 |-> 0]
        BY <1>11, <3>1, <3>3 DEF ReadStart, BufOK
      <3>4. QED
        BY <1>11, <3>2, <3>3 DEF ReadStart
    <2>3. UrbOK'
      BY <1>11 DEF ReadStart, Goto, ReadReturn, UrbOK, Urbs
    <2>4. TaskOK'
      <3>1. CASE ReadReturn(p) /\ UNCHANGED idx
        BY <3>1 DEF ReadReturn, Goto, TaskOK, TaskPcs, OpenPcs, IoctlPcs, ReadPcs, ReleasePcs, OopsPcs
      <3>2. ASSUME NEW t \in {"run", tstate[p]},
                   NEW l \in {"rd_wait", "oops_read", "rd_submit"},
                   pc' = [pc EXCEPT ![p] = l], tstate' = [tstate EXCEPT ![p] = t],
                   UNCHANGED <<waitq, idx, want, cnt, sig>>
            PROVE TaskOK'
        BY <3>2 DEF TaskOK, TaskPcs, OpenPcs, IoctlPcs, ReadPcs, ReleasePcs, OopsPcs
      <3>3. CASE UNCHANGED tstate
        <4>1. tstate' = [tstate EXCEPT ![p] = tstate[p]]
          BY <3>3 DEF TaskOK
        <4>2. QED
          BY <1>11, <3>1, <3>2, <3>3, <4>1 DEF ReadStart, Goto
      <3>4. QED
        BY <1>11, <3>1, <3>2, <3>3 DEF ReadStart, Goto
    <2>5. QED
      BY <1>11, <2>1, <2>2, <2>3, <2>4, Frame DEF ReadStart, TypeOK
  <1>12. ASSUME NEW p \in Procs, ReadSubmit(p) PROVE TypeOK'
    <2>1. UrbOK'
      BY <1>12 DEF ReadSubmit, Goto, SubmitResults, UrbOK, Urbs
    <2>2. TaskOK'
      <3>1. CASE UNCHANGED <<pc>> /\ idx' = [idx EXCEPT ![p] = idx[p] + 1] /\ idx[p] # NURBS
        BY <1>12, <3>1 DEF ReadSubmit, TaskOK, TaskPcs, OpenPcs, IoctlPcs, ReadPcs, ReleasePcs, OopsPcs
      <3>2. CASE pc' = [pc EXCEPT ![p] = "rd_wait"] /\ idx' = [idx EXCEPT ![p] = 0]
        BY <1>12, <3>2 DEF ReadSubmit, TaskOK, TaskPcs, OpenPcs, IoctlPcs, ReadPcs, ReleasePcs, OopsPcs
      <3>3. CASE pc' = [pc EXCEPT ![p] = "rd_mark"] /\ UNCHANGED idx /\ idx[p] # NURBS
        BY <1>12, <3>3 DEF ReadSubmit, TaskOK, TaskPcs, OpenPcs, IoctlPcs, ReadPcs, ReleasePcs, OopsPcs
      <3>4. QED
        BY <1>12, <3>1, <3>2, <3>3 DEF ReadSubmit, Goto
    <2>3. UsbOK'
      BY <1>12 DEF ReadSubmit, Goto, SubmitResults, UsbOK
    <2>4. QED
      BY <1>12, <2>1, <2>2, <2>3, Frame DEF ReadSubmit, TypeOK
  <1>13. ASSUME NEW p \in Procs, ReadMark(p) PROVE TypeOK'
    <2>1. UrbOK'
      BY <1>13 DEF ReadMark, Goto, UrbOK, Urbs
    <2>2. TaskOK'
      BY <1>13 DEF ReadMark, Goto, TaskOK, TaskPcs, OpenPcs, IoctlPcs, ReadPcs, ReleasePcs, OopsPcs
    <2>3. QED
      BY <1>13, <2>1, <2>2, Frame DEF ReadMark, TypeOK
  <1>14. ASSUME NEW p \in Procs, ReadWait(p) PROVE TypeOK'
    <2>1. TaskOK'
      <3>1. CASE ReadReturn(p)
        BY <1>14, <3>1 DEF ReadWait, ReadReturn, Goto, TaskOK, TaskPcs, OpenPcs, IoctlPcs, ReadPcs, ReleasePcs, OopsPcs
      <3>2. CASE Goto(p, "rd_lock") /\ UNCHANGED <<waitq, want, cnt, tstate, sig>>
        BY <1>14, <3>2 DEF ReadWait, Goto, TaskOK, TaskPcs, OpenPcs, IoctlPcs, ReadPcs, ReleasePcs, OopsPcs
      <3>3. QED
        BY <1>14, <3>1, <3>2 DEF ReadWait
    <2>2. QED
      BY <1>14, <2>1, Frame DEF ReadWait, TypeOK
  <1>15. ASSUME NEW p \in Procs, ReadCopy(p) PROVE TypeOK'
    <2>1. BufOK'
      BY <1>15 DEF ReadCopy, TaskOK, BufOK
    <2>2. TaskOK'
      <3>1. ASSUME NEW l \in {"rd_lock", "rd_resetptr"},
                   pc' = [pc EXCEPT ![p] = l],
                   want' = [want EXCEPT ![p] = want[p] - cnt[p]],
                   cnt' = [cnt EXCEPT ![p] = 0],
                   UNCHANGED <<waitq, idx, tstate, sig>>, pc[p] = "rd_copy"
            PROVE TaskOK'
        <4>1. want[p] - cnt[p] \in 0 .. UserBuf
          BY <3>1 DEF TaskOK
        <4>2. QED
          BY <3>1, <4>1, SMTT(30) DEF TaskOK, TaskPcs, OpenPcs, IoctlPcs, ReadPcs, ReleasePcs, OopsPcs
      <3>2. CASE /\ pc' = [pc EXCEPT ![p] = "user"]
                 /\ want' = [want EXCEPT ![p] = 0]
                 /\ cnt' = [cnt EXCEPT ![p] = 0]
                 /\ sig' = [sig EXCEPT ![p] = FALSE]
        BY <1>15, <3>2 DEF ReadCopy, Goto, TaskOK, TaskPcs, OpenPcs, IoctlPcs, ReadPcs, ReleasePcs, OopsPcs
      <3>3. QED
        BY <1>15, <3>1, <3>2 DEF ReadCopy, Goto
    <2>3. HistOK'
      <3>1. [i \in 1 .. cnt[p] |-> At(readptr + i - 1)] \in Seq(Packets)
        <4>1. cnt[p] \in Nat /\ readptr \in Nat
          BY DEF TaskOK, BufOK
        <4>2. \A i \in 1 .. cnt[p] : At(readptr + i - 1) \in Packets
          BY <4>1, ReadAt
        <4>3. QED
          BY <4>1, <4>2, IsASeq
      <3>2. got \o [i \in 1 .. cnt[p] |-> At(readptr + i - 1)] \in Seq(Packets)
        BY <3>1, ConcatProperties DEF HistOK
      <3>3. QED
        BY <1>15, <3>2 DEF ReadCopy, HistOK
    <2>4. QED
      BY <1>15, <2>1, <2>2, <2>3, Frame DEF ReadCopy, TypeOK
  <1>16. ASSUME NEW p \in Procs, ReadResetPtr(p) PROVE TypeOK'
    <2>1. BufOK'
      BY <1>16 DEF ReadResetPtr, Goto, BufOK, Packets
    <2>2. TaskOK'
      BY <1>16 DEF ReadResetPtr, Goto, TaskOK, TaskPcs, OpenPcs, IoctlPcs, ReadPcs, ReleasePcs, OopsPcs
    <2>3. QED
      BY <1>16, <2>1, <2>2, Frame DEF ReadResetPtr, TypeOK
  <1>17. ASSUME NEW p \in Procs, ReadResetCount(p) PROVE TypeOK'
    <2>1. BufOK'
      BY <1>17 DEF ReadResetCount, Goto, BufOK, Packets
    <2>2. TaskOK'
      BY <1>17 DEF ReadResetCount, Goto, TaskOK, TaskPcs, OpenPcs, IoctlPcs, ReadPcs, ReleasePcs, OopsPcs
    <2>3. QED
      BY <1>17, <2>1, <2>2, Frame DEF ReadResetCount, TypeOK
  <1>18. ASSUME NEW p \in Procs, Signal(p) PROVE TypeOK'
    <2>1. TaskOK'
      BY <1>18 DEF Signal, TaskOK, TaskPcs, OpenPcs, IoctlPcs, ReadPcs, ReleasePcs, OopsPcs
    <2>2. QED
      BY <1>18, <2>1, Frame DEF Signal, TypeOK
  <1>19. ASSUME NEW p \in Procs, Close(p) PROVE TypeOK'
    <2>1. TaskOK'
      BY <1>19 DEF Close, Goto, TaskOK, TaskPcs, OpenPcs, IoctlPcs, ReadPcs, ReleasePcs, OopsPcs
    <2>2. QED
      BY <1>19, <2>1, Frame DEF Close, TypeOK
  <1>20. ASSUME NEW p \in Procs, RelLock(p) PROVE TypeOK'
    <2>1. DevOK'
      BY <1>20 DEF RelLock, Goto, DevOK
    <2>2. TaskOK'
      BY <1>20 DEF RelLock, Goto, TaskOK, TaskPcs, OpenPcs, IoctlPcs, ReadPcs, ReleasePcs, OopsPcs
    <2>3. QED
      BY <1>20, <2>1, <2>2, Frame DEF RelLock, TypeOK
  <1>21. ASSUME NEW p \in Procs, RelStop(p) PROVE TypeOK'
    <2>1. DevOK'
      BY <1>21 DEF RelStop, Goto, DevOK
    <2>2. TaskOK'
      BY <1>21 DEF RelStop, Goto, TaskOK, TaskPcs, OpenPcs, IoctlPcs, ReadPcs, ReleasePcs, OopsPcs
    <2>3. QED
      BY <1>21, <2>1, <2>2, Frame DEF RelStop, TypeOK
  <1>22. ASSUME NEW p \in Procs, RelKill(p) PROVE TypeOK'
    <2>1. TaskOK'
      <3>1. CASE idx' = [idx EXCEPT ![p] = idx[p] + 1] /\ UNCHANGED pc /\ idx[p] # NURBS
        BY <1>22, <3>1 DEF RelKill, TaskOK, TaskPcs, OpenPcs, IoctlPcs, ReadPcs, ReleasePcs, OopsPcs
      <3>2. CASE Goto(p, "rel_free") /\ idx' = [idx EXCEPT ![p] = 0]
        BY <1>22, <3>2 DEF RelKill, Goto, TaskOK, TaskPcs, OpenPcs, IoctlPcs, ReadPcs, ReleasePcs, OopsPcs
      <3>3. CASE Goto(p, "rel_wait") /\ UNCHANGED idx /\ idx[p] # NURBS
        BY <1>22, <3>3 DEF RelKill, Goto, TaskOK, TaskPcs, OpenPcs, IoctlPcs, ReadPcs, ReleasePcs, OopsPcs
      <3>4. QED
        BY <1>22, <3>1, <3>2, <3>3 DEF RelKill
    <2>2. QED
      BY <1>22, <2>1, Frame DEF RelKill, TypeOK
  <1>23. ASSUME NEW p \in Procs, RelKilled(p) PROVE TypeOK'
    <2>1. UrbOK'
      BY <1>23 DEF RelKilled, Goto, UrbOK, Urbs
    <2>2. TaskOK'
      BY <1>23 DEF RelKilled, Goto, TaskOK, TaskPcs, OpenPcs, IoctlPcs, ReadPcs, ReleasePcs, OopsPcs
    <2>3. QED
      BY <1>23, <2>1, <2>2, Frame DEF RelKilled, TypeOK
  <1>24. ASSUME NEW p \in Procs, RelFree(p) PROVE TypeOK'
    <2>1. DevOK'
      BY <1>24 DEF RelFree, Goto, DevOK
    <2>2. UrbOK'
      BY <1>24 DEF RelFree, Goto, UrbOK, Urbs
    <2>3. TaskOK'
      BY <1>24 DEF RelFree, Goto, TaskOK, TaskPcs, OpenPcs, IoctlPcs, ReadPcs, ReleasePcs, OopsPcs
    <2>4. QED
      BY <1>24, <2>1, <2>2, <2>3, Frame DEF RelFree, TypeOK
  <1>25. ASSUME NEW p \in Procs, RelWake(p) PROVE TypeOK'
    <2>1. TaskOK'
      BY <1>25 DEF RelWake, Goto, TaskOK, TaskPcs, OpenPcs, IoctlPcs, ReadPcs, ReleasePcs, OopsPcs
    <2>2. DiscOK'
      BY <1>25 DEF RelWake, Goto, DiscOK, DiscPcs
    <2>3. QED
      BY <1>25, <2>1, <2>2, Frame DEF RelWake, TypeOK
  <1>26. ASSUME NEW p \in Procs, RelDone(p) PROVE TypeOK'
    <2>1. DevOK'
      BY <1>26 DEF RelDone, Goto, DevOK
    <2>2. TaskOK'
      BY <1>26 DEF RelDone, Goto, TaskOK, TaskPcs, OpenPcs, IoctlPcs, ReadPcs, ReleasePcs, OopsPcs
    <2>3. QED
      BY <1>26, <2>1, <2>2, Frame DEF RelDone, TypeOK
  <1>27. ASSUME NEW u \in Urbs, HandlerEnter(u) PROVE TypeOK'
    <2>1. UrbOK'
      BY <1>27 DEF HandlerEnter, UrbOK, Urbs
    <2>2. UsbOK'
      BY <1>27 DEF HandlerEnter, UsbOK
    <2>3. IrqOK'
      BY <1>27 DEF HandlerEnter, IrqOK, HandlerPcs, Packets
    <2>4. QED
      BY <1>27, <2>1, <2>2, <2>3, Frame DEF HandlerEnter, TypeOK
  <1>28. CASE HandlerPacket
    <2>1. BufOK'
      <3>1. sent + 1 \in Packets
        BY <1>28 DEF HandlerPacket, IrqOK, Packets
      <3>2. CASE UNCHANGED <<count, recbuf, prevH>>
        BY <1>28, <3>2 DEF HandlerPacket, BufOK
      <3>3. CASE /\ recbuf' = [recbuf EXCEPT ![count % Slots] = sent + 1]
                 /\ prevH' = sent + 1
                 /\ count' = count + 1
        BY <1>28, <3>1, <3>3 DEF HandlerPacket, BufOK
      <3>4. QED
        BY <1>28, <3>2, <3>3 DEF HandlerPacket
    <2>2. UsbOK'
      BY <1>28 DEF HandlerPacket, UsbOK
    <2>3. IrqOK'
      BY <1>28 DEF HandlerPacket, IrqOK, HandlerPcs, Packets
    <2>4. HistOK'
      <3>1. sent + 1 \in Packets
        BY <1>28 DEF HandlerPacket, IrqOK, Packets
      <3>2. Append(written, sent + 1) \in Seq(Packets)
        BY <3>1, AppendProperties DEF HistOK
      <3>3. (IF Emptying THEN written ELSE Append(written, sent + 1)) \in Seq(Packets)
        BY <3>2 DEF HistOK
      <3>4. dropped \cup {<<sent + 1, prevH>>} \subseteq Packets \X Packets
        BY <3>1 DEF HistOK, BufOK
      <3>5. (overflowed \/ count >= Slots) \in BOOLEAN
        OBVIOUS
      <3>6. QED
        BY <1>28, <3>3, <3>4, <3>5 DEF HandlerPacket, HistOK
    <2>5. QED
      BY <1>28, <2>1, <2>2, <2>3, <2>4, Frame DEF HandlerPacket, TypeOK
  <1>29. CASE HandlerSubmit
    <2>1. UsbOK'
      BY <1>29 DEF HandlerSubmit, SubmitResults, UsbOK
    <2>2. IrqOK'
      BY <1>29 DEF HandlerSubmit, SubmitResults, IrqOK, HandlerPcs, Packets
    <2>3. QED
      BY <1>29, <2>1, <2>2, Frame DEF HandlerSubmit, TypeOK
  <1>30. CASE HandlerMark
    <2>1. UrbOK'
      BY <1>30 DEF HandlerMark, UrbOK, Urbs
    <2>2. IrqOK'
      BY <1>30 DEF HandlerMark, IrqOK, HandlerPcs, Packets
    <2>3. QED
      BY <1>30, <2>1, <2>2, Frame DEF HandlerMark, TypeOK
  <1>31. CASE HandlerWake
    <2>1. TaskOK'
      BY <1>31 DEF HandlerWake, WakeReaders, TaskOK, TaskPcs, OpenPcs, IoctlPcs, ReadPcs, ReleasePcs, OopsPcs
    <2>2. IrqOK'
      BY <1>31 DEF HandlerWake, WakeReaders, IrqOK, HandlerPcs, Packets
    <2>3. QED
      BY <1>31, <2>1, <2>2, Frame DEF HandlerWake, TypeOK
  <1>32. CASE Unplug
    <2>1. UsbOK'
      BY <1>32 DEF Unplug, UsbOK
    <2>2. QED
      BY <1>32, <2>1, Frame DEF Unplug, TypeOK
  <1>33. CASE DiscBegin
    <2>1. DiscOK'
      BY <1>33 DEF DiscBegin, DiscOK, DiscPcs
    <2>2. QED
      BY <1>33, <2>1, Frame DEF DiscBegin, TypeOK
  <1>34. CASE DiscDereg
    <2>1. DiscOK'
      BY <1>34 DEF DiscDereg, DiscOK, DiscPcs
    <2>2. QED
      BY <1>34, <2>1, Frame DEF DiscDereg, TypeOK
  <1>35. CASE DiscFlag
    <2>1. DevOK'
      BY <1>35 DEF DiscFlag, WakeReaders, DevOK
    <2>2. TaskOK'
      BY <1>35 DEF DiscFlag, WakeReaders, TaskOK, TaskPcs, OpenPcs, IoctlPcs, ReadPcs, ReleasePcs, OopsPcs
    <2>3. DiscOK'
      BY <1>35 DEF DiscFlag, WakeReaders, DiscOK, DiscPcs
    <2>4. QED
      BY <1>35, <2>1, <2>2, <2>3, Frame DEF DiscFlag, TypeOK
  <1>36. CASE DiscArm
    <2>1. DiscOK'
      BY <1>36 DEF DiscArm, DiscOK, DiscPcs
    <2>2. QED
      BY <1>36, <2>1, Frame DEF DiscArm, TypeOK
  <1>37. CASE DiscCheck
    <2>1. DiscOK'
      BY <1>37 DEF DiscCheck, DiscOK, DiscPcs
    <2>2. HistOK'
      BY <1>37 DEF DiscCheck, HistOK, Packets
    <2>3. QED
      BY <1>37, <2>1, <2>2, Frame DEF DiscCheck, TypeOK
  <1>38. CASE DiscWake
    <2>1. DiscOK'
      BY <1>38 DEF DiscWake, DiscOK, DiscPcs
    <2>2. QED
      BY <1>38, <2>1, Frame DEF DiscWake, TypeOK
  <1>39. CASE DiscFinish
    <2>1. DevOK'
      BY <1>39 DEF DiscFinish, DevOK
    <2>2. DiscOK'
      BY <1>39 DEF DiscFinish, DiscOK, DiscPcs
    <2>3. QED
      BY <1>39, <2>1, <2>2, Frame DEF DiscFinish, TypeOK
  <1>40. CASE UNCHANGED vars
    BY <1>40, Frame DEF vars, TypeOK
  <1>41. QED
    BY <1>1, <1>2, <1>3, <1>4, <1>5, <1>6, <1>7, <1>8, <1>9, <1>10,
       <1>11, <1>12, <1>13, <1>14, <1>15, <1>16, <1>17, <1>18, <1>19, <1>20,
       <1>21, <1>22, <1>23, <1>24, <1>25, <1>26, <1>27, <1>28, <1>29, <1>30,
       <1>31, <1>32, <1>33, <1>34, <1>35, <1>36, <1>37, <1>38, <1>39, <1>40
    DEF Next, TaskStep, UserStep, HandlerStep, DiscStep

\* Every variable keeps its type, and the locals of a call agree with the point
\* it has reached.
THEOREM TypeCorrect == Spec => []TypeOK
  BY TypeInit, TypeNext, PTL DEF Spec
-----------------------------------------------------------------------------
\* One task has the device open at a time.

OneHolder ==
    /\ \A p \in Procs : HasOpen(p) => opened
    /\ \A p, q \in Procs : HasOpen(p) /\ HasOpen(q) => p = q

LEMMA HolderFrame ==
  ASSUME TaskOK, OneHolder, NEW p \in Procs, NEW l, Goto(p, l), UNCHANGED opened,
         HasOpen(p) \/ l \in {"none", "open_lock", "oops_open"}
  PROVE  OneHolder'
  BY DEF TaskOK, OneHolder, HasOpen, Goto

LEMMA HolderStep ==
  ASSUME TypeOK, OneHolder, NEW p \in Procs, TaskStep(p) \/ UserStep(p)
  PROVE  OneHolder'
  <1> USE DEF TypeOK
  <1>1. CASE OpenLookup(p)
    BY <1>1, HolderFrame DEF OpenLookup, devVars
  <1>2. CASE OpenLock(p)
    BY <1>2 DEF OpenLock, OneHolder, HasOpen, Goto, TaskOK
  <1>3. CASE RelDone(p)
    BY <1>3 DEF RelDone, OneHolder, HasOpen, Goto, TaskOK
  <1>4. CASE Signal(p)
    BY <1>4 DEF Signal, devVars, OneHolder, HasOpen
  <1>5. CASE \/ OpenReset(p) \/ IoctlEnter(p) \/ ReadEnter(p) \/ Close(p)
             \/ ReadSetState(p) \/ ReadMark(p) \/ ReadResetPtr(p)
             \/ ReadResetCount(p) \/ RelWake(p)
    BY <1>5, HolderFrame
    DEF OpenReset, IoctlEnter, ReadEnter, Close, ReadSetState, ReadMark,
        ReadResetPtr, ReadResetCount, RelWake, devVars, HasOpen
  <1>6. CASE RelLock(p) \/ RelStop(p) \/ RelKilled(p) \/ RelFree(p)
    BY <1>6, HolderFrame
    DEF RelLock, RelStop, RelKilled, RelFree, devVars, HasOpen
  <1>7. CASE IoctlLock(p) \/ IoctlSend(p)
    BY <1>7, HolderFrame DEF IoctlLock, IoctlSend, HasOpen
  <1>8. CASE ReadDone(p) \/ ReadLock(p) \/ ReadWait(p) \/ ReadCopy(p)
    BY <1>8, HolderFrame
    DEF ReadDone, ReadLock, ReadWait, ReadCopy, ReadReturn, devVars, HasOpen
  <1>9. CASE ReadStart(p)
    BY <1>9, HolderFrame DEF ReadStart, ReadReturn, HasOpen
  <1>10. CASE ReadSubmit(p) \/ RelKill(p)
    <2>1. CASE UNCHANGED pc
      BY <1>10, <2>1 DEF ReadSubmit, RelKill, devVars, OneHolder, HasOpen
    <2>2. ASSUME NEW l \in {"rd_wait", "rd_mark", "rel_free", "rel_wait"}, Goto(p, l)
          PROVE  OneHolder'
      BY <1>10, <2>2, HolderFrame DEF ReadSubmit, RelKill, devVars, HasOpen
    <2>3. QED
      BY <1>10, <2>1, <2>2 DEF ReadSubmit, RelKill
  <1>11. QED
    BY <1>1, <1>2, <1>3, <1>4, <1>5, <1>6, <1>7, <1>8, <1>9, <1>10
    DEF TaskStep, UserStep

\* Steps of the handler, the USB core and the hub task, and stuttering.
OtherStep ==
    \/ \E u \in Urbs : HandlerEnter(u)
    \/ HandlerStep \/ Unplug \/ DiscStep \/ UNCHANGED vars

LEMMA OtherFrame == OtherStep => UNCHANGED <<pc, idx, opened, allocated>>
  <1>1. \A u \in Urbs : HandlerEnter(u) => UNCHANGED <<pc, idx, opened, allocated>>
    BY DEF HandlerEnter, taskVars, devVars
  <1>2. HandlerStep => UNCHANGED <<pc, idx, opened, allocated>>
    BY DEF HandlerStep, HandlerPacket, HandlerSubmit, HandlerMark, HandlerWake,
           taskVars, devVars, urbVars
  <1>3. Unplug \/ UNCHANGED vars => UNCHANGED <<pc, idx, opened, allocated>>
    BY DEF Unplug, vars, taskVars, devVars, urbVars
  <1>4. DiscStep => UNCHANGED <<pc, idx, opened, allocated>>
    BY DEF DiscStep, DiscBegin, DiscDereg, DiscFlag, DiscArm, DiscCheck,
           DiscWake, DiscFinish, taskVars, devVars, urbVars
  <1>5. QED
    BY <1>1, <1>2, <1>3, <1>4 DEF OtherStep

LEMMA NextCases == [Next]_vars =>
                     OtherStep \/ \E p \in Procs : TaskStep(p) \/ UserStep(p)
  BY DEF Next, OtherStep

LEMMA HolderNext == TypeOK /\ OneHolder /\ [Next]_vars => OneHolder'
  <1>1. OneHolder /\ OtherStep => OneHolder'
    BY OtherFrame DEF OneHolder, HasOpen
  <1>2. QED
    BY <1>1, HolderStep, NextCases

\* The mutex around the test and the setting of opened keeps a second task out
\* for as long as the first has the file open, with or without SMP.
THEOREM OneOpener == Spec => [](\A p, q \in Procs : HasOpen(p) /\ HasOpen(q) => p = q)
  <1>1. Init => OneHolder
    BY DEF Init, OneHolder, HasOpen
  <1>2. OneHolder => \A p, q \in Procs : HasOpen(p) /\ HasOpen(q) => p = q
    BY DEF OneHolder
  <1>3. QED
    BY <1>1, <1>2, HolderNext, TypeCorrect, PTL DEF Spec

-----------------------------------------------------------------------------
\* On a uniprocessor the buffers of an URB outlive its transfer.  The argument:
\* buffers exist only for the one task that has the file open; an URB in flight
\* is marked in running[] whenever no submission is half-way through, so the
\* loop of wavefinder_stop misses none; and the handler, which clears running[]
\* before it resubmits, cannot be half-way through when that loop looks.

Buffers ==
    /\ (\A u \in Urbs : allocated[u]) \/ (\A u \in Urbs : ~allocated[u])
    /\ \A u \in Urbs : allocated[u] =>
          \E p \in Procs : HasOpen(p) /\ pc[p] \notin {"open_reset", "rel_wake", "rel_done"}
    /\ \A p \in Procs : pc[p] \in {"rd_submit", "rd_mark"} => \A u \in Urbs : allocated[u]

\* A submission of u has been made and running[u] not been set.
Marking(u) == \/ hpc = "mark" /\ hurb = u
              \/ \E p \in Procs : pc[p] = "rd_mark" /\ idx[p] = u

Known == \A u \in Urbs : inflight[u] => running[u] \/ Marking(u)

\* The URBs that wavefinder_stop has been past are at rest.
AtRest(u) == ~inflight[u] /\ ~(hpc # "idle" /\ hurb = u)
Killed ==
    \A p \in Procs :
        /\ pc[p] \in {"rel_kill", "rel_wait"} =>
             \A u \in Urbs : u < idx[p] => AtRest(u)
        /\ pc[p] = "rel_free" => \A u \in Urbs : AtRest(u)
        /\ pc[p] \notin {"rd_submit", "rd_mark", "rel_kill", "rel_wait"} => idx[p] = 0

\* The URBs that start_receive has not come to are unused.
Fresh(u) == ~running[u] /\ AtRest(u)
Unsubmitted ==
    \A p \in Procs : \A u \in Urbs :
        /\ pc[p] = "rd_submit" /\ u >= idx[p] => Fresh(u)
        /\ pc[p] = "rd_mark" /\ u > idx[p] => Fresh(u)

UniInv ==
    /\ TypeOK /\ OneHolder /\ Buffers /\ Known /\ Killed /\ Unsubmitted
    /\ BufferLifetime

coreVars == <<allocated, running, inflight, hpc, hurb>>

\* A task moves on without touching the URBs.
LEMMA UniMove ==
  ASSUME UniInv, NEW p \in Procs, NEW l, Goto(p, l), TypeOK', OneHolder',
         UNCHANGED coreVars, UNCHANGED idx,
         pc[p] \notin {"rd_submit", "rd_mark", "rel_kill", "rel_wait", "rel_free"},
         l \notin {"rd_submit", "rd_mark", "rel_wait", "rel_free"},
         HasOpen(p) => l \notin {"none", "open_lock", "oops_open", "open_reset"},
         l \in {"rel_wake", "rel_done"} => \A u \in Urbs : ~allocated[u]
  PROVE  UniInv'
  <1> USE DEF UniInv, Goto, coreVars
  <1>1. pc' = [pc EXCEPT ![p] = l] /\ \A q \in Procs : pc'[q] = IF q = p THEN l ELSE pc[q]
    BY DEF TypeOK, TaskOK
  <1>2. Buffers'
    <2>1. ASSUME NEW u \in Urbs, allocated[u]
          PROVE  \E q \in Procs : HasOpen(q)' /\ pc'[q] \notin {"open_reset", "rel_wake", "rel_done"}
      <3>1. PICK q \in Procs : HasOpen(q) /\ pc[q] \notin {"open_reset", "rel_wake", "rel_done"}
        BY <2>1 DEF Buffers
      <3>2. HasOpen(q)' /\ pc'[q] \notin {"open_reset", "rel_wake", "rel_done"}
        BY <1>1, <2>1, <3>1 DEF HasOpen
      <3>3. QED
        BY <3>2
    <2>2. QED
      BY <1>1, <2>1 DEF Buffers
  <1>3. Known'
    BY <1>1 DEF Known, Marking
  <1>4. Killed'
    BY <1>1 DEF Killed, AtRest, Urbs
  <1>5. BufferLifetime'
    BY DEF BufferLifetime
  <1>6. Unsubmitted'
    BY <1>1 DEF Unsubmitted, Fresh, AtRest
  <1>7. QED
    BY <1>2, <1>3, <1>4, <1>5, <1>6

\* The same, when the step leaves pc alone too.
LEMMA UniFrame ==
  ASSUME UniInv, TypeOK', OneHolder', UNCHANGED coreVars, UNCHANGED <<pc, idx>>
  PROVE  UniInv'
  BY DEF UniInv, coreVars, Buffers, HasOpen, Known, Marking, Killed, AtRest,
         Unsubmitted, Fresh, BufferLifetime

LEMMA UniTask ==
  ASSUME SMP = FALSE, UniInv, TypeOK', OneHolder', NEW p \in Procs,
         TaskStep(p) \/ UserStep(p)
  PROVE  UniInv'
  <1> USE DEF coreVars
  <1>0. hpc = "idle"
    BY DEF TaskStep, UserStep, TaskMayRun, OpenLookup, OpenLock, OpenReset,
           IoctlEnter, IoctlLock, IoctlSend, ReadEnter, ReadDone, ReadLock,
           ReadSetState, ReadStart, ReadSubmit, ReadMark, ReadWait, ReadCopy,
           ReadResetPtr, ReadResetCount, Signal, Close, RelLock, RelStop,
           RelKill, RelKilled, RelFree, RelWake, RelDone
  <1>1. CASE OpenLookup(p) \/ OpenLock(p)
    BY <1>1, UniMove DEF OpenLookup, OpenLock, HasOpen, urbVars, usbVars, irqVars
  <1>2. CASE OpenReset(p)
    <2>1. \A u \in Urbs : ~allocated[u]
      BY <1>2 DEF OpenReset, UniInv, OneHolder, Buffers, HasOpen
    <2>2. UNCHANGED coreVars
      BY <1>2, <2>1 DEF OpenReset, UniInv, TypeOK, UrbOK, usbVars, irqVars
    <2>3. QED
      BY <1>2, <2>2, UniMove DEF OpenReset
  <1>3. CASE IoctlEnter(p) \/ IoctlLock(p) \/ IoctlSend(p)
    BY <1>3, UniMove DEF IoctlEnter, IoctlLock, IoctlSend, urbVars, usbVars, irqVars
  <1>4. CASE \/ ReadEnter(p) \/ ReadDone(p) \/ ReadLock(p) \/ ReadSetState(p)
             \/ ReadWait(p) \/ ReadCopy(p) \/ ReadResetPtr(p) \/ ReadResetCount(p)
    BY <1>4, UniMove
    DEF ReadEnter, ReadDone, ReadLock, ReadSetState, ReadWait, ReadCopy,
        ReadResetPtr, ReadResetCount, ReadReturn, urbVars, usbVars, irqVars
  <1>5. CASE Signal(p)
    BY <1>5, UniFrame DEF Signal, urbVars, usbVars, irqVars
  <1>6. CASE Close(p) \/ RelLock(p) \/ RelStop(p)
    BY <1>6, UniMove DEF Close, RelLock, RelStop, urbVars, usbVars, irqVars
  <1>7. CASE RelWake(p) \/ RelDone(p)
    <2>1. \A u \in Urbs : ~allocated[u]
      BY <1>7 DEF RelWake, RelDone, UniInv, OneHolder, Buffers, HasOpen
    <2>2. CASE RelWake(p)
      BY <2>1, <2>2, UniMove DEF RelWake, urbVars, usbVars, irqVars
    <2>3. CASE RelDone(p)
      <3>1. Goto(p, "none") /\ UNCHANGED coreVars /\ UNCHANGED idx /\ pc[p] = "rel_done"
        BY <2>3 DEF RelDone, urbVars, usbVars, irqVars
      <3>2. Killed'
        BY <3>1 DEF UniInv, Killed, AtRest, Goto, TypeOK, TaskOK
      <3>3. Known' /\ Buffers' /\ BufferLifetime'
        BY <2>1, <3>1, <1>0 DEF UniInv, Known, Marking, Buffers, BufferLifetime, Goto, TypeOK, TaskOK
      <3>4. Unsubmitted'
        BY <3>1 DEF UniInv, Unsubmitted, Fresh, AtRest, Goto, TypeOK, TaskOK
      <3>5. QED
        BY <3>2, <3>3, <3>4 DEF UniInv
    <2>4. QED
      BY <1>7, <2>2, <2>3
  <1>8. CASE ReadStart(p)
    <2>1. CASE Goto(p, "rd_wait") /\ UNCHANGED <<allocated, running>>
      BY <1>8, <2>1, UniMove DEF ReadStart, usbVars, irqVars
    <2>2. CASE Goto(p, "oops_read") /\ UNCHANGED <<allocated, running>>
      BY <1>8, <2>2, UniMove DEF ReadStart, usbVars, irqVars
    <2>3. CASE /\ \E u \in Urbs : ~allocated[u]
               /\ \/ /\ Goto(p, "user")
                     /\ allocated' = [u \in Urbs |-> FALSE]
                  \/ /\ Goto(p, "rd_submit")
                     /\ allocated' = [u \in Urbs |-> TRUE]
                     /\ running' = [u \in Urbs |-> FALSE]
      <3>1. \A u \in Urbs : ~inflight[u]
        BY <2>3 DEF UniInv, Buffers, BufferLifetime
      <3>2. UNCHANGED <<inflight, hpc, hurb, idx>> /\ pc[p] = "rd_start"
        BY <1>8 DEF ReadStart, usbVars, irqVars
      <3>3. Known' /\ BufferLifetime'
        BY <3>1, <3>2, <1>0 DEF Known, BufferLifetime
      <3>4. \A q \in Procs : q # p => pc'[q] = pc[q]
        BY <2>3 DEF UniInv, Goto, TypeOK, TaskOK
      <3>5. pc'[p] \in {"user", "rd_submit"}
        BY <2>3 DEF UniInv, Goto, TypeOK, TaskOK
      <3>6. \A q \in Procs : q # p => pc[q] \in {"none", "open_lock", "oops_open"}
        BY <3>2 DEF UniInv, OneHolder, HasOpen
      <3>7. Killed'
        BY <3>2, <3>4, <3>5, <3>6 DEF UniInv, Killed
      <3>8. HasOpen(p)' /\ pc'[p] \notin {"open_reset", "rel_wake", "rel_done"}
        BY <3>5 DEF HasOpen
      <3>9. Buffers'
        BY <2>3, <3>4, <3>6, <3>8 DEF Buffers, UniInv, Goto, TypeOK, TaskOK
      <3>10. Unsubmitted'
        BY <1>0, <2>3, <3>1, <3>2, <3>4, <3>5, <3>6
        DEF Unsubmitted, Fresh, AtRest, UniInv, Goto, TypeOK, TaskOK
      <3>11. QED
        BY <3>3, <3>7, <3>9, <3>10 DEF UniInv
    <2>4. QED
      BY <1>8, <2>1, <2>2, <2>3 DEF ReadStart, ReadReturn
  <1>9. CASE ReadSubmit(p)
    <2> DEFINE u == idx[p]
    <2>1. /\ pc[p] = "rd_submit" /\ UNCHANGED <<allocated, hpc, hurb>>
          /\ \A q \in Procs : q # p => pc'[q] = pc[q] /\ idx'[q] = idx[q]
      BY <1>9 DEF ReadSubmit, Goto, irqVars, UniInv, TypeOK, TaskOK
    <2>2. \A q \in Procs : q # p => pc[q] \in {"none", "open_lock", "oops_open"}
      BY <2>1 DEF UniInv, OneHolder, HasOpen
    <2>3. \A v \in Urbs : allocated[v] /\ (inflight[v] => running[v])
      BY <1>0, <2>1, <2>2 DEF UniInv, Buffers, Known, Marking
    <2>4. \A v \in Urbs : v >= u => Fresh(v)
      BY <2>1 DEF UniInv, Unsubmitted
    <2>5. CASE u = NURBS
      <3>1. /\ UNCHANGED <<running, inflight>>
            /\ pc'[p] = "rd_wait" /\ idx'[p] = 0
        BY <1>9, <2>5 DEF ReadSubmit, Goto, UniInv, TypeOK, TaskOK
      <3>2. Buffers'
        BY <2>1, <2>3, <3>1 DEF UniInv, Buffers, HasOpen
      <3>3. Known' /\ BufferLifetime'
        BY <1>0, <2>1, <2>3, <3>1 DEF Known, BufferLifetime
      <3>4. Killed' /\ Unsubmitted'
        BY <2>1, <2>2, <3>1 DEF UniInv, Killed, Unsubmitted
      <3>5. QED
        BY <3>2, <3>3, <3>4 DEF UniInv
    <2>6. CASE u # NURBS /\ UNCHANGED <<pc, inflight>>
      <3>1. /\ running' = [running EXCEPT ![u] = FALSE]
            /\ idx' = [idx EXCEPT ![p] = u + 1]
        BY <1>9, <2>1, <2>6 DEF ReadSubmit, Goto, UniInv, TypeOK, TaskOK
      <3>2. u \in Urbs /\ idx'[p] = u + 1
        BY SizesAssumption, <2>6, <3>1 DEF UniInv, TypeOK, TaskOK, Urbs
      <3>3. Buffers'
        BY <2>1, <2>3, <2>6 DEF UniInv, Buffers, HasOpen
      <3>4. Known' /\ BufferLifetime'
        BY <1>0, <2>1, <2>3, <2>4, <2>6, <3>1, <3>2
        DEF UniInv, Known, BufferLifetime, Fresh, AtRest, TypeOK, UrbOK, Urbs
      <3>5. Killed'
        BY <2>1, <2>2, <2>6 DEF UniInv, Killed
      <3>6. Unsubmitted'
        BY <1>0, <2>1, <2>2, <2>4, <2>6, <3>1, <3>2
        DEF Unsubmitted, Fresh, AtRest, UniInv, TypeOK, UrbOK, Urbs
      <3>7. QED
        BY <3>3, <3>4, <3>5, <3>6 DEF UniInv
    <2>7. CASE /\ u # NURBS /\ Goto(p, "rd_mark") /\ UNCHANGED <<idx, running>>
               /\ inflight' = [inflight EXCEPT ![u] = TRUE]
      <3>1. pc'[p] = "rd_mark" /\ idx'[p] = u /\ u \in Urbs
        BY SizesAssumption, <2>7 DEF Goto, UniInv, TypeOK, TaskOK, Urbs
      <3>2. Buffers'
        BY <2>1, <2>3, <3>1 DEF UniInv, Buffers, HasOpen
      <3>3. Known' /\ BufferLifetime'
        BY <1>0, <2>1, <2>3, <2>7, <3>1
        DEF UniInv, Known, Marking, BufferLifetime, TypeOK, UsbOK
      <3>4. Killed'
        BY <2>1, <2>2, <3>1 DEF UniInv, Killed
      <3>5. Unsubmitted'
        BY <1>0, <2>1, <2>2, <2>4, <2>7, <3>1
        DEF Unsubmitted, Fresh, AtRest, UniInv, TypeOK, UsbOK, Urbs
      <3>6. QED
        BY <3>2, <3>3, <3>4, <3>5 DEF UniInv
    <2>8. QED
      BY <1>9, <2>5, <2>6, <2>7 DEF ReadSubmit
  <1>10. CASE ReadMark(p)
    <2> DEFINE u == idx[p]
    <2>1. /\ pc[p] = "rd_mark" /\ u \in Urbs /\ UNCHANGED <<allocated, inflight, hpc, hurb>>
          /\ running' = [running EXCEPT ![u] = TRUE]
          /\ \A q \in Procs : q # p => pc'[q] = pc[q] /\ idx'[q] = idx[q]
          /\ pc'[p] = "rd_submit" /\ idx'[p] = u + 1
      BY SizesAssumption, <1>10 DEF ReadMark, Goto, usbVars, irqVars, UniInv, TypeOK, TaskOK, Urbs
    <2>2. \A q \in Procs : q # p => pc[q] \in {"none", "open_lock", "oops_open"}
      BY <2>1 DEF UniInv, OneHolder, HasOpen
    <2>3. Buffers'
      BY <2>1 DEF UniInv, Buffers, HasOpen
    <2>4. Known' /\ BufferLifetime'
      BY <1>0, <2>1, <2>2 DEF UniInv, Known, Marking, BufferLifetime, TypeOK, UrbOK
    <2>5. Killed' /\ Unsubmitted'
      BY <1>0, <2>1, <2>2
      DEF UniInv, Killed, Unsubmitted, Fresh, AtRest, TypeOK, UrbOK, Urbs
    <2>6. QED
      BY <2>3, <2>4, <2>5 DEF UniInv
  <1>11. CASE RelKill(p) \/ RelKilled(p)
    <2> DEFINE u == idx[p]
    <2>1. /\ pc[p] \in {"rel_kill", "rel_wait"}
          /\ UNCHANGED <<allocated, inflight, hpc, hurb>>
          /\ \A q \in Procs : q # p => pc'[q] = pc[q] /\ idx'[q] = idx[q]
      BY <1>11 DEF RelKill, RelKilled, Goto, urbVars, usbVars, irqVars, UniInv, TypeOK, TaskOK
    <2>2. \A q \in Procs : q # p => pc[q] \in {"none", "open_lock", "oops_open"}
      BY <2>1 DEF UniInv, OneHolder, HasOpen
    <2>3. \A v \in Urbs : inflight[v] => running[v]
      BY <1>0, <2>1, <2>2 DEF UniInv, Known, Marking
    <2>4. \A v \in Urbs : v < u => AtRest(v)
      BY <2>1 DEF UniInv, Killed
    <2>5. /\ \A v \in Urbs : inflight[v] => running'[v]
          /\ \/ pc'[p] = "rel_free" /\ idx'[p] = 0 /\ u = NURBS
             \/ pc'[p] = "rel_wait" /\ idx'[p] = u
             \/ pc'[p] = "rel_kill" /\ idx'[p] = u + 1 /\ u \in Urbs /\ ~inflight[u]
      <3>1. CASE RelKill(p)
        BY SizesAssumption, <2>3, <3>1 DEF RelKill, Goto, urbVars, UniInv, TypeOK, TaskOK, Urbs
      <3>2. CASE RelKilled(p)
        BY SizesAssumption, <2>3, <3>2 DEF RelKilled, Goto, UniInv, TypeOK, TaskOK, UrbOK, Urbs
      <3>3. QED
        BY <1>11, <3>1, <3>2
    <2>6. Buffers'
      BY <2>1, <2>5 DEF UniInv, Buffers, HasOpen
    <2>7. Known' /\ BufferLifetime'
      BY <2>1, <2>5 DEF UniInv, Known, BufferLifetime
    <2>8. Killed'
      BY <1>0, <2>1, <2>2, <2>4, <2>5 DEF UniInv, Killed, AtRest, TypeOK, TaskOK, Urbs
    <2>9. Unsubmitted'
      BY <2>1, <2>2, <2>5 DEF Unsubmitted
    <2>10. QED
      BY <2>6, <2>7, <2>8, <2>9 DEF UniInv
  <1>12. CASE RelFree(p)
    <2>1. /\ pc[p] = "rel_free" /\ allocated' = [u \in Urbs |-> FALSE]
          /\ UNCHANGED <<running, inflight, hpc, hurb, idx>>
          /\ pc'[p] = "rel_wake"
          /\ \A q \in Procs : q # p => pc'[q] = pc[q]
      BY <1>12 DEF RelFree, Goto, usbVars, irqVars, UniInv, TypeOK, TaskOK
    <2>2. \A q \in Procs : q # p => pc[q] \in {"none", "open_lock", "oops_open"}
      BY <2>1 DEF UniInv, OneHolder, HasOpen
    <2>3. \A u \in Urbs : ~inflight[u]
      BY <2>1 DEF UniInv, Killed, AtRest
    <2>4. Buffers' /\ Known' /\ BufferLifetime'
      BY <1>0, <2>1, <2>2, <2>3 DEF Buffers, Known, BufferLifetime
    <2>5. Killed' /\ Unsubmitted'
      BY <2>1, <2>2 DEF UniInv, Killed, Unsubmitted
    <2>6. QED
      BY <2>4, <2>5 DEF UniInv
  <1>13. QED
    BY <1>1, <1>2, <1>3, <1>4, <1>5, <1>6, <1>7, <1>8, <1>9, <1>10, <1>11, <1>12
    DEF TaskStep, UserStep

LEMMA UniHandler ==
  ASSUME UniInv, TypeOK', OneHolder', UNCHANGED <<pc, idx, opened, allocated>>,
         \/ \E u \in Urbs : HandlerEnter(u)
         \/ HandlerPacket \/ HandlerSubmit \/ HandlerMark \/ HandlerWake
  PROVE  UniInv'
  <1>1. Buffers'
    BY DEF UniInv, Buffers, HasOpen
  <1>2. ASSUME NEW u \in Urbs, HandlerEnter(u) PROVE UniInv'
    <2>1. /\ hpc = "idle" /\ inflight[u]
          /\ hpc' # "idle" /\ hurb' = u
          /\ inflight' = [inflight EXCEPT ![u] = FALSE]
          /\ running' = [running EXCEPT ![u] = FALSE]
      BY <1>2 DEF HandlerEnter
    <2>2. Known' /\ BufferLifetime'
      BY <2>1 DEF UniInv, Known, Marking, BufferLifetime, TypeOK, UsbOK, UrbOK
    <2>3. Killed' /\ Unsubmitted'
      BY <2>1 DEF UniInv, Killed, Unsubmitted, Fresh, AtRest, TypeOK, UsbOK, UrbOK
    <2>4. QED
      BY <1>1, <2>2, <2>3 DEF UniInv
  <1>3. CASE HandlerSubmit
    <2>1. /\ hpc = "submit" /\ hpc' \in {"mark", "wake"} /\ hurb' = hurb
          /\ UNCHANGED running
          /\ \/ inflight' = [inflight EXCEPT ![hurb] = TRUE] /\ hpc' = "mark"
             \/ inflight' = [inflight EXCEPT ![hurb] = FALSE]
          /\ Killing(hurb) => inflight' = [inflight EXCEPT ![hurb] = FALSE]
      BY <1>3 DEF HandlerSubmit, SubmitResults, urbVars
    <2>2. Known' /\ BufferLifetime'
      BY <2>1 DEF UniInv, Known, Marking, BufferLifetime, TypeOK, UsbOK, IrqOK
    <2>3. Killed' /\ Unsubmitted'
      BY <2>1 DEF UniInv, Killed, Unsubmitted, Fresh, AtRest, TypeOK, UsbOK, IrqOK
    <2>4. QED
      BY <1>1, <2>2, <2>3 DEF UniInv
  <1>4. CASE HandlerMark
    <2>1. /\ hpc = "mark" /\ hpc' = "wake" /\ UNCHANGED <<hurb, inflight>>
          /\ running' = [running EXCEPT ![hurb] = TRUE]
      BY <1>4 DEF HandlerMark, usbVars
    <2>2. Known' /\ BufferLifetime'
      BY <2>1 DEF UniInv, Known, Marking, BufferLifetime, TypeOK, UrbOK, IrqOK
    <2>3. Killed' /\ Unsubmitted'
      BY <2>1 DEF UniInv, Killed, Unsubmitted, Fresh, AtRest, TypeOK, UrbOK, IrqOK
    <2>4. QED
      BY <1>1, <2>2, <2>3 DEF UniInv
  <1>5. CASE HandlerPacket \/ HandlerWake
    <2>1. /\ UNCHANGED <<inflight, running>>
          /\ \/ hpc = "packet" /\ hpc' \in {"packet", "submit"} /\ hurb' = hurb
             \/ hpc = "wake" /\ hpc' = "idle"
      BY <1>5 DEF HandlerPacket, HandlerWake, urbVars, usbVars
    <2>2. Known' /\ BufferLifetime'
      BY <2>1 DEF UniInv, Known, Marking, BufferLifetime
    <2>3. Killed' /\ Unsubmitted'
      BY <2>1 DEF UniInv, Killed, Unsubmitted, Fresh, AtRest
    <2>4. QED
      BY <1>1, <2>2, <2>3 DEF UniInv
  <1>6. QED
    BY <1>2, <1>3, <1>4, <1>5

LEMMA UniNext == SMP = FALSE /\ UniInv /\ [Next]_vars => UniInv'
  <1> SUFFICES ASSUME SMP = FALSE, UniInv, [Next]_vars PROVE UniInv'
    OBVIOUS
  <1>1. TypeOK' /\ OneHolder'
    BY TypeNext, HolderNext DEF UniInv
  <1>2. ASSUME NEW p \in Procs, TaskStep(p) \/ UserStep(p) PROVE UniInv'
    BY <1>1, <1>2, UniTask
  <1>3. CASE OtherStep
    <2>1. UNCHANGED <<pc, idx, opened, allocated>>
      BY <1>3, OtherFrame
    <2>2. CASE (\E u \in Urbs : HandlerEnter(u)) \/ HandlerStep
      BY <1>1, <2>1, <2>2, UniHandler DEF HandlerStep
    <2>3. CASE Unplug \/ DiscStep \/ UNCHANGED vars
      <3>1. UNCHANGED coreVars
        BY <2>3 DEF Unplug, DiscStep, DiscBegin, DiscDereg, DiscFlag, DiscArm,
                    DiscCheck, DiscWake, DiscFinish, vars, urbVars, usbVars,
                    irqVars, coreVars
      <3>2. QED
        BY <1>1, <2>1, <3>1, UniFrame
    <2>4. QED
      BY <1>3, <2>2, <2>3 DEF OtherStep
  <1>4. QED
    BY <1>2, <1>3, NextCases

LEMMA UniInit == Init => UniInv
  <1>1. Init => TypeOK
    BY TypeInit
  <1>2. Init => OneHolder /\ Buffers /\ Known /\ Killed /\ Unsubmitted /\ BufferLifetime
    BY DEF Init, OneHolder, HasOpen, Buffers, Known, Killed, Unsubmitted,
           BufferLifetime
  <1>3. QED
    BY <1>1, <1>2 DEF UniInv

\* On a uniprocessor no URB is in flight, and no handler runs, on buffers that
\* release has freed or that a later open has forgotten.
THEOREM BuffersOutliveTransfers == SMP = FALSE /\ Spec => []BufferLifetime
  <1> SUFFICES ASSUME SMP = FALSE PROVE Spec => []BufferLifetime
    OBVIOUS
  <1>1. UniInv => BufferLifetime
    BY DEF UniInv
  <1>2. UniInv /\ [Next]_vars => UniInv'
    BY UniNext
  <1>3. QED
    BY <1>1, <1>2, UniInit, PTL DEF Spec

\* On a uniprocessor one task at a time has the file open, and its open finds
\* nothing of the session before.
THEOREM OpenStartsClean == SMP = FALSE /\ Spec => []ExclusiveOpen
  <1> SUFFICES ASSUME SMP = FALSE PROVE Spec => []ExclusiveOpen
    OBVIOUS
  <1>1. UniInv => ExclusiveOpen
    <2> SUFFICES ASSUME UniInv, NEW p \in Procs, pc[p] = "open_reset", NEW u \in Urbs
                 PROVE  ~allocated[u] /\ ~inflight[u]
      BY DEF UniInv, OneHolder, ExclusiveOpen
    <2> QED
      BY DEF UniInv, OneHolder, HasOpen, Buffers, BufferLifetime
  <1>2. UniInv /\ [Next]_vars => UniInv'
    BY UniNext
  <1>3. QED
    BY <1>1, <1>2, UniInit, PTL DEF Spec
-----------------------------------------------------------------------------
\* On a uniprocessor no wake-up is lost.  The argument: a reader is on s->wait
\* before it looks at count; from then until its state is set no handler runs,
\* because it holds s->lock; after that, whatever makes count exceed readptr is
\* a handler, and a handler ends by waking everybody on s->wait.

WaitPcs == {"rd_start", "rd_submit", "rd_mark", "rd_wait"}

Queued == \A p \in Procs : pc[p] \in ReadPcs => p \in waitq

Locked == \A p \in Procs : pc[p] = "rd_state" => hpc = "idle" /\ count <= readptr

\* Before the first read of a session has its buffers there is nothing to read,
\* so that clearing readptr when it gets them uncovers nothing.
NothingYet ==
    \A p \in Procs : InUse(p) /\ (\E u \in Urbs : ~allocated[u]) =>
        /\ count = 0 /\ readptr = 0
        /\ pc[p] \notin {"rd_copy", "rd_resetptr", "rd_resetcount"}

Roused ==
    \A p \in Procs :
        pc[p] \in WaitPcs /\ tstate[p] = "sleep" /\ count > readptr => hpc # "idle"

WakeInv == Queued /\ Locked /\ NothingYet /\ Roused

\* While p has the file open, the steps of other tasks do not touch it.
LEMMA WakeVisitor ==
  ASSUME UniInv, WakeInv, OneHolder', NEW p \in Procs, TaskStep(p) \/ UserStep(p),
         NEW q \in Procs, q # p, HasOpen(q)
  PROVE  WakeInv'
  <1>1. pc[p] \in {"none", "open_lock", "oops_open"} /\ opened
    BY DEF UniInv, OneHolder, HasOpen
  <1>2. OpenLookup(p) \/ OpenLock(p)
    BY <1>1 DEF TaskStep, UserStep, OpenReset,
           IoctlEnter, IoctlLock, IoctlSend, ReadEnter, ReadDone, ReadLock,
           ReadSetState, ReadStart, ReadSubmit, ReadMark, ReadWait, ReadCopy,
           ReadResetPtr, ReadResetCount, Signal, Close, RelLock, RelStop,
           RelKill, RelKilled, RelFree, RelWake, RelDone, ReadPcs
  <1>3. /\ UNCHANGED <<waitq, tstate, count, readptr, allocated, hpc>>
        /\ \E l \in {"none", "open_lock", "oops_open"} : Goto(p, l)
    BY <1>1, <1>2 DEF OpenLookup, OpenLock, bufVars, urbVars, irqVars
  <1>4. /\ pc'[p] \in {"none", "open_lock", "oops_open"}
        /\ \A r \in Procs : r # p => pc'[r] = pc[r]
    BY <1>3 DEF Goto, UniInv, TypeOK, TaskOK
  <1>5. Queued'
    BY <1>3, <1>4 DEF WakeInv, Queued, ReadPcs
  <1>6. Locked'
    BY <1>3, <1>4 DEF WakeInv, Locked
  <1>7. NothingYet'
    BY <1>3, <1>4 DEF WakeInv, NothingYet, InUse, IoctlPcs, ReadPcs
  <1>8. Roused'
    BY <1>3, <1>4 DEF WakeInv, Roused, WaitPcs
  <1>9. QED
    BY <1>5, <1>6, <1>7, <1>8 DEF WakeInv

LEMMA WakeHolder ==
  ASSUME SMP = FALSE, UniInv, WakeInv, UniInv', NEW p \in Procs,
         TaskStep(p) \/ UserStep(p), \A q \in Procs : q # p => ~HasOpen(q)
  PROVE  WakeInv'
  <1>0. hpc = "idle"
    BY DEF TaskStep, UserStep, TaskMayRun, OpenLookup, OpenLock, OpenReset,
           IoctlEnter, IoctlLock, IoctlSend, ReadEnter, ReadDone, ReadLock,
           ReadSetState, ReadStart, ReadSubmit, ReadMark, ReadWait, ReadCopy,
           ReadResetPtr, ReadResetCount, Signal, Close, RelLock, RelStop,
           RelKill, RelKilled, RelFree, RelWake, RelDone
  <1>1. hpc' = "idle"
    BY <1>0 DEF TaskStep, UserStep, irqVars, OpenLookup, OpenLock, OpenReset,
           IoctlEnter, IoctlLock, IoctlSend, ReadEnter, ReadDone, ReadLock,
           ReadSetState, ReadStart, ReadSubmit, ReadMark, ReadWait, ReadCopy,
           ReadResetPtr, ReadResetCount, Signal, Close, RelLock, RelStop,
           RelKill, RelKilled, RelFree, RelWake, RelDone
  <1> DEFINE Here ==
        /\ pc[p] \in ReadPcs => p \in waitq
        /\ pc[p] = "rd_state" => count <= readptr
        /\ InUse(p) /\ (\E u \in Urbs : ~allocated[u]) =>
             /\ count = 0 /\ readptr = 0
             /\ pc[p] \notin {"rd_copy", "rd_resetptr", "rd_resetcount"}
        /\ pc[p] \in WaitPcs /\ tstate[p] = "sleep" => ~(count > readptr)
  <1>2. Here
    BY <1>0 DEF WakeInv, Queued, Locked, NothingYet, Roused
  <1>3. \A q \in Procs : q # p => pc[q] \in {"none", "open_lock", "oops_open"}
    BY DEF HasOpen
  <1>4. \A q \in Procs : q # p => pc'[q] = pc[q]
    BY ZenonT(30) DEF UniInv, TypeOK, TaskOK, Goto, ReadReturn,
           TaskStep, UserStep, taskVars, OpenLookup, OpenLock, OpenReset,
           IoctlEnter, IoctlLock, IoctlSend, ReadEnter, ReadDone, ReadLock,
           ReadSetState, ReadStart, ReadSubmit, ReadMark, ReadWait, ReadCopy,
           ReadResetPtr, ReadResetCount, Signal, Close, RelLock, RelStop,
           RelKill, RelKilled, RelFree, RelWake, RelDone
  <1>5. Here' => WakeInv'
    <2> SUFFICES ASSUME Here' PROVE WakeInv'
      OBVIOUS
    <2>1. Queued'
      BY <1>3, <1>4 DEF Queued, ReadPcs
    <2>2. Locked'
      BY <1>1, <1>3, <1>4 DEF Locked
    <2>3. NothingYet'
      BY <1>3, <1>4 DEF NothingYet, InUse, IoctlPcs, ReadPcs
    <2>4. Roused'
      BY <1>3, <1>4 DEF Roused, WaitPcs
    <2>5. QED
      BY <2>1, <2>2, <2>3, <2>4 DEF WakeInv
  <1>6. pc \in [Procs -> TaskPcs] /\ tstate \in [Procs -> {"run", "sleep"}]
        /\ count \in Nat /\ readptr \in Nat /\ idx[p] \in Nat
    BY DEF UniInv, TypeOK, TaskOK, BufOK
  <1> USE <1>6 DEF Goto, InUse, IoctlPcs, ReadPcs, WaitPcs
  \* Steps that touch neither the queue nor the buffer.
  <1>7. ASSUME UNCHANGED <<waitq, tstate, count, readptr, allocated>>,
               \/ pc'[p] \notin ReadPcs \cup {"user"} \cup IoctlPcs
               \/ pc'[p] = pc[p]
               \/ pc[p] \in ReadPcs \cup {"user"} \cup IoctlPcs /\ pc'[p] \in {"user", "io_lock", "io_send"}
               \/ pc[p] \in ReadPcs /\ pc'[p] = "rd_lock"
               \/ pc[p] \in WaitPcs /\ pc'[p] \in WaitPcs
        PROVE  Here'
    BY <1>2, <1>7
  <1>8. CASE OpenLookup(p) \/ OpenLock(p)
    BY <1>5, <1>7, <1>8 DEF OpenLookup, OpenLock, bufVars, urbVars
  <1>9. CASE OpenReset(p)
    <2>1. Here'
      BY <1>9 DEF OpenReset
    <2>2. QED
      BY <1>5, <2>1
  <1>10. CASE IoctlEnter(p) \/ IoctlLock(p) \/ IoctlSend(p)
    BY <1>5, <1>7, <1>10 DEF IoctlEnter, IoctlLock, IoctlSend, bufVars, urbVars
  <1>11. CASE ReadEnter(p)
    <2>1. Here'
      BY <1>2, <1>11 DEF ReadEnter, bufVars, urbVars
    <2>2. QED
      BY <1>5, <2>1
  <1>12. CASE ReadDone(p)
    <2>1. Here'
      BY <1>2, <1>12 DEF ReadDone, ReadReturn, bufVars, urbVars
    <2>2. QED
      BY <1>5, <2>1
  <1>13. CASE ReadLock(p)
    <2>1. want[p] \in Nat
      BY DEF UniInv, TypeOK, TaskOK
    <2>2. \/ pc'[p] = "rd_state" /\ count <= readptr
          \/ pc'[p] = "rd_copy" /\ count > readptr
      BY <1>13, <2>1 DEF ReadLock
    <2>3. Here'
      BY <1>2, <1>13, <2>2 DEF ReadLock, bufVars, urbVars
    <2>4. QED
      BY <1>5, <2>3
  <1>14. CASE ReadSetState(p)
    <2>1. Here'
      BY <1>2, <1>14 DEF ReadSetState, bufVars, urbVars
    <2>2. QED
      BY <1>5, <2>1
  <1>15. CASE ReadStart(p)
    <2>1. CASE Goto(p, "rd_wait") /\ UNCHANGED <<waitq, tstate, readptr, allocated>>
      BY <1>5, <1>7, <1>15, <2>1 DEF ReadStart
    <2>2. CASE Goto(p, "oops_read") /\ UNCHANGED <<waitq, tstate, readptr, allocated>>
      BY <1>5, <1>7, <1>15, <2>2 DEF ReadStart
    <2>3. CASE /\ \E u \in Urbs : ~allocated[u]
               /\ ReadReturn(p) /\ UNCHANGED readptr
      <3>1. count' = 0 /\ readptr' = 0 /\ pc'[p] = "user"
        BY <1>2, <1>15, <2>3 DEF ReadStart, ReadReturn
      <3>2. QED
        BY <1>5, <3>1
    <2>4. CASE /\ \E u \in Urbs : ~allocated[u]
               /\ allocated' = [u \in Urbs |-> TRUE] /\ readptr' = 0
               /\ Goto(p, "rd_submit") /\ UNCHANGED waitq
      <3>1. count' = 0 /\ pc'[p] = "rd_submit" /\ p \in waitq'
        BY <1>2, <1>15, <2>4 DEF ReadStart
      <3>2. QED
        BY <1>5, <2>4, <3>1
    <2>5. QED
      BY <1>15, <2>1, <2>2, <2>3, <2>4 DEF ReadStart
  <1>16. CASE ReadSubmit(p)
    <2>1. pc'[p] \in WaitPcs
      BY <1>16 DEF ReadSubmit
    <2>2. QED
      BY <1>5, <1>7, <1>16, <2>1 DEF ReadSubmit, bufVars
  <1>17. CASE ReadMark(p)
    BY <1>5, <1>7, <1>17 DEF ReadMark, bufVars
  <1>18. CASE ReadWait(p)
    <2>1. Here'
      BY <1>2, <1>18 DEF ReadWait, ReadReturn, bufVars, urbVars
    <2>2. QED
      BY <1>5, <2>1
  <1>19. CASE ReadCopy(p)
    <2>1. /\ pc'[p] \in {"user", "rd_lock", "rd_resetptr"}
          /\ UNCHANGED <<waitq, allocated, tstate>>
      BY <1>19 DEF ReadCopy, urbVars
    <2>2. \A u \in Urbs : allocated[u]
      BY <1>2, <1>19 DEF ReadCopy
    <2>3. pc'[p] \in ReadPcs => p \in waitq'
      BY <1>2, <1>19, <2>1 DEF ReadCopy
    <2>4. QED
      BY <1>5, <2>1, <2>2, <2>3
  <1>20. CASE ReadResetPtr(p)
    <2>1. Here'
      BY <1>2, <1>20 DEF ReadResetPtr, urbVars
    <2>2. QED
      BY <1>5, <2>1
  <1>21. CASE ReadResetCount(p)
    <2>1. Here'
      BY <1>2, <1>21 DEF ReadResetCount, urbVars
    <2>2. QED
      BY <1>5, <2>1
  <1>22. CASE Signal(p)
    BY <1>5, <1>7, <1>22 DEF Signal, bufVars, urbVars
  <1>23. CASE Close(p) \/ RelLock(p) \/ RelStop(p) \/ RelKill(p) \/ RelKilled(p)
              \/ RelFree(p) \/ RelWake(p) \/ RelDone(p)
    <2>1. pc'[p] \notin ReadPcs \cup {"user"} \cup IoctlPcs
      BY <1>23 DEF Close, RelLock, RelStop, RelKill, RelKilled, RelFree, RelWake, RelDone
    <2>2. QED
      BY <1>5, <2>1
  <1>24. QED
    BY <1>8, <1>9, <1>10, <1>11, <1>12, <1>13, <1>14, <1>15, <1>16, <1>17,
       <1>18, <1>19, <1>20, <1>21, <1>22, <1>23 DEF TaskStep, UserStep

\* The handler, the USB core and the hub task.
LEMMA WakeOther ==
  ASSUME SMP = FALSE, UniInv, WakeInv, OtherStep
  PROVE  WakeInv'
  <1> USE DEF WakeInv
  <1>1. UNCHANGED <<pc, allocated>>
    BY OtherFrame
  <1>2. UNCHANGED <<waitq, readptr>>
    <2>1. \A u \in Urbs : HandlerEnter(u) => UNCHANGED <<waitq, readptr>>
      BY DEF HandlerEnter, taskVars, bufVars
    <2>2. HandlerStep \/ Unplug \/ UNCHANGED vars => UNCHANGED <<waitq, readptr>>
      BY DEF HandlerStep, HandlerPacket, HandlerSubmit, HandlerMark, HandlerWake,
             Unplug, vars, taskVars, bufVars
    <2>3. DiscStep => UNCHANGED <<waitq, readptr>>
      BY DEF DiscStep, DiscBegin, DiscDereg, DiscFlag, DiscArm, DiscCheck,
             DiscWake, DiscFinish, taskVars, bufVars
    <2>4. QED
      BY <2>1, <2>2, <2>3 DEF OtherStep
  <1>3. Queued'
    BY <1>1, <1>2 DEF Queued
  <1>4. CASE HandlerPacket
    <2>1. hpc = "packet" /\ hpc' # "idle"
      BY <1>4 DEF HandlerPacket
    <2>2. \A u \in Urbs : allocated[u]
      BY <2>1 DEF UniInv, Buffers, BufferLifetime, TypeOK, IrqOK
    <2>3. NothingYet'
      BY <1>1, <2>2 DEF NothingYet
    <2>4. Locked' /\ Roused'
      BY <1>1, <2>1 DEF Locked, Roused
    <2>5. QED
      BY <1>3, <2>3, <2>4
  <1>5. CASE ~HandlerPacket
    <2>1. UNCHANGED count
      <3>1. \A u \in Urbs : HandlerEnter(u) => UNCHANGED count
        BY DEF HandlerEnter, bufVars
      <3>2. HandlerStep \/ Unplug \/ UNCHANGED vars => UNCHANGED count
        BY <1>5 DEF HandlerStep, HandlerSubmit, HandlerMark, HandlerWake,
               Unplug, vars, bufVars
      <3>3. DiscStep => UNCHANGED count
        BY DEF DiscStep, DiscBegin, DiscDereg, DiscFlag, DiscArm, DiscCheck,
               DiscWake, DiscFinish, bufVars
      <3>4. QED
        BY <3>1, <3>2, <3>3 DEF OtherStep
    <2>2. NothingYet'
      BY <1>1, <1>2, <2>1 DEF NothingYet, InUse
    <2>3. CASE \E u \in Urbs : HandlerEnter(u)
      <3>1. hpc = "idle" /\ hpc' # "idle" /\ ~IrqsOff
        BY <2>3 DEF HandlerEnter
      <3>2. QED
        BY <1>1, <1>3, <2>2, <3>1 DEF Locked, Roused, IrqsOff
    <2>4. CASE HandlerSubmit \/ HandlerMark
      <3>1. hpc # "idle" /\ hpc' # "idle"
        BY <2>4 DEF HandlerSubmit, HandlerMark
      <3>2. QED
        BY <1>1, <1>3, <2>2, <3>1 DEF Locked, Roused
    <2>5. CASE HandlerWake
      <3>1. /\ hpc = "wake"
            /\ \A p \in Procs : p \in waitq => tstate'[p] = "run"
        BY <2>5 DEF HandlerWake, WakeReaders
      <3>2. Locked'
        BY <1>1, <3>1 DEF Locked
      <3>3. Roused'
        BY <1>1, <3>1 DEF Roused, Queued, WaitPcs, ReadPcs
      <3>4. QED
        BY <1>3, <2>2, <3>2, <3>3
    <2>6. CASE Unplug \/ DiscStep \/ UNCHANGED vars
      <3>1. UNCHANGED hpc
        BY <2>6 DEF Unplug, DiscStep, DiscBegin, DiscDereg, DiscFlag, DiscArm,
                    DiscCheck, DiscWake, DiscFinish, vars, irqVars
      <3>2. \A p \in Procs : tstate'[p] \in {"run", tstate[p]}
        <4>1. CASE DiscFlag
          BY <4>1 DEF DiscFlag, WakeReaders
        <4>2. CASE ~DiscFlag
          BY <2>6, <4>2 DEF Unplug, DiscStep, DiscBegin, DiscDereg, DiscArm,
                    DiscCheck, DiscWake, DiscFinish, vars, taskVars
        <4>3. QED
          BY <4>1, <4>2
      <3>3. Locked' /\ Roused'
        BY <1>1, <1>2, <2>1, <3>1, <3>2 DEF Locked, Roused
      <3>4. QED
        BY <1>3, <2>2, <3>3
    <2>7. QED
      BY <1>5, <2>3, <2>4, <2>5, <2>6 DEF OtherStep, HandlerStep
  <1>6. QED
    BY <1>4, <1>5

LEMMA WakeNext ==
  SMP = FALSE /\ UniInv /\ WakeInv /\ [Next]_vars => UniInv' /\ WakeInv'
  <1> SUFFICES ASSUME SMP = FALSE, UniInv, WakeInv, [Next]_vars PROVE UniInv' /\ WakeInv'
    OBVIOUS
  <1>1. UniInv'
    BY UniNext
  <1>2. CASE OtherStep
    BY <1>1, <1>2, WakeOther
  <1>3. ASSUME NEW p \in Procs, TaskStep(p) \/ UserStep(p) PROVE WakeInv'
    <2>1. CASE \E q \in Procs : q # p /\ HasOpen(q)
      BY <1>1, <1>3, <2>1, WakeVisitor DEF UniInv
    <2>2. CASE \A q \in Procs : q # p => ~HasOpen(q)
      BY <1>1, <1>3, <2>2, WakeHolder
    <2>3. QED
      BY <2>1, <2>2
  <1>4. QED
    BY <1>1, <1>2, <1>3, NextCases

\* On a uniprocessor a reader never sleeps on data that nobody will wake it for.
THEOREM NoWakeupLost == SMP = FALSE /\ Spec => []NoLostWakeup
  <1> SUFFICES ASSUME SMP = FALSE PROVE Spec => []NoLostWakeup
    OBVIOUS
  <1>1. Init => UniInv /\ WakeInv
    BY UniInit DEF Init, WakeInv, Queued, Locked, NothingYet, Roused, ReadPcs,
                   WaitPcs, InUse, IoctlPcs
  <1>2. WakeInv => NoLostWakeup
    BY DEF WakeInv, Roused, WaitPcs, NoLostWakeup
  <1>3. QED
    BY <1>1, <1>2, WakeNext, PTL DEF Spec

-----------------------------------------------------------------------------
(***************************************************************************)
(* The tasks and disconnect: the wake-up of a disconnect that waits is not *)
(* lost, a disconnect that waited leaves nobody behind, and a task stays   *)
(* on s->wait only through a fault.  These hold with and without SMP, for  *)
(* any number of tasks, URBs and packets.                                  *)
(***************************************************************************)

\* usbdev is cleared by disconnect's last step alone, and only after that step
\* does a task find it cleared.
Cleared ==
    /\ usbdev <=> dpc # "done"
    /\ \A p \in Procs : pc[p] \in {"oops_ioctl", "oops_read"} => dpc = "done"

\* The receiver is started only while a task that will stop it has the file open.
Holding ==
    state = "started" =>
        \E p \in Procs : InUse(p) \/ pc[p] \in {"rel_lock", "rel_stop", "oops_ioctl"}

\* Once the minor is deregistered no open is under way, and none begins.
Closed == \A p \in Procs : pc[p] \in OpenPcs => dpc \in {"none", "dereg"}

\* A disconnect that has armed its wait and is runnable again, or has got past
\* the wait, has seen the last task leave.
Inactive == \A p \in Procs : pc[p] \in {"none", "oops_open", "rel_done"}
Departed ==
    /\ dpc \in {"check", "wait"} /\ dtask = "run" => Inactive
    /\ dpc = "wait" => dwaited
    /\ dwaited => dpc \in {"wait", "finish", "done"}
    /\ dwaited /\ dpc # "wait" => Inactive

UnplugInv == Cleared /\ Holding /\ Closed /\ Departed /\ NoLostRemoveWakeup

\* Where a step of a task takes it, and what it does to the state that disconnect shares.
Move(p) ==
    /\ \A q \in Procs : q # p => pc'[q] = pc[q]
    /\ UNCHANGED <<dpc, dwaited, usbdev>>
    /\ \/ UNCHANGED <<dtask, state>>
       \/ pc[p] = "rd_start" /\ pc'[p] = "rd_submit" /\ UNCHANGED dtask
       \/ pc[p] = "rel_stop" /\ state' = "stopped" /\ UNCHANGED dtask
       \/ /\ pc[p] = "rel_wake" /\ UNCHANGED state
          /\ dtask' = IF dpc \in {"check", "wait"} THEN "run" ELSE dtask
    /\ \/ pc[p] = "none" /\ pc'[p] = "oops_open"
       \/ pc[p] = "none" /\ pc'[p] = "open_lock" /\ dpc \in {"none", "dereg"}
       \/ pc[p] \in OpenPcs /\ pc'[p] \in {"none", "open_reset", "user"}
       \/ InUse(p) /\ pc'[p] \in {"user", "rel_lock"} \cup IoctlPcs \cup ReadPcs
       \/ InUse(p) /\ pc'[p] = "oops_ioctl" /\ ~usbdev
       \/ InUse(p) /\ pc'[p] = "oops_read" /\ ~usbdev /\ state # "started"
       \/ pc[p] = "rel_lock" /\ pc'[p] = "rel_stop"
       \/ pc[p] = "rel_stop" /\ pc'[p] = "rel_kill" /\ state' = "stopped"
       \/ pc[p] \in {"rel_kill", "rel_wait", "rel_free"}
          /\ pc'[p] \in {"rel_kill", "rel_wait", "rel_free", "rel_wake"}
       \/ /\ pc[p] = "rel_wake" /\ pc'[p] = "rel_done"
          /\ dtask' = IF dpc \in {"check", "wait"} THEN "run" ELSE dtask
       \/ pc[p] = "rel_done" /\ pc'[p] = "none"

LEMMA TaskMoves ==
  ASSUME TypeOK, NEW p \in Procs, TaskStep(p) \/ UserStep(p)
  PROVE  Move(p)
  <1>0. pc \in [Procs -> TaskPcs]
    BY DEF TypeOK, TaskOK
  <1> USE <1>0 DEF Move, Goto, InUse, IoctlPcs, ReadPcs, OpenPcs, discVars, histVars, devVars
  <1>1. CASE OpenLookup(p)
    BY <1>1 DEF OpenLookup, registered
  <1>2. CASE OpenLock(p) \/ OpenReset(p)
    BY <1>2 DEF OpenLock, OpenReset
  <1>3. CASE IoctlEnter(p) \/ IoctlLock(p) \/ IoctlSend(p)
    BY <1>3 DEF IoctlEnter, IoctlLock, IoctlSend
  <1>4. CASE ReadEnter(p) \/ ReadDone(p) \/ ReadSetState(p) \/ ReadWait(p)
    BY <1>4 DEF ReadEnter, ReadDone, ReadSetState, ReadWait, ReadReturn
  <1>5. CASE ReadLock(p)
    <2>1. pc[p] = "rd_lock" /\ (Goto(p, "rd_state") \/ Goto(p, "rd_copy"))
      BY <1>5 DEF ReadLock
    <2>2. QED
      BY <1>5, <2>1 DEF ReadLock
  <1>6. CASE ReadStart(p)
    <2>1. pc[p] = "rd_start" /\ UNCHANGED <<dpc, dtask, dwaited, usbdev>>
      BY <1>6 DEF ReadStart
    <2>2. \/ Goto(p, "rd_wait") /\ UNCHANGED state
          \/ Goto(p, "oops_read") /\ ~usbdev /\ state # "started" /\ UNCHANGED state
          \/ Goto(p, "user") /\ UNCHANGED state
          \/ Goto(p, "rd_submit")
      BY <1>6 DEF ReadStart, ReadReturn
    <2>3. QED
      BY <2>1, <2>2
  <1>7. CASE ReadSubmit(p)
    <2>1. pc[p] = "rd_submit" /\ UNCHANGED <<dpc, dtask, dwaited, usbdev, state>>
      BY <1>7 DEF ReadSubmit
    <2>2. Goto(p, "rd_wait") \/ Goto(p, "rd_mark") \/ UNCHANGED pc
      BY <1>7 DEF ReadSubmit
    <2>3. QED
      BY <2>1, <2>2
  <1>8. CASE ReadMark(p) \/ ReadResetPtr(p) \/ ReadResetCount(p) \/ Signal(p)
    BY <1>8 DEF ReadMark, ReadResetPtr, ReadResetCount, Signal
  <1>9. CASE ReadCopy(p)
    <2>1. pc[p] = "rd_copy" /\ UNCHANGED <<dpc, dtask, dwaited, usbdev, state>>
      BY <1>9 DEF ReadCopy
    <2>2. Goto(p, "rd_resetptr") \/ Goto(p, "rd_lock") \/ Goto(p, "user")
      BY <1>9 DEF ReadCopy
    <2>3. QED
      BY <2>1, <2>2
  <1>10. CASE Close(p) \/ RelLock(p) \/ RelStop(p)
    BY <1>10 DEF Close, RelLock, RelStop
  <1>11. CASE RelKill(p)
    <2>1. pc[p] = "rel_kill" /\ UNCHANGED <<dpc, dtask, dwaited, usbdev, state>>
      BY <1>11 DEF RelKill
    <2>2. Goto(p, "rel_free") \/ Goto(p, "rel_wait") \/ UNCHANGED pc
      BY <1>11 DEF RelKill
    <2>3. QED
      BY <2>1, <2>2
  <1>12. CASE RelKilled(p) \/ RelFree(p) \/ RelWake(p) \/ RelDone(p)
    BY <1>12 DEF RelKilled, RelFree, RelWake, RelDone
  <1>13. QED
    BY <1>1, <1>2, <1>3, <1>4, <1>5, <1>6, <1>7, <1>8, <1>9, <1>10, <1>11, <1>12
    DEF TaskStep, UserStep

LEMMA UnplugTask ==
  ASSUME TypeOK, OneHolder, UnplugInv, NEW p \in Procs, Move(p)
  PROVE  UnplugInv'
  <1>0. /\ \A q \in Procs : q # p => pc'[q] = pc[q]
        /\ UNCHANGED <<dpc, dwaited, usbdev>>
    BY DEF Move
  <1>1. HasOpen(p) => \A q \in Procs : q # p => pc[q] \in {"none", "open_lock", "oops_open"}
    BY DEF OneHolder, HasOpen
  <1>2. Cleared'
    BY <1>0 DEF UnplugInv, Cleared, Move, IoctlPcs, ReadPcs, OpenPcs
  <1>3. Holding'
    BY <1>0, <1>1 DEF UnplugInv, Holding, Move, HasOpen, InUse, IoctlPcs, ReadPcs, OpenPcs
  <1>4. Closed'
    BY <1>0 DEF UnplugInv, Closed, Move, InUse, IoctlPcs, ReadPcs, OpenPcs
  <1>5. Inactive /\ dpc \notin {"none", "dereg"} => Inactive' /\ UNCHANGED dtask
    BY <1>0 DEF Inactive, Move, InUse, IoctlPcs, ReadPcs, OpenPcs
  <1>6. pc[p] = "rel_wake" /\ dpc \notin {"none", "dereg"} => Inactive'
    BY <1>0, <1>1 DEF UnplugInv, Closed, Inactive, Move, HasOpen, InUse, IoctlPcs, ReadPcs, OpenPcs
  <1>7. dtask' = dtask \/ pc[p] = "rel_wake"
    BY DEF Move
  <1>8. Departed'
    BY <1>0, <1>5, <1>6, <1>7 DEF UnplugInv, Departed
  <1>9. NoLostRemoveWakeup'
    <2> SUFFICES ASSUME dpc' = "wait", dtask' = "sleep"
                 PROVE  \E q \in Procs : InUse(q)' \/ pc'[q] \in ReleasePcs \ {"rel_done"}
      BY DEF NoLostRemoveWakeup
    <2>1. dpc = "wait" /\ usbdev
      BY <1>0 DEF UnplugInv, Cleared
    <2>2. pc[p] # "rel_wake" /\ dtask = "sleep"
      BY <2>1 DEF Move, InUse, IoctlPcs, ReadPcs, OpenPcs
    <2>3. PICK q \in Procs : InUse(q) \/ pc[q] \in ReleasePcs \ {"rel_done"}
      BY <2>1, <2>2 DEF UnplugInv, NoLostRemoveWakeup
    <2>4. InUse(q)' \/ pc'[q] \in ReleasePcs \ {"rel_done"}
      BY <1>0, <2>1, <2>2, <2>3 DEF Move, InUse, IoctlPcs, ReadPcs, OpenPcs, ReleasePcs
    <2>5. QED
      BY <2>4
  <1>10. QED
    BY <1>2, <1>3, <1>4, <1>8, <1>9 DEF UnplugInv

LEMMA UnplugOther ==
  ASSUME TypeOK, UnplugInv, OtherStep
  PROVE  UnplugInv'
  <1>1. UNCHANGED pc
    BY OtherFrame
  <1> USE DEF InUse, Inactive
  <1>2. CASE (\E u \in Urbs : HandlerEnter(u)) \/ HandlerStep \/ Unplug \/ UNCHANGED vars
    <2>1. UNCHANGED <<dpc, dtask, dwaited, usbdev, state>>
      BY <1>2 DEF HandlerEnter, HandlerStep, HandlerPacket, HandlerSubmit, HandlerMark,
                  HandlerWake, Unplug, vars, discVars, devVars, histVars
    <2>2. QED
      BY <1>1, <2>1 DEF UnplugInv, Cleared, Holding, Closed, Departed, NoLostRemoveWakeup
  <1>3. CASE DiscBegin \/ DiscDereg \/ DiscFlag \/ DiscArm
    <2>1. /\ UNCHANGED <<dwaited, usbdev, state>>
          /\ \/ dpc = "none" /\ dpc' = "dereg"
             \/ dpc = "dereg" /\ dpc' = "flag" /\ \A p \in Procs : pc[p] \notin OpenPcs
             \/ dpc = "flag" /\ dpc' = "arm"
             \/ dpc = "arm" /\ dpc' = "check" /\ dtask' = "sleep"
      BY <1>3 DEF DiscBegin, DiscDereg, DiscFlag, DiscArm, devVars, histVars
    <2>2. Cleared' /\ Holding' /\ NoLostRemoveWakeup'
      BY <1>1, <2>1 DEF UnplugInv, Cleared, Holding, NoLostRemoveWakeup
    <2>3. Closed'
      BY <1>1, <2>1 DEF UnplugInv, Closed
    <2>4. Departed'
      BY <1>1, <2>1 DEF UnplugInv, Departed
    <2>5. QED
      BY <2>2, <2>3, <2>4 DEF UnplugInv
  <1>4. CASE DiscCheck
    <2>1. /\ UNCHANGED <<usbdev, state, dtask>> /\ dpc = "check"
          /\ dpc' = IF state = "started" THEN "wait" ELSE "finish"
          /\ dwaited' <=> state = "started"
      BY <1>4 DEF DiscCheck, devVars
    <2>2. Cleared' /\ Holding' /\ Closed'
      BY <1>1, <2>1 DEF UnplugInv, Cleared, Holding, Closed
    <2>3. Departed'
      BY <1>1, <2>1 DEF UnplugInv, Departed
    <2>4. NoLostRemoveWakeup'
      BY <1>1, <2>1 DEF UnplugInv, Cleared, Holding, NoLostRemoveWakeup, ReleasePcs
    <2>5. QED
      BY <2>2, <2>3, <2>4 DEF UnplugInv
  <1>5. CASE DiscWake
    <2>1. /\ UNCHANGED <<usbdev, state, dwaited>> /\ dpc = "wait" /\ dtask = "run"
          /\ dpc' = "finish"
      BY <1>5 DEF DiscWake, devVars, histVars
    <2>2. QED
      BY <1>1, <2>1 DEF UnplugInv, Cleared, Holding, Closed, Departed, NoLostRemoveWakeup
  <1>6. CASE DiscFinish
    <2>1. /\ UNCHANGED <<state, dwaited>> /\ dpc = "finish" /\ dpc' = "done"
          /\ ~usbdev'
      BY <1>6 DEF DiscFinish, histVars
    <2>2. QED
      BY <1>1, <2>1 DEF UnplugInv, Cleared, Holding, Closed, Departed, NoLostRemoveWakeup
  <1>7. QED
    BY <1>2, <1>3, <1>4, <1>5, <1>6 DEF OtherStep, DiscStep

LEMMA UnplugInvariant == Spec => []UnplugInv
  <1>1. Init => UnplugInv
    BY DEF Init, UnplugInv, Cleared, Holding, Closed, Departed, NoLostRemoveWakeup, OpenPcs
  <1>2. TypeOK /\ OneHolder /\ UnplugInv /\ [Next]_vars => UnplugInv'
    BY TaskMoves, UnplugTask, UnplugOther, NextCases
  <1>3. Init => OneHolder
    BY DEF Init, OneHolder, HasOpen
  <1>4. QED
    BY <1>1, <1>2, <1>3, HolderNext, TypeCorrect, PTL DEF Spec

\* While wavefinder_disconnect sleeps, a task that will wake it is still before its
\* wake_up(&s->remove_ok).
THEOREM DisconnectIsWoken == Spec => []NoLostRemoveWakeup
  <1>1. UnplugInv => NoLostRemoveWakeup
    BY DEF UnplugInv
  <1>2. QED
    BY <1>1, UnplugInvariant, PTL

\* If wavefinder_disconnect found the receiver started, nobody uses usbdev after it has
\* cleared it: it has waited until the last task was through release.
THEOREM WaitingPreventsFaults == Spec => []NoFaultWhenStreaming
  <1>1. UnplugInv => NoFaultWhenStreaming
    BY DEF UnplugInv, Cleared, Departed, Inactive, NoFaultWhenStreaming
  <1>2. QED
    BY <1>1, UnplugInvariant, PTL

-----------------------------------------------------------------------------
\* Entries left on s->wait

LEMMA StaleNext ==
  ASSUME TypeOK, StaleWaiterFaulted, [Next]_vars
  PROVE  StaleWaiterFaulted'
  <1> USE DEF StaleWaiterFaulted
  <1>1. CASE OtherStep
    <2>1. UNCHANGED <<pc, waitq>>
      <3>1. UNCHANGED pc
        BY <1>1, OtherFrame
      <3>2. UNCHANGED waitq
        BY <1>1 DEF OtherStep, HandlerEnter, HandlerStep, HandlerPacket, HandlerSubmit,
               HandlerMark, HandlerWake, Unplug, vars, taskVars, DiscStep, DiscBegin,
               DiscDereg, DiscFlag, DiscArm, DiscCheck, DiscWake, DiscFinish
      <3>3. QED
        BY <3>1, <3>2
    <2>2. QED
      BY <2>1
  <1>2. ASSUME NEW p \in Procs, TaskStep(p) \/ UserStep(p)
        PROVE  StaleWaiterFaulted'
    <2>0. pc \in [Procs -> TaskPcs] /\ waitq \subseteq Procs
      BY DEF TypeOK, TaskOK
    <2>1. \A q \in Procs : q # p => pc'[q] = pc[q]
      BY <1>2, TaskMoves DEF Move
    <2>2. /\ waitq' \subseteq waitq \cup {p}
          /\ p \in waitq' => pc'[p] \in ReadPcs \/ p \in BadBuffer \/ pc'[p] = "oops_read"
      <3> DEFINE Goal == /\ waitq' \subseteq waitq \cup {p}
                         /\ p \in waitq' => pc'[p] \in ReadPcs \/ p \in BadBuffer \/ pc'[p] = "oops_read"
      <3> USE <2>0 DEF Goto, ReadReturn, ReadPcs
      <3>1. CASE \/ OpenLookup(p) \/ OpenLock(p) \/ OpenReset(p) \/ IoctlEnter(p)
                 \/ IoctlLock(p) \/ IoctlSend(p) \/ Close(p)
        BY <3>1 DEF OpenLookup, OpenLock, OpenReset, IoctlEnter, IoctlLock, IoctlSend, Close
      <3>2. CASE \/ RelLock(p) \/ RelStop(p) \/ RelKill(p) \/ RelKilled(p) \/ RelFree(p)
                 \/ RelWake(p) \/ RelDone(p)
        BY <3>2 DEF RelLock, RelStop, RelKill, RelKilled, RelFree, RelWake, RelDone
      <3>3. CASE ReadEnter(p) \/ ReadDone(p) \/ ReadSetState(p) \/ ReadWait(p)
        BY <3>3 DEF ReadEnter, ReadDone, ReadSetState, ReadWait
      <3>4. CASE ReadLock(p)
        <4>1. UNCHANGED waitq /\ (Goto(p, "rd_state") \/ Goto(p, "rd_copy"))
          BY <3>4 DEF ReadLock
        <4>2. QED
          BY <4>1
      <3>5. CASE ReadStart(p)
        <4>1. \/ UNCHANGED waitq /\ Goto(p, "rd_wait")
              \/ UNCHANGED waitq /\ Goto(p, "oops_read")
              \/ UNCHANGED waitq /\ Goto(p, "rd_submit")
              \/ waitq' = waitq \ {p}
          BY <3>5 DEF ReadStart
        <4>2. QED
          BY <4>1
      <3>6. CASE ReadSubmit(p)
        <4>1. UNCHANGED waitq /\ (Goto(p, "rd_wait") \/ Goto(p, "rd_mark") \/ UNCHANGED pc)
          BY <3>6 DEF ReadSubmit
        <4>2. pc[p] = "rd_submit"
          BY <3>6 DEF ReadSubmit
        <4>3. QED
          BY <4>1, <4>2
      <3>7. CASE ReadCopy(p)
        <4>1. UNCHANGED waitq /\ (Goto(p, "rd_resetptr") \/ Goto(p, "rd_lock") \/ p \in BadBuffer)
          BY <3>7 DEF ReadCopy
        <4>2. QED
          BY <4>1
      <3>8. CASE ReadMark(p) \/ ReadResetPtr(p) \/ ReadResetCount(p) \/ Signal(p)
        BY <3>8 DEF ReadMark, ReadResetPtr, ReadResetCount, Signal
      <3>9. QED
        BY <1>2, <3>1, <3>2, <3>3, <3>4, <3>5, <3>6, <3>7, <3>8 DEF TaskStep, UserStep
    <2>3. QED
      BY <2>0, <2>1, <2>2
  <1>3. QED
    BY <1>1, <1>2, NextCases

\* Every way out of read that runs remove_wait_queue leaves no entry behind; only the
\* "goto err" after a fault of copy_to_user does not run it.
THEOREM OnlyFaultsLeaveWaiters == Spec => []StaleWaiterFaulted
  <1>1. Init => StaleWaiterFaulted
    BY DEF Init, StaleWaiterFaulted
  <1>2. TypeOK /\ StaleWaiterFaulted /\ [Next]_vars => StaleWaiterFaulted'
    BY StaleNext
  <1>3. QED
    BY <1>1, <1>2, TypeCorrect, PTL DEF Spec

=============================================================================
