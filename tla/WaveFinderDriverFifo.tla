------------------------ MODULE WaveFinderDriverFifo ------------------------
(***************************************************************************)
(* The driver implements LossyFifo on a uniprocessor, for any number of    *)
(* tasks, URBs and packets, provided that no two different packets have    *)
(* headers that strncmp takes for the same.                                *)
(***************************************************************************)
EXTENDS WaveFinderDriverProofs

NoConfusion ==
    \A j, k \in 1 .. Len(Stream) :
        SameHeader(Stream[j], Stream[k]) => Stream[j] = Stream[k]

\* Between the reader's tests and what it does next: what it has decided to copy stays
\* there, and an overflow is the only way for count to pass the end of recbuf.
Copying(p) == pc[p] = "rd_copy" => cnt[p] > 0 /\ readptr + cnt[p] <= count
FifoInv ==
    /\ ~overflowed => count <= Slots
    /\ ~Emptying => readptr <= count
    /\ \A p \in Procs : Copying(p)
    /\ \A p \in Procs : pc[p] = "rd_resetcount" => readptr = 0

queueVars == <<count, readptr, recbuf, prevH, sent, got, dropped, overflowed, written>>
ResetPcs  == {"rd_resetptr", "rd_resetcount"}

\* A step of a task that touches neither the buffer nor, except to decide what to copy, the
\* task's place in the loop of read.
LEMMA QuietTask ==
  ASSUME TypeOK, NEW p \in Procs, TaskStep(p) \/ UserStep(p),
         ~OpenReset(p), ~ReadStart(p), ~ReadCopy(p), ~ReadResetPtr(p), ~ReadResetCount(p)
  PROVE  /\ UNCHANGED queueVars
         /\ \A q \in Procs : q # p => pc'[q] = pc[q] /\ cnt'[q] = cnt[q]
         /\ pc'[p] \in ResetPcs \cup {"rd_copy"} =>
               \/ pc'[p] = pc[p] /\ cnt'[p] = cnt[p]
               \/ /\ pc[p] = "rd_lock" /\ pc'[p] = "rd_copy"
                  /\ cnt'[p] > 0 /\ readptr + cnt'[p] <= count
         /\ pc[p] \in ResetPcs => pc'[p] = pc[p]
  <1> DEFINE Goal == /\ UNCHANGED queueVars
                     /\ \A q \in Procs : q # p => pc'[q] = pc[q] /\ cnt'[q] = cnt[q]
                     /\ pc'[p] \in ResetPcs \cup {"rd_copy"} =>
                           \/ pc'[p] = pc[p] /\ cnt'[p] = cnt[p]
                           \/ /\ pc[p] = "rd_lock" /\ pc'[p] = "rd_copy"
                              /\ cnt'[p] > 0 /\ readptr + cnt'[p] <= count
                     /\ pc[p] \in ResetPcs => pc'[p] = pc[p]
  <1>0. /\ pc \in [Procs -> TaskPcs] /\ cnt \in [Procs -> 0 .. UserBuf]
        /\ want \in [Procs -> 0 .. UserBuf] /\ count \in Nat /\ readptr \in Nat /\ UserBuf \in Nat
    BY SizesAssumption DEF TypeOK, TaskOK, BufOK
  <1> USE <1>0 DEF queueVars, ResetPcs, Goto, ReadReturn, bufVars, irqVars, histVars
  <1>1. CASE OpenLookup(p) \/ OpenLock(p) \/ IoctlEnter(p) \/ IoctlLock(p) \/ IoctlSend(p)
    BY <1>1 DEF OpenLookup, OpenLock, IoctlEnter, IoctlLock, IoctlSend
  <1>2. CASE ReadEnter(p) \/ ReadDone(p) \/ ReadSetState(p) \/ ReadWait(p)
    BY <1>2 DEF ReadEnter, ReadDone, ReadSetState, ReadWait
  <1>3. CASE ReadLock(p)
    <2>1. UNCHANGED queueVars
      BY <1>3 DEF ReadLock
    <2>2. CASE Goto(p, "rd_state") /\ UNCHANGED cnt
      BY <1>3, <2>1, <2>2 DEF ReadLock
    <2>3. ASSUME NEW n \in Int, n > 0, readptr + n <= count, Goto(p, "rd_copy"),
                 cnt' = [cnt EXCEPT ![p] = n]
          PROVE  Goal
      BY <1>3, <2>1, <2>3 DEF ReadLock
    <2>4. want[p] \in Int /\ count - readptr \in Int
      BY <1>0
    <2>5. \/ Goto(p, "rd_state") /\ UNCHANGED cnt
          \/ \E n \in Int : /\ n > 0 /\ readptr + n <= count
                            /\ Goto(p, "rd_copy") /\ cnt' = [cnt EXCEPT ![p] = n]
      <3> HIDE DEF Goto
      <3>1. CASE want[p] >= count - readptr
        BY <1>3, <2>4, <3>1 DEF ReadLock
      <3>2. CASE ~(want[p] >= count - readptr)
        BY <1>3, <2>4, <3>2 DEF ReadLock
      <3>3. QED
        BY <3>1, <3>2
    <2>6. QED
      BY <2>2, <2>3, <2>5
  <1>4. CASE ReadSubmit(p) \/ ReadMark(p) \/ Signal(p)
    BY <1>4 DEF ReadSubmit, ReadMark, Signal
  <1>5. CASE Close(p) \/ RelLock(p) \/ RelStop(p) \/ RelKill(p) \/ RelKilled(p)
             \/ RelFree(p) \/ RelWake(p) \/ RelDone(p)
    BY <1>5 DEF Close, RelLock, RelStop, RelKill, RelKilled, RelFree, RelWake, RelDone
  <1>6. QED
    BY <1>1, <1>2, <1>3, <1>4, <1>5 DEF TaskStep, UserStep

\* The same for the handler, unless it is processing a packet, the USB core and disconnect.
LEMMA QuietOther ==
  ASSUME OtherStep, ~HandlerPacket
  PROVE  UNCHANGED queueVars /\ UNCHANGED <<pc, cnt>>
  <1> USE DEF queueVars, bufVars, irqVars, histVars, taskVars
  <1>1. \A u \in Urbs : HandlerEnter(u) => UNCHANGED queueVars /\ UNCHANGED <<pc, cnt>>
    BY DEF HandlerEnter
  <1>2. HandlerStep => UNCHANGED queueVars /\ UNCHANGED <<pc, cnt>>
    BY DEF HandlerStep, HandlerSubmit, HandlerMark, HandlerWake
  <1>3. Unplug \/ UNCHANGED vars => UNCHANGED queueVars /\ UNCHANGED <<pc, cnt>>
    BY DEF Unplug, vars
  <1>4. DiscStep => UNCHANGED queueVars /\ UNCHANGED <<pc, cnt>>
    BY DEF DiscStep, DiscBegin, DiscDereg, DiscFlag, DiscArm, DiscCheck, DiscWake, DiscFinish
  <1>5. QED
    BY <1>1, <1>2, <1>3, <1>4 DEF OtherStep

\* What holds of a task in the middle of read holds of nobody else.
LEMMA OnlyReader ==
  ASSUME OneHolder, NEW p \in Procs, HasOpen(p)
  PROVE  \A q \in Procs : q # p => pc[q] \notin ResetPcs \cup {"rd_copy"}
  BY DEF OneHolder, HasOpen, ResetPcs

LEMMA EmptyingIs == Emptying <=> \E p \in Procs : pc[p] \in ResetPcs
  BY DEF Emptying, ResetPcs

LEMMA QuietEmptying ==
  ASSUME TypeOK, [Next]_vars, ~HandlerPacket,
         \A p \in Procs : /\ ~OpenReset(p) /\ ~ReadStart(p) /\ ~ReadCopy(p)
                          /\ ~ReadResetPtr(p) /\ ~ReadResetCount(p)
  PROVE  UNCHANGED queueVars /\ Emptying' = Emptying /\ (FifoInv => FifoInv')
  <1>1. CASE OtherStep
    BY <1>1, QuietOther DEF Emptying, FifoInv, Copying, queueVars
  <1>2. ASSUME NEW p \in Procs, TaskStep(p) \/ UserStep(p)
        PROVE  UNCHANGED queueVars /\ Emptying' = Emptying /\ (FifoInv => FifoInv')
    <2>1. /\ UNCHANGED queueVars
          /\ \A q \in Procs : q # p => pc'[q] = pc[q] /\ cnt'[q] = cnt[q]
          /\ pc'[p] \in ResetPcs \cup {"rd_copy"} =>
                \/ pc'[p] = pc[p] /\ cnt'[p] = cnt[p]
                \/ /\ pc[p] = "rd_lock" /\ pc'[p] = "rd_copy"
                   /\ cnt'[p] > 0 /\ readptr + cnt'[p] <= count
          /\ pc[p] \in ResetPcs => pc'[p] = pc[p]
      BY <1>2, QuietTask
    <2>2. Emptying' = Emptying
      BY <2>1 DEF Emptying, ResetPcs
    <2>3. ASSUME FifoInv PROVE FifoInv'
      <3>1. \A q \in Procs : Copying(q)'
        BY <2>1, <2>3 DEF FifoInv, Copying, queueVars, ResetPcs
      <3>2. \A q \in Procs : pc'[q] = "rd_resetcount" => readptr' = 0
        BY <2>1, <2>3 DEF FifoInv, queueVars, ResetPcs
      <3>3. QED
        BY <2>1, <2>2, <2>3, <3>1, <3>2 DEF FifoInv, queueVars
    <2>4. QED
      BY <2>1, <2>2, <2>3
  <1>3. QED
    BY <1>1, <1>2, NextCases

\* The steps that touch the buffer, one lemma each: what they do to the variables the
\* refinement looks at, and that they keep FifoInv.

LEMMA AboutOpenReset ==
  ASSUME UniInv, FifoInv, NEW p \in Procs, OpenReset(p)
  PROVE  /\ FifoInv' /\ ~Emptying'
  <1>1. pc \in [Procs -> TaskPcs] /\ HasOpen(p)
    BY DEF UniInv, TypeOK, TaskOK, OpenReset, HasOpen
  <1>2. pc'[p] = "user" /\ \A q \in Procs : q # p => pc'[q] = pc[q]
    BY <1>1 DEF OpenReset, Goto
  <1>3. \A q \in Procs : pc'[q] \notin ResetPcs \cup {"rd_copy"}
    BY <1>1, <1>2, OnlyReader DEF UniInv, ResetPcs
  <1>4. QED
    BY <1>3, SlotsNat DEF OpenReset, FifoInv, Copying, Emptying, ResetPcs

LEMMA AboutReadStart ==
  ASSUME UniInv, WakeInv, FifoInv, NEW p \in Procs, ReadStart(p)
  PROVE  /\ FifoInv' /\ ~Emptying /\ ~Emptying' /\ count' = count /\ readptr' = readptr
         /\ (UNCHANGED recbuf \/ count = 0)
         /\ UNCHANGED <<prevH, sent, got, dropped, overflowed, written>>
  <1>1. pc \in [Procs -> TaskPcs] /\ HasOpen(p)
    BY DEF UniInv, TypeOK, TaskOK, ReadStart, HasOpen
  <1>2. /\ pc'[p] \in {"rd_wait", "oops_read", "user", "rd_submit"}
        /\ \A q \in Procs : q # p => pc'[q] = pc[q]
    BY <1>1 DEF ReadStart, ReadReturn, Goto
  <1>3. \A q \in Procs : pc'[q] \notin ResetPcs \cup {"rd_copy"}
    BY <1>1, <1>2, OnlyReader DEF UniInv, ResetPcs
  <1>4. \A q \in Procs : pc[q] \notin ResetPcs \cup {"rd_copy"}
    BY <1>1, OnlyReader DEF UniInv, ReadStart, ResetPcs
  <1>5. ~Emptying /\ ~Emptying'
    BY <1>3, <1>4 DEF Emptying, ResetPcs
  <1>6. UNCHANGED <<prevH, sent, got, dropped, overflowed, written, count>>
    BY DEF ReadStart, irqVars, histVars
  <1>7. \/ UNCHANGED <<readptr, recbuf>>
        \/ readptr' = 0 /\ (\E u \in Urbs : ~allocated[u])
    BY DEF ReadStart
  <1>8. CASE \E u \in Urbs : ~allocated[u]
    <2>1. count = 0 /\ readptr = 0
      BY <1>8 DEF ReadStart, WakeInv, NothingYet, InUse, ReadPcs
    <2>2. readptr' = readptr
      BY <1>7, <2>1
    <2>3. FifoInv'
      BY <1>3, <1>5, <1>6, <2>1, <2>2 DEF FifoInv, Copying, ResetPcs
    <2>4. QED
      BY <1>5, <1>6, <2>1, <2>2, <2>3
  <1>9. CASE ~\E u \in Urbs : ~allocated[u]
    <2>1. UNCHANGED <<readptr, recbuf>>
      BY <1>7, <1>9
    <2>2. FifoInv'
      BY <1>3, <1>5, <1>6, <2>1 DEF FifoInv, Copying, ResetPcs
    <2>3. QED
      BY <1>5, <1>6, <2>1, <2>2
  <1>10. QED
    BY <1>8, <1>9

LEMMA AboutReadCopy ==
  ASSUME UniInv, FifoInv, NEW p \in Procs, ReadCopy(p)
  PROVE  /\ FifoInv' /\ ~Emptying /\ readptr \in Nat /\ count \in Nat
         /\ UNCHANGED <<count, recbuf, prevH, sent, dropped, overflowed, written>>
         /\ cnt[p] \in Nat /\ cnt[p] > 0 /\ readptr + cnt[p] <= count
         /\ \/ UNCHANGED <<readptr, got>> /\ ~Emptying'
            \/ /\ readptr' = readptr + cnt[p]
               /\ got' = got \o [i \in 1 .. cnt[p] |-> At(readptr + i - 1)]
               /\ Emptying' <=> readptr' = count
  <1>1. /\ pc \in [Procs -> TaskPcs] /\ HasOpen(p) /\ cnt \in [Procs -> 0 .. UserBuf]
        /\ readptr \in Nat /\ count \in Nat /\ cnt[p] \in Nat
    BY SizesAssumption DEF UniInv, TypeOK, TaskOK, BufOK, ReadCopy, HasOpen
  <1>2. \A q \in Procs : q # p => pc'[q] = pc[q] /\ pc[q] \notin ResetPcs \cup {"rd_copy"}
    BY <1>1, OnlyReader DEF ReadCopy, Goto, UniInv
  <1>3. ~Emptying
    BY <1>2, EmptyingIs DEF ReadCopy, ResetPcs
  <1>4. cnt[p] > 0 /\ readptr + cnt[p] <= count /\ readptr <= count
    BY <1>3 DEF FifoInv, Copying, ReadCopy
  <1>5. UNCHANGED <<count, recbuf, prevH, sent, dropped, overflowed, written>>
    BY DEF ReadCopy, irqVars
  <1>6. Emptying' <=> pc'[p] \in ResetPcs
    BY <1>2 DEF Emptying, ResetPcs
  <1>7. CASE UNCHANGED <<readptr, got>> /\ Goto(p, "user")
    <2>1. pc'[p] = "user"
      BY <1>1, <1>7 DEF Goto
    <2>2. FifoInv'
      BY <1>2, <1>4, <1>5, <1>7, <2>1 DEF FifoInv, Copying, ResetPcs
    <2>3. QED
      BY <1>1, <1>3, <1>4, <1>5, <1>6, <1>7, <2>1, <2>2 DEF ResetPcs
  <1>8. CASE /\ readptr' = readptr + cnt[p]
             /\ got' = got \o [i \in 1 .. cnt[p] |-> At(readptr + i - 1)]
             /\ Goto(p, IF readptr' = count THEN "rd_resetptr" ELSE "rd_lock")
    <2>1. pc'[p] = IF readptr' = count THEN "rd_resetptr" ELSE "rd_lock"
      BY <1>1, <1>8 DEF Goto
    <2>2. FifoInv'
      BY <1>1, <1>2, <1>4, <1>5, <1>8, <2>1 DEF FifoInv, Copying, ResetPcs
    <2>3. QED
      BY <1>1, <1>3, <1>4, <1>5, <1>6, <1>8, <2>1, <2>2 DEF ResetPcs
  <1>9. QED
    BY <1>7, <1>8 DEF ReadCopy

LEMMA AboutResetPtr ==
  ASSUME UniInv, FifoInv, NEW p \in Procs, ReadResetPtr(p)
  PROVE  /\ FifoInv' /\ Emptying /\ Emptying'
         /\ UNCHANGED <<count, prevH, sent, got, dropped, overflowed, written>>
  <1>1. pc \in [Procs -> TaskPcs] /\ HasOpen(p)
    BY DEF UniInv, TypeOK, TaskOK, ReadResetPtr, HasOpen
  <1>2. pc'[p] = "rd_resetcount"
    BY <1>1 DEF ReadResetPtr, Goto
  <1>3. \A q \in Procs : q # p => pc'[q] = pc[q] /\ pc[q] \notin ResetPcs \cup {"rd_copy"}
    BY <1>1, OnlyReader DEF ReadResetPtr, Goto, UniInv
  <1>4. Emptying /\ Emptying'
    BY <1>2 DEF Emptying, ReadResetPtr
  <1>5. UNCHANGED <<count, prevH, sent, got, dropped, overflowed, written>>
    BY DEF ReadResetPtr, irqVars, histVars
  <1>6. FifoInv'
    BY <1>2, <1>3, <1>4, <1>5 DEF ReadResetPtr, FifoInv, Copying, ResetPcs
  <1>7. QED
    BY <1>4, <1>5, <1>6

LEMMA AboutResetCount ==
  ASSUME UniInv, FifoInv, NEW p \in Procs, ReadResetCount(p)
  PROVE  /\ FifoInv' /\ Emptying /\ ~Emptying' /\ count' = 0 /\ readptr' = 0
         /\ UNCHANGED <<prevH, sent, got, dropped, overflowed, written>>
  <1>1. pc \in [Procs -> TaskPcs] /\ HasOpen(p)
    BY DEF UniInv, TypeOK, TaskOK, ReadResetCount, HasOpen
  <1>2. pc'[p] = "rd_lock"
    BY <1>1 DEF ReadResetCount, Goto
  <1>3. \A q \in Procs : q # p => pc'[q] = pc[q] /\ pc[q] \notin ResetPcs \cup {"rd_copy"}
    BY <1>1, OnlyReader DEF ReadResetCount, Goto, UniInv
  <1>4. Emptying /\ ~Emptying'
    BY <1>2, <1>3 DEF Emptying, ReadResetCount, ResetPcs
  <1>5. UNCHANGED <<readptr, prevH, sent, got, dropped, overflowed, written>> /\ readptr = 0 /\ count' = 0
    BY DEF ReadResetCount, irqVars, histVars, FifoInv
  <1>6. FifoInv'
    BY <1>2, <1>3, <1>4, <1>5, SlotsNat DEF FifoInv, Copying, ResetPcs
  <1>7. QED
    BY <1>4, <1>5, <1>6

LEMMA AboutPacket ==
  ASSUME UniInv, FifoInv, HandlerPacket
  PROVE  /\ FifoInv' /\ Emptying' = Emptying
         /\ sent' = sent + 1 /\ sent \in Nat /\ sent' \in 1 .. Len(Stream)
         /\ UNCHANGED <<readptr, got>>
  <1>1. UNCHANGED <<pc, cnt, readptr, got>>
    BY DEF HandlerPacket, taskVars
  <1>2. Emptying' = Emptying
    BY <1>1 DEF Emptying
  <1>3. count \in Nat /\ readptr \in Nat /\ \A p \in Procs : cnt[p] \in Nat
    BY SizesAssumption DEF UniInv, TypeOK, BufOK, TaskOK
  <1>4. count' \in {count, count + 1} /\ (~overflowed' => count' <= Slots)
    <2>1. CASE UNCHANGED <<count, overflowed>>
      BY <2>1 DEF FifoInv
    <2>2. CASE count' = count + 1 /\ overflowed' = (overflowed \/ count >= Slots)
      <3>1. overflowed' <=> overflowed \/ count >= Slots
        BY <2>2, Zenon
      <3>2. QED
        BY <1>3, <2>2, <3>1, SlotsNat
    <2>3. QED
      BY <2>1, <2>2 DEF HandlerPacket
  <1>5. FifoInv'
    BY <1>1, <1>2, <1>3, <1>4 DEF FifoInv, Copying
  <1>6. sent' = sent + 1 /\ sent \in Nat /\ sent' \in 1 .. Len(Stream)
    BY StreamLen DEF HandlerPacket, UniInv, TypeOK, IrqOK, Packets
  <1>7. QED
    BY <1>1, <1>2, <1>5, <1>6

LEMMA FifoInvNext ==
  ASSUME SMP = FALSE, UniInv, WakeInv, FifoInv, [Next]_vars
  PROVE  FifoInv'
  BY AboutOpenReset, AboutReadStart, AboutReadCopy, AboutResetPtr, AboutResetCount,
     AboutPacket, QuietEmptying DEF UniInv
-----------------------------------------------------------------------------
\* The steps of the queue.

\* The contents of the queue as the refinement sees them.
Queue == Kept(IF Emptying THEN <<>> ELSE Unread, <<>>)

LEMMA UnreadIs ==
  ASSUME BufOK, readptr <= count
  PROVE  /\ Unread \in Seq(Packets) /\ Len(Unread) = count - readptr
         /\ \A i \in 1 .. count - readptr : Unread[i] = At(readptr + i - 1)
  <1>1. count - readptr \in Nat
    BY DEF BufOK
  <1>2. \A i \in 1 .. count - readptr : At(readptr + i - 1) \in Packets
    BY <1>1, ReadAt DEF BufOK
  <1>3. [i \in 1 .. count - readptr |-> At(readptr + i - 1)] \in Seq(Packets)
    BY <1>1, <1>2, IsASeq
  <1>4. QED
    BY <1>1, <1>3, LenProperties DEF Unread

LEMMA EmptyUnread == count = readptr /\ count \in Nat => Unread = <<>>
  BY DEF Unread

\* A step that leaves the buffer alone is a stuttering step of the queue.
LEMMA StutterQuiet ==
  ASSUME UNCHANGED queueVars, Emptying' = Emptying
  PROVE  UNCHANGED Fifo!fvars
  BY DEF queueVars, Fifo!fvars, Kept, Unread, At

LEMMA ResetStep ==
  ASSUME UniInv, FifoInv, NEW p \in Procs, OpenReset(p)
  PROVE  Fifo!Reset
  <1>1. ~Emptying' /\ count' = 0 /\ readptr' = 0 /\ overflowed' = FALSE
        /\ dropped' = {} /\ got' = <<>> /\ UNCHANGED <<sent, prevH>>
    BY AboutOpenReset DEF OpenReset, irqVars
  <1>2. Unread' = <<>>
    BY <1>1, EmptyUnread DEF Unread
  <1>3. QED
    BY <1>1, <1>2 DEF Fifo!Reset, Kept

LEMMA EmptyStep ==
  ASSUME UniInv, FifoInv, NEW p \in Procs, ReadResetCount(p)
  PROVE  Fifo!Empty \/ UNCHANGED Fifo!fvars
  <1>1. /\ Emptying /\ ~Emptying' /\ count' = 0 /\ readptr' = 0
        /\ UNCHANGED <<prevH, sent, got, dropped, overflowed>>
    BY AboutResetCount
  <1>2. Unread' = <<>>
    BY <1>1 DEF Unread
  <1>3. CASE overflowed
    BY <1>1, <1>3 DEF Fifo!fvars, Kept
  <1>4. CASE ~overflowed
    BY <1>1, <1>2, <1>4 DEF Fifo!Empty, Kept
  <1>5. QED
    BY <1>3, <1>4

LEMMA ResetPtrStep ==
  ASSUME UniInv, FifoInv, NEW p \in Procs, ReadResetPtr(p)
  PROVE  UNCHANGED Fifo!fvars
  BY AboutResetPtr DEF Fifo!fvars, Kept

LEMMA StartStep ==
  ASSUME UniInv, WakeInv, FifoInv, NEW p \in Procs, ReadStart(p)
  PROVE  UNCHANGED Fifo!fvars
  <1>1. /\ ~Emptying /\ ~Emptying' /\ count' = count /\ readptr' = readptr
        /\ (UNCHANGED recbuf \/ count = 0)
        /\ UNCHANGED <<prevH, sent, got, dropped, overflowed>>
    BY AboutReadStart
  <1>2. count \in Nat /\ readptr \in Nat
    BY DEF UniInv, TypeOK, BufOK
  <1>3. Unread' = Unread
    BY <1>1, <1>2 DEF Unread, At
  <1>4. QED
    BY <1>1, <1>3 DEF Fifo!fvars, Kept

\* A copy to the user takes the front of the queue; when it empties it, read goes on to
\* reset readptr and count.
LEMMA GetStep ==
  ASSUME UniInv, FifoInv, NEW p \in Procs, ReadCopy(p)
  PROVE  (\E n \in 1 .. Len(Queue) : Fifo!Get(n)) \/ UNCHANGED Fifo!fvars
  <1> DEFINE n == cnt[p]
             copied == [i \in 1 .. n |-> At(readptr + i - 1)]
  <1>1. /\ FifoInv' /\ ~Emptying /\ readptr \in Nat /\ count \in Nat
        /\ UNCHANGED <<count, recbuf, prevH, sent, dropped, overflowed>>
        /\ n \in Nat /\ n > 0 /\ readptr + n <= count
        /\ \/ UNCHANGED <<readptr, got>> /\ ~Emptying'
           \/ /\ readptr' = readptr + n
              /\ got' = got \o copied
              /\ Emptying' <=> readptr' = count
    BY AboutReadCopy
  <1>2. BufOK /\ TypeOK'
    BY TypeNext DEF UniInv, TypeOK, Next, TaskStep
  <1> HIDE DEF n
  <1>3. CASE UNCHANGED <<readptr, got>> /\ ~Emptying'
    BY <1>1, <1>3 DEF Fifo!fvars, Kept, Unread, At
  <1>4. CASE overflowed
    BY <1>1, <1>4 DEF Fifo!fvars, Kept
  <1>5. CASE /\ ~overflowed /\ readptr' = readptr + n
             /\ got' = got \o copied
             /\ Emptying' <=> readptr' = count
    <2>1. /\ Unread \in Seq(Packets) /\ Len(Unread) = count - readptr
          /\ \A i \in 1 .. count - readptr : Unread[i] = At(readptr + i - 1)
      BY <1>1, <1>2, UnreadIs
    <2>2. Queue = Unread /\ n \in 1 .. Len(Queue)
      BY <1>1, <1>5, <2>1 DEF Queue, Kept
    <2>3. copied = SubSeq(Unread, 1, n)
      <3>1. /\ SubSeq(Unread, 1, n) \in Seq(Packets) /\ Len(SubSeq(Unread, 1, n)) = n
            /\ \A i \in 1 .. n : SubSeq(Unread, 1, n)[i] = Unread[i]
        BY <1>1, <2>1, SubSeqProperties, ElementOfSeq
      <3>2. SubSeq(Unread, 1, n) = [i \in 1 .. n |-> SubSeq(Unread, 1, n)[i]]
        BY <3>1, LenProperties
      <3>3. \A i \in 1 .. n : SubSeq(Unread, 1, n)[i] = At(readptr + i - 1)
        BY <1>1, <2>1, <3>1
      <3>4. QED
        BY <3>2, <3>3
    <2>4. Queue' = SubSeq(Unread, n + 1, Len(Unread))
      <3>1. CASE readptr' = count
        BY <1>1, <1>5, <2>1, <3>1, SubSeqEmpty DEF Queue, Kept
      <3>2. CASE readptr' # count
        <4>1. Queue' = Unread'
          BY <1>1, <1>5, <3>2 DEF Queue, Kept
        <4>2. UNCHANGED <<recbuf, count>> /\ \A o : At(o)' = At(o)
          BY <1>1 DEF At
        <4>3. Unread' = [i \in 1 .. count - readptr - n |-> At(readptr + n + i - 1)]
          <5>1. count' - readptr' = count - readptr - n
            BY <1>1, <1>5
          <5>2. Unread' = [i \in 1 .. count' - readptr' |-> At(readptr' + i - 1)]
            BY <4>2 DEF Unread, At
          <5>3. QED
            BY <1>5, <5>1, <5>2
        <4>4. \A i \in 1 .. count - readptr - n : At(readptr + n + i - 1) = Unread[n + i]
          <5> TAKE i \in 1 .. count - readptr - n
          <5>1. n + i \in 1 .. count - readptr /\ readptr + (n + i) - 1 = readptr + n + i - 1
            BY <1>1
          <5>2. QED
            BY <2>1, <5>1
        <4>5. /\ SubSeq(Unread, n + 1, Len(Unread)) \in Seq(Packets)
              /\ Len(SubSeq(Unread, n + 1, Len(Unread))) = count - readptr - n
              /\ \A i \in 1 .. count - readptr - n :
                    SubSeq(Unread, n + 1, Len(Unread))[i] = Unread[n + i]
          <5>1. \A i \in n + 1 .. Len(Unread) : Unread[i] \in Packets
            BY <1>1, <2>1, ElementOfSeq
          <5>2. QED
            BY <1>1, <2>1, <5>1, SubSeqProperties
        <4>6. SubSeq(Unread, n + 1, Len(Unread)) =
                [i \in 1 .. count - readptr - n |-> SubSeq(Unread, n + 1, Len(Unread))[i]]
          BY <4>5, LenProperties
        <4>7. QED
          BY <4>1, <4>3, <4>4, <4>5, <4>6
      <3>3. QED
        BY <3>1, <3>2
    <2>5. Fifo!Get(n)
      BY <1>1, <1>5, <2>2, <2>3, <2>4 DEF Fifo!Get, Kept, Queue
    <2>6. QED
      BY <2>2, <2>5
  <1>6. QED
    BY <1>1, <1>3, <1>4, <1>5

\* The packet is written to recbuf.
Accepted ==
    /\ recbuf' = [recbuf EXCEPT ![count % Slots] = sent + 1] /\ prevH' = sent + 1
    /\ count' = count + 1 /\ dropped' = dropped
    /\ written' = IF Emptying THEN written ELSE Append(written, sent + 1)
    /\ overflowed' = (overflowed \/ count >= Slots)

LEMMA AcceptStep ==
  ASSUME UniInv, FifoInv, HandlerPacket, Accepted
  PROVE  \/ overflowed /\ Fifo!PutBroken
         \/ ~overflowed /\ count >= Slots /\ Fifo!Overrun
         \/ ~overflowed /\ ~(count >= Slots) /\ Emptying /\ Fifo!Miss
         \/ ~overflowed /\ ~(count >= Slots) /\ ~Emptying /\ Fifo!Put
  <1> DEFINE k == sent + 1
  <1>1. /\ FifoInv' /\ Emptying' = Emptying
        /\ sent' = k /\ sent \in Nat /\ k \in 1 .. Len(Stream)
        /\ UNCHANGED <<readptr, got>>
    BY AboutPacket
  <1>2. Fifo!Take
    BY <1>1, StreamLen DEF Fifo!Take
  <1>3. /\ BufOK /\ count \in Nat /\ readptr \in Nat /\ prevH \in Packets
        /\ recbuf \in [0 .. Slots - 1 -> Packets]
    BY DEF UniInv, TypeOK, BufOK
  <1>4. /\ recbuf' = [recbuf EXCEPT ![count % Slots] = k] /\ prevH' = k
        /\ count' = count + 1 /\ dropped' = dropped
        /\ overflowed' = (overflowed \/ count >= Slots)
    BY DEF Accepted
  <1> HIDE DEF k
  <1>5. overflowed' <=> overflowed \/ count >= Slots
    BY <1>4, Zenon
  <1>6. overflowed \in BOOLEAN /\ overflowed' \in BOOLEAN
    <2>1. TypeOK'
      BY TypeNext DEF UniInv, Next, HandlerStep
    <2>2. QED
      BY <2>1 DEF UniInv, TypeOK, HistOK
  <1>7. CASE overflowed
    BY <1>1, <1>2, <1>4, <1>5, <1>7 DEF Fifo!PutBroken, Kept
  <1>8. CASE ~overflowed /\ count >= Slots
    BY <1>1, <1>2, <1>4, <1>5, <1>8 DEF Fifo!Overrun, Kept
  <1>9. CASE ~overflowed /\ ~(count >= Slots) /\ Emptying
    <2>1. overflowed' = overflowed
      BY <1>5, <1>9, <1>6
    <2>2. QED
      BY <1>1, <1>2, <1>3, <1>4, <1>9, <2>1, SlotsNat DEF Fifo!Miss, Kept
  <1>10. CASE ~overflowed /\ ~(count >= Slots) /\ ~Emptying
    <2>1. count \in 0 .. Slots - 1 /\ count % Slots = count /\ readptr <= count
      BY <1>3, <1>10, SlotsNat DEF FifoInv
    <2>2. BufOK'
      <3>1. TypeOK'
        BY TypeNext DEF UniInv, Next, HandlerStep
      <3>2. QED
        BY <3>1 DEF TypeOK
    <2>3. /\ Unread \in Seq(Packets) /\ Len(Unread) = count - readptr
          /\ \A i \in 1 .. count - readptr : Unread[i] = At(readptr + i - 1)
      BY <1>3, <2>1, UnreadIs
    <2>4. Unread' = [i \in 1 .. count - readptr + 1 |-> At(readptr + i - 1)']
      <3>1. count' - readptr' = count - readptr + 1 /\ readptr' = readptr
        BY <1>1, <1>3, <1>4
      <3>2. QED
        BY <3>1 DEF Unread
    <2>5. \A i \in 1 .. count - readptr : At(readptr + i - 1)' = Unread[i]
      <3> TAKE i \in 1 .. count - readptr
      <3>1. readptr + i - 1 \in 0 .. Slots - 1 /\ readptr + i - 1 # count
        BY <1>3, <2>1, SlotsNat
      <3>2. recbuf'[readptr + i - 1] = recbuf[readptr + i - 1]
        BY <1>3, <1>4, <2>1, <3>1
      <3>3. QED
        BY <1>1, <2>3, <3>1, <3>2 DEF At
    <2>6. \A i : i = count - readptr + 1 => At(readptr + i - 1)' = k
      <3> TAKE i
      <3> HAVE i = count - readptr + 1
      <3>1. readptr + i - 1 = count /\ count < Slots
        BY <1>3, <2>1, SlotsNat
      <3>2. recbuf'[count] = k
        BY <1>3, <1>4, <2>1
      <3>3. QED
        BY <1>1, <3>1, <3>2 DEF At
    <2>7. Unread' = Append(Unread, k)
      <3>1. k \in Packets
        BY <1>1, StreamLen DEF Packets
      <3>2. /\ Append(Unread, k) \in Seq(Packets) /\ Len(Append(Unread, k)) = count - readptr + 1
            /\ \A i \in 1 .. count - readptr : Append(Unread, k)[i] = Unread[i]
            /\ Append(Unread, k)[count - readptr + 1] = k
        BY <2>3, <3>1, AppendProperties
      <3>3. Append(Unread, k) = [i \in 1 .. count - readptr + 1 |-> Append(Unread, k)[i]]
        BY <3>2, LenProperties
      <3>4. \A i \in 1 .. count - readptr + 1 : At(readptr + i - 1)' = Append(Unread, k)[i]
        <4> TAKE i \in 1 .. count - readptr + 1
        <4>1. i \in 1 .. count - readptr \/ i = count - readptr + 1
          BY <1>3
        <4>2. QED
          BY <2>5, <2>6, <3>2, <4>1
      <3>5. QED
        BY <2>4, <3>3, <3>4
    <2>8. overflowed' = overflowed
      BY <1>5, <1>10, <1>6
    <2>9. QED
      BY <1>1, <1>2, <1>3, <1>4, <1>10, <2>7, <2>8, SlotsNat DEF Fifo!Put, Kept
  <1>11. QED
    BY <1>7, <1>8, <1>9, <1>10

\* A packet from the device.
LEMMA PacketStep ==
  ASSUME NoConfusion, UniInv, FifoInv, HandlerPacket
  PROVE  Fifo!Corrupt \/ Fifo!Reject \/ Fifo!Put \/ Fifo!Miss \/ Fifo!Overrun \/ Fifo!PutBroken
  <1> DEFINE k == sent + 1
  <1>1. /\ FifoInv' /\ Emptying' = Emptying
        /\ sent' = k /\ sent \in Nat /\ k \in 1 .. Len(Stream)
        /\ UNCHANGED <<readptr, got>>
    BY AboutPacket
  <1>2. Fifo!Take
    BY <1>1, StreamLen DEF Fifo!Take
  <1>3. /\ BufOK /\ count \in Nat /\ readptr \in Nat /\ prevH \in Packets
        /\ recbuf \in [0 .. Slots - 1 -> Packets]
    BY DEF UniInv, TypeOK, BufOK
  <1> HIDE DEF k
  <1>4. CASE UNCHANGED <<count, recbuf, prevH, dropped, overflowed>>
    BY <1>1, <1>2, <1>4 DEF Fifo!Corrupt, Kept, Unread, At
  <1>5. CASE /\ IsCopyOfPrevious(k) /\ dropped' = dropped \cup {<<k, prevH>>}
             /\ UNCHANGED <<count, recbuf, prevH, overflowed>>
    <2>1. prevH # 0 /\ Stream[k] = Stream[prevH]
      <3>1. prevH # 0 /\ prevH \in 1 .. Len(Stream)
        BY <1>3, <1>5, StreamLen DEF IsCopyOfPrevious, Packets
      <3>2. QED
        BY <1>1, <1>5, <3>1 DEF IsCopyOfPrevious, NoConfusion
    <2>2. {d[1] : d \in dropped'} = {d[1] : d \in dropped} \cup {k}
      <3>1. <<k, prevH>>[1] = k
        OBVIOUS
      <3>2. ASSUME NEW x PROVE x \in {d[1] : d \in dropped'} <=> x \in {d[1] : d \in dropped} \cup {k}
        <4>1. x \in {d[1] : d \in dropped'} <=> \E d \in dropped' : x = d[1]
          OBVIOUS
        <4>2. (\E d \in dropped' : x = d[1]) <=> (\E d \in dropped : x = d[1]) \/ x = <<k, prevH>>[1]
          BY <1>5
        <4>3. QED
          BY <3>1, <4>1, <4>2
      <3>3. QED
        BY <3>2
    <2>3. QED
      <3>1. Unread' = Unread
        BY <1>1, <1>5 DEF Unread, At
      <3>2. Stream[sent'] = Stream[prevH]
        BY <1>1, <2>1
      <3>3. QED
        BY <1>1, <1>2, <1>5, <2>1, <2>2, <3>1, <3>2 DEF Fifo!Reject, Kept
  <1>6. CASE Accepted
    BY <1>6, AcceptStep
  <1>7. QED
    BY <1>1, <1>4, <1>5, <1>6 DEF HandlerPacket, Accepted, k

LEMMA FifoStep ==
  ASSUME SMP = FALSE, NoConfusion, UniInv, WakeInv, FifoInv, [Next]_vars
  PROVE  [Fifo!FifoNext]_(Fifo!fvars)
  <1>1. CASE HandlerPacket
    BY <1>1, PacketStep DEF Fifo!FifoNext
  <1>2. ASSUME NEW p \in Procs, OpenReset(p) PROVE Fifo!FifoNext
    BY <1>2, ResetStep DEF Fifo!FifoNext
  <1>3. ASSUME NEW p \in Procs, ReadStart(p) PROVE UNCHANGED Fifo!fvars
    BY <1>3, StartStep
  <1>4. ASSUME NEW p \in Procs, ReadCopy(p) PROVE Fifo!FifoNext \/ UNCHANGED Fifo!fvars
    BY <1>4, GetStep DEF Fifo!FifoNext, Queue
  <1>5. ASSUME NEW p \in Procs, ReadResetPtr(p) PROVE UNCHANGED Fifo!fvars
    BY <1>5, ResetPtrStep
  <1>6. ASSUME NEW p \in Procs, ReadResetCount(p) PROVE Fifo!FifoNext \/ UNCHANGED Fifo!fvars
    BY <1>6, EmptyStep DEF Fifo!FifoNext
  <1>7. CASE /\ ~HandlerPacket
             /\ \A p \in Procs : /\ ~OpenReset(p) /\ ~ReadStart(p) /\ ~ReadCopy(p)
                                 /\ ~ReadResetPtr(p) /\ ~ReadResetCount(p)
    BY <1>7, QuietEmptying, StutterQuiet DEF UniInv
  <1>8. QED
    BY <1>1, <1>2, <1>3, <1>4, <1>5, <1>6, <1>7

\* On a uniprocessor, if headers tell packets apart, the driver is the queue of LossyFifo.
THEOREM DriverIsFifo == SMP = FALSE /\ NoConfusion /\ Spec => ImplementsFifo
  <1> SUFFICES ASSUME SMP = FALSE, NoConfusion PROVE Spec => ImplementsFifo
    OBVIOUS
  <1> DEFINE Inv == UniInv /\ WakeInv /\ FifoInv
  <1>1. Init => Inv /\ Fifo!FifoInit
    <2> SUFFICES ASSUME Init PROVE Inv /\ Fifo!FifoInit
      OBVIOUS
    <2>1. UniInv /\ WakeInv
      BY UniInit DEF Init, WakeInv, Queued, Locked, NothingYet, Roused, ReadPcs,
                     WaitPcs, InUse, IoctlPcs
    <2>2. FifoInv
      BY SlotsNat DEF Init, FifoInv, Copying, Emptying
    <2>3. Fifo!FifoInit
      BY EmptyUnread DEF Init, Fifo!FifoInit, Kept, Emptying
    <2>4. QED
      BY <2>1, <2>2, <2>3
  <1>2. Inv /\ [Next]_vars => Inv' /\ [Fifo!FifoNext]_(Fifo!fvars)
    BY WakeNext, FifoInvNext, FifoStep
  <1>3. QED
    BY <1>1, <1>2, PTL DEF Spec, ImplementsFifo, Fifo!FifoSpec

-----------------------------------------------------------------------------
\* What the handler has accepted, the reader has been given or will find in the queue.
Whole == ~overflowed => written = got \o Queue

LEMMA CutConcat ==
  ASSUME NEW S, NEW g \in Seq(S), NEW q \in Seq(S), NEW n \in 1 .. Len(q)
  PROVE  (g \o SubSeq(q, 1, n)) \o SubSeq(q, n + 1, Len(q)) = g \o q
  <1>1. Len(q) \in Nat
    BY LenProperties
  <1>2. \A i \in 1 .. Len(q) : q[i] \in S
    BY ElementOfSeq
  <1>3. SubSeq(q, 1, n) \in Seq(S) /\ SubSeq(q, n + 1, Len(q)) \in Seq(S)
    BY <1>1, <1>2, SubSeqProperties
  <1>4. SubSeq(q, 1, n) \o SubSeq(q, n + 1, Len(q)) = SubSeq(q, 1, Len(q))
    BY <1>1, ConcatAdjacentSubSeq
  <1>5. SubSeq(q, 1, Len(q)) = q
    BY SubSeqFull
  <1>6. (g \o SubSeq(q, 1, n)) \o SubSeq(q, n + 1, Len(q))
          = g \o (SubSeq(q, 1, n) \o SubSeq(q, n + 1, Len(q)))
    <2>1. \A a, b \in Seq(S) : (g \o a) \o b = g \o (a \o b)
      BY ConcatAssociative, SMTT(60)
    <2>2. QED
      BY <1>3, <2>1
  <1>7. QED
    BY <1>4, <1>5, <1>6, Zenon

LEMMA ReadWhole ==
  ASSUME UniInv, FifoInv, Whole, NEW p \in Procs, ReadCopy(p)
  PROVE  Whole'
  <1>1. ~Emptying /\ UNCHANGED <<written, overflowed>> /\ readptr \in Nat /\ count \in Nat
    BY AboutReadCopy DEF UniInv
  <1>2. CASE overflowed
    BY <1>1, <1>2 DEF Whole
  <1>3. CASE ~overflowed /\ UNCHANGED Fifo!fvars
    BY <1>1, <1>3 DEF Whole, Queue, Fifo!fvars, Kept
  <1>4. ASSUME NEW n \in 1 .. Len(Queue), Fifo!Get(n), ~overflowed
        PROVE  Whole'
    <2>1. readptr <= count
      BY <1>1 DEF FifoInv
    <2>2. Queue \in Seq(Packets) /\ Len(Queue) \in Nat
      BY <1>1, <1>4, <2>1, UnreadIs DEF Queue, Kept, UniInv, TypeOK
    <2>3. /\ got' = got \o SubSeq(Queue, 1, n)
          /\ Queue' = SubSeq(Queue, n + 1, Len(Queue))
      BY <1>1, <1>4 DEF Fifo!Get, Kept, Queue
    <2> HIDE DEF Queue
    <2>4. got \in Seq(Packets)
      BY DEF UniInv, TypeOK, HistOK
    <2>5. got' \o Queue' = got \o Queue
      BY <2>2, <2>3, <2>4, CutConcat
    <2>6. QED
      BY <1>1, <1>4, <2>5 DEF Whole
  <1>5. QED
    BY <1>2, <1>3, <1>4, GetStep

LEMMA PacketWhole ==
  ASSUME UniInv, FifoInv, Whole, HandlerPacket
  PROVE  Whole'
  <1>1. /\ Emptying' = Emptying /\ sent' = sent + 1 /\ sent' \in 1 .. Len(Stream)
        /\ UNCHANGED <<readptr, got>> /\ BufOK /\ HistOK
    BY AboutPacket DEF UniInv, TypeOK
  <1>2. CASE UNCHANGED <<count, recbuf, written, overflowed>>
    BY <1>1, <1>2 DEF Whole, Queue, Kept, Unread, At
  <1>3. CASE Accepted
    <2>1. overflowed' <=> overflowed \/ count >= Slots
      BY <1>3, Zenon DEF Accepted
    <2>2. CASE overflowed \/ count >= Slots
      BY <2>1, <2>2 DEF Whole
    <2>3. CASE ~overflowed /\ ~(count >= Slots) /\ Emptying
      BY <1>1, <1>3, <2>1, <2>3 DEF Whole, Queue, Kept, Accepted
    <2>4. CASE ~overflowed /\ ~(count >= Slots) /\ ~Emptying
      <3>1. Queue' = Append(Queue, sent + 1)
        BY <1>1, <1>3, <2>1, <2>4, AcceptStep DEF Fifo!Put, Queue, Kept
      <3>2. readptr <= count
        BY <2>4 DEF FifoInv
      <3>3. Queue \in Seq(Packets)
        BY <1>1, <2>4, <3>2, UnreadIs DEF Queue, Kept
      <3>4. sent + 1 \in Packets /\ got \in Seq(Packets) /\ <<sent + 1>> \in Seq(Packets)
        <4>1. sent + 1 \in Packets /\ got \in Seq(Packets)
          BY <1>1, StreamLen DEF Packets, HistOK
        <4>2. Append(<<>>, sent + 1) \in Seq(Packets)
          BY <4>1, NoPackets, AppendProperties
        <4>3. QED
          BY <4>1, <4>2
      <3> HIDE DEF Queue
      <3>5. Append(got \o Queue, sent + 1) = got \o Append(Queue, sent + 1)
        <4>1. got \o Queue \in Seq(Packets)
          BY <3>3, <3>4, ConcatProperties
        <4>2. Append(got \o Queue, sent + 1) = (got \o Queue) \o <<sent + 1>>
          BY <3>4, <4>1, AppendIsConcat
        <4>3. Append(Queue, sent + 1) = Queue \o <<sent + 1>>
          BY <3>3, <3>4, AppendIsConcat
        <4>4. (got \o Queue) \o <<sent + 1>> = got \o (Queue \o <<sent + 1>>)
          BY <3>3, <3>4, ConcatAssociative
        <4>5. QED
          BY <4>2, <4>3, <4>4, Zenon
      <3>6. written' = Append(written, sent + 1)
        BY <1>3, <2>4 DEF Accepted
      <3>7. QED
        BY <1>1, <2>4, <3>1, <3>5, <3>6 DEF Whole
    <2>5. QED
      BY <2>2, <2>3, <2>4
  <1>4. QED
    BY <1>2, <1>3 DEF HandlerPacket, Accepted

LEMMA WholeNext ==
  ASSUME SMP = FALSE, UniInv, WakeInv, FifoInv, Whole, [Next]_vars
  PROVE  Whole'
  <1>1. CASE HandlerPacket
    BY <1>1, PacketWhole
  <1>2. ASSUME NEW p \in Procs, OpenReset(p) PROVE Whole'
    <2>1. ~Emptying' /\ count' = 0 /\ readptr' = 0 /\ written' = <<>> /\ got' = <<>>
      BY <1>2, AboutOpenReset DEF OpenReset
    <2>2. Unread' = <<>>
      BY <2>1 DEF Unread
    <2>3. QED
      BY <2>1, <2>2, NoPackets, ConcatEmptySeq DEF Whole, Queue, Kept
  <1>3. ASSUME NEW p \in Procs, ReadStart(p) PROVE Whole'
    <2>1. UNCHANGED <<written, overflowed, got>>
      BY <1>3, AboutReadStart
    <2>2. UNCHANGED Fifo!fvars
      BY <1>3, StartStep
    <2>3. QED
      BY <2>1, <2>2 DEF Whole, Queue, Fifo!fvars
  <1>4. ASSUME NEW p \in Procs, ReadCopy(p) PROVE Whole'
    BY <1>4, ReadWhole
  <1>5. ASSUME NEW p \in Procs, ReadResetPtr(p) PROVE Whole'
    BY <1>5, AboutResetPtr DEF Whole, Queue, Kept
  <1>6. ASSUME NEW p \in Procs, ReadResetCount(p) PROVE Whole'
    <2>1. /\ Emptying /\ ~Emptying' /\ count' = 0 /\ readptr' = 0
          /\ UNCHANGED <<got, overflowed, written>>
      BY <1>6, AboutResetCount
    <2>2. Unread' = <<>>
      BY <2>1 DEF Unread
    <2>3. QED
      BY <2>1, <2>2 DEF Whole, Queue, Kept
  <1>7. CASE /\ ~HandlerPacket
             /\ \A p \in Procs : /\ ~OpenReset(p) /\ ~ReadStart(p) /\ ~ReadCopy(p)
                                 /\ ~ReadResetPtr(p) /\ ~ReadResetCount(p)
    <2>1. UNCHANGED queueVars /\ Emptying' = Emptying
      BY <1>7, QuietEmptying DEF UniInv
    <2>2. QED
      BY <2>1 DEF queueVars, Whole, Queue, Kept, Unread, At
  <1>8. QED
    BY <1>1, <1>2, <1>3, <1>4, <1>5, <1>6, <1>7

\* On a uniprocessor, until recbuf overflows, what the user has been given followed by what
\* read has still to give is exactly what the handler accepted while read was not emptying
\* the buffer: nothing lost, repeated or out of order.  Unlike DriverIsFifo this needs
\* nothing of the headers.
THEOREM NothingLostOrRepeated == SMP = FALSE /\ Spec => []StreamIntegrity
  <1> SUFFICES ASSUME SMP = FALSE PROVE Spec => []StreamIntegrity
    OBVIOUS
  <1> DEFINE Inv == UniInv /\ WakeInv /\ FifoInv /\ Whole
  <1>1. Init => Inv
    <2> SUFFICES ASSUME Init PROVE Inv
      OBVIOUS
    <2>1. UniInv /\ WakeInv
      BY UniInit DEF Init, WakeInv, Queued, Locked, NothingYet, Roused, ReadPcs,
                     WaitPcs, InUse, IoctlPcs
    <2>2. FifoInv
      BY SlotsNat DEF Init, FifoInv, Copying, Emptying
    <2>3. Whole
      BY EmptyUnread, NoPackets, ConcatEmptySeq DEF Init, Whole, Queue, Kept, Emptying
    <2>4. QED
      BY <2>1, <2>2, <2>3
  <1>2. Inv /\ [Next]_vars => Inv'
    BY WakeNext, FifoInvNext, WholeNext
  <1>3. Inv => StreamIntegrity
    BY DEF Whole, Queue, Kept, StreamIntegrity
  <1>4. QED
    BY <1>1, <1>2, <1>3, PTL DEF Spec
=============================================================================
