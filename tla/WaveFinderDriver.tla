-------------------------- MODULE WaveFinderDriver --------------------------
(***************************************************************************)
(* The Linux kernel driver of the WaveFinder, src/driver/wavefinder.c.     *)
(*                                                                         *)
(* Three kinds of activity share one wavefinder_t:                         *)
(*   - the tasks that open, read, ioctl and release the device file;       *)
(*   - the URB completion handler, in interrupt context;                   *)
(*   - the hub task, which calls disconnect when the device is unplugged.  *)
(* The driver was written for a uniprocessor: there a task never takes a   *)
(* step while the handler is part-way through (SMP = FALSE), whereas with  *)
(* SMP = TRUE every statement group of the handler interleaves with the    *)
(* tasks.  Tasks preempt one another in both.                              *)
(*                                                                         *)
(* The unit of count, readptr and of a read's size is one 524-byte packet. *)
(* A packet is its position in Stream, the sequence of the 12-byte headers *)
(* the device sends; 0 is the content of memory nobody has written.        *)
(* The bookkeeping of pending_io and overruns is left out: pending_io is   *)
(* never incremented, so the test on it in the handler never succeeds.     *)
(***************************************************************************)
EXTENDS Integers, Sequences

CONSTANTS
    Procs,        \* the tasks that may open the device file
    NoProc,       \* the value of a free mutex
    NURBS,        \* URBs kept in flight
    UrbPackets,   \* isochronous packets in an URB, _ISOPIPESIZE / pipesize
    UserBuf,      \* packets asked for by one read
    Stream,       \* headers of the packets the device sends, in order
    NonBlocking,  \* tasks that opened with O_NONBLOCK
    BadBuffer,    \* tasks whose read buffer may fault
    SMP,          \* the handler runs in parallel with the tasks
    CanUnplug,    \* the device may be unplugged
    Scarce        \* allocations and URB submissions may fail

ASSUME ProcsAssumption == /\ NoProc \notin Procs
                          /\ NonBlocking \subseteq Procs
                          /\ BadBuffer \subseteq Procs
ASSUME SizesAssumption == /\ NURBS \in Nat \ {0}
                          /\ UrbPackets \in Nat \ {0}
                          /\ UserBuf \in Nat \ {0}
ASSUME StreamAssumption == Stream \in Seq(Seq(Nat))
ASSUME SwitchAssumption == {SMP, CanUnplug, Scarce} \subseteq BOOLEAN

VARIABLES
    \* wavefinder_t
    state, removePending, usbdev, opened, mutex,
    count, readptr, recbuf, prevH,
    allocated, running,
    waitq,        \* tasks with an entry on s->wait
    \* the tasks
    pc, idx, want, cnt, tstate, sig,
    \* the USB core
    inflight, gone,
    \* the completion handler, and how much of Stream it has been brought
    hpc, hurb, hleft, sent,
    \* the disconnecting hub task
    dpc, dtask,
    \* history of the current session of the open file
    written,      \* packets copied to recbuf while read was not emptying it, in order
    got,          \* packets copied to the user, in order
    dropped,      \* <<packet, packet it was taken for a copy of>>
    overflowed,   \* recbuf took a packet when it was full
    dwaited       \* disconnect found the receiver started

devVars  == <<state, removePending, usbdev, opened, mutex>>
bufVars  == <<count, readptr, recbuf, prevH>>
urbVars  == <<allocated, running>>
taskVars == <<waitq, pc, idx, want, cnt, tstate, sig>>
usbVars  == <<inflight, gone>>
irqVars  == <<hpc, hurb, hleft, sent>>
discVars == <<dpc, dtask>>
histVars == <<written, got, dropped, overflowed, dwaited>>
vars == <<devVars, bufVars, urbVars, taskVars, usbVars, irqVars, discVars,
          histVars>>

Urbs  == 0 .. NURBS - 1
Slots == NURBS * UrbPackets          \* recbuf, _ISOPIPESIZE * NURBS bytes
Packets == 0 .. Len(Stream)

OpenPcs    == {"open_lock", "open_reset"}
IoctlPcs   == {"io_lock", "io_send"}
ReadPcs    == {"rd_lock", "rd_state", "rd_start", "rd_submit", "rd_mark",
               "rd_wait", "rd_copy", "rd_resetptr", "rd_resetcount"}
ReleasePcs == {"rel_lock", "rel_stop", "rel_kill", "rel_wait", "rel_free",
               "rel_wake", "rel_done"}
OopsPcs    == {"oops_open", "oops_ioctl", "oops_read"}
TaskPcs    == {"none", "user"} \cup OpenPcs \cup IoctlPcs \cup ReadPcs
                 \cup ReleasePcs \cup OopsPcs
HandlerPcs == {"idle", "packet", "submit", "mark", "wake"}
DiscPcs    == {"none", "dereg", "flag", "arm", "check", "wait", "finish", "done"}

DevOK ==
    /\ state \in {"stopped", "started"}
    /\ removePending \in BOOLEAN /\ usbdev \in BOOLEAN /\ opened \in BOOLEAN
    /\ mutex \in Procs \cup {NoProc}

BufOK ==
    /\ count \in Nat /\ readptr \in Nat
    /\ recbuf \in [0 .. Slots - 1 -> Packets]
    /\ prevH \in Packets

UrbOK ==
    /\ allocated \in [Urbs -> BOOLEAN]
    /\ running \in [Urbs -> BOOLEAN]

\* A submission or a kill in progress is about an URB; a copy is of some of
\* what the user still wants.
TaskOK ==
    /\ waitq \subseteq Procs
    /\ pc \in [Procs -> TaskPcs]
    /\ idx \in [Procs -> 0 .. NURBS]
    /\ want \in [Procs -> 0 .. UserBuf]
    /\ cnt \in [Procs -> 0 .. UserBuf]
    /\ tstate \in [Procs -> {"run", "sleep"}]
    /\ sig \in [Procs -> BOOLEAN]
    /\ \A p \in Procs :
          /\ pc[p] \in {"rd_mark", "rel_wait"} => idx[p] < NURBS
          /\ pc[p] = "rd_copy" => cnt[p] <= want[p]

UsbOK == inflight \in [Urbs -> BOOLEAN] /\ gone \in BOOLEAN

\* The handler has no more packets to process than the device sends.
IrqOK ==
    /\ sent \in Packets
    /\ hpc \in HandlerPcs /\ hurb \in Urbs /\ hleft \in 0 .. UrbPackets
    /\ hpc = "packet" => hleft > 0 /\ sent + hleft <= Len(Stream)

DiscOK == dpc \in DiscPcs /\ dtask \in {"run", "sleep"}

HistOK ==
    /\ written \in Seq(Packets) /\ got \in Seq(Packets)
    /\ dropped \subseteq Packets \X Packets
    /\ overflowed \in BOOLEAN /\ dwaited \in BOOLEAN

TypeOK == DevOK /\ BufOK /\ UrbOK /\ TaskOK /\ UsbOK /\ IrqOK /\ DiscOK /\ HistOK

\* The state probe leaves behind: bound to the device, nobody has opened it.
Init ==
    /\ state = "stopped" /\ removePending = FALSE /\ usbdev = TRUE
    /\ opened = FALSE /\ mutex = NoProc
    /\ count = 0 /\ readptr = 0 /\ prevH = 0
    /\ recbuf = [s \in 0 .. Slots - 1 |-> 0]
    /\ allocated = [u \in Urbs |-> FALSE] /\ running = [u \in Urbs |-> FALSE]
    /\ waitq = {}
    /\ pc = [p \in Procs |-> "none"] /\ idx = [p \in Procs |-> 0]
    /\ want = [p \in Procs |-> 0] /\ cnt = [p \in Procs |-> 0]
    /\ tstate = [p \in Procs |-> "run"] /\ sig = [p \in Procs |-> FALSE]
    /\ inflight = [u \in Urbs |-> FALSE] /\ gone = FALSE /\ sent = 0
    /\ hpc = "idle" /\ hurb = 0 /\ hleft = 0
    /\ dpc = "none" /\ dtask = "run"
    /\ written = <<>> /\ got = <<>> /\ dropped = {}
    /\ overflowed = FALSE /\ dwaited = FALSE

-----------------------------------------------------------------------------
\* What the kernel around the driver provides.

\* On a uniprocessor the handler runs to completion before any task does,
TaskMayRun == SMP \/ hpc = "idle"
\* and does not start while a task holds s->lock, which disables interrupts.
IrqsOn == FALSE             \* mutant of IrqsOff: a lock that does not
IrqsOff == \E p \in Procs : pc[p] = "rd_state"

intfdata   == dpc = "none"               \* usb_get_intfdata(intf) is not NULL
registered == dpc \in {"none", "dereg"}  \* the minor has file operations

\* usb_kill_urb makes the USB core reject submissions of the URB meanwhile.
Killing(u) == \E p \in Procs : pc[p] = "rel_wait" /\ idx[p] = u

\* mutant of SubmitResults: an URB that is being killed may be submitted again
SubmitResultsKilled(u) == IF gone THEN {FALSE} ELSE {TRUE}

\* What usb_submit_urb may answer: it fails when the device is gone or the URB
\* is being killed, and when it runs out of memory or bandwidth.
SubmitResults(u) == IF gone \/ Killing(u) THEN {FALSE}
                    ELSE IF Scarce THEN BOOLEAN ELSE {TRUE}

\* strncmp(a, b, 12) = 0: comparison ends at the first byte that is zero.
SameHeaderShort(a, b) == a[1] = b[1] /\ a[2] = b[2]     \* mutant: too few bytes
SameHeader(a, b) ==
    \A i \in DOMAIN a : (\A j \in 1 .. i - 1 : a[j] # 0) => a[i] = b[i]

IsCopyOfPrevious(k) == prevH # 0 /\ SameHeader(Stream[k], Stream[prevH])

Goto(p, l) == pc' = [pc EXCEPT ![p] = l]

\* wake_up(&s->wait)
WakeNobody == UNCHANGED tstate                          \* mutant: no wake_up
WakeReaders ==
    tstate' = [p \in Procs |-> IF p \in waitq THEN "run" ELSE tstate[p]]

-----------------------------------------------------------------------------
\* wavefinder_open

OpenLookup(p) ==
    /\ TaskMayRun /\ pc[p] = "none" /\ registered
    /\ Goto(p, IF intfdata THEN "open_lock" ELSE "oops_open")
    /\ UNCHANGED <<waitq, idx, want, cnt, tstate, sig, devVars, bufVars,
                   urbVars, usbVars, irqVars, discVars, histVars>>

\* mutant: opened is not tested
OpenLockTwice(p) ==
    /\ TaskMayRun /\ pc[p] = "open_lock" /\ mutex = NoProc
    /\ opened' = TRUE /\ Goto(p, "open_reset")
    /\ UNCHANGED <<state, removePending, usbdev, mutex, waitq, idx, want, cnt,
                   tstate, sig, bufVars, urbVars, usbVars, irqVars, discVars,
                   histVars>>

OpenLock(p) ==
    /\ TaskMayRun /\ pc[p] = "open_lock" /\ mutex = NoProc
    /\ IF usbdev /\ ~opened
         THEN opened' = TRUE /\ Goto(p, "open_reset")
         ELSE Goto(p, "none") /\ UNCHANGED opened      \* -ENODEV, -EBUSY
    /\ UNCHANGED <<state, removePending, usbdev, mutex, waitq, idx, want, cnt,
                   tstate, sig, bufVars, urbVars, usbVars, irqVars, discVars,
                   histVars>>

OpenReset(p) ==
    /\ TaskMayRun /\ pc[p] = "open_reset"
    /\ count' = 0 /\ readptr' = 0
    /\ allocated' = [u \in Urbs |-> FALSE]
    /\ Goto(p, "user")
    /\ written' = <<>> /\ got' = <<>> /\ dropped' = {}
    /\ overflowed' = FALSE
    /\ UNCHANGED <<recbuf, prevH, running, waitq, idx, want, cnt, tstate, sig,
                   dwaited, devVars, usbVars, irqVars, discVars>>

-----------------------------------------------------------------------------
\* wavefinder_ioctl; the message itself goes to the device and changes nothing
\* here.

IoctlEnter(p) ==
    /\ TaskMayRun /\ pc[p] = "user" /\ ~removePending
    /\ Goto(p, "io_lock")
    /\ UNCHANGED <<waitq, idx, want, cnt, tstate, sig, devVars, bufVars,
                   urbVars, usbVars, irqVars, discVars, histVars>>

IoctlLock(p) ==
    /\ TaskMayRun /\ pc[p] = "io_lock" /\ mutex = NoProc
    /\ IF usbdev THEN mutex' = p /\ Goto(p, "io_send")
                 ELSE Goto(p, "user") /\ UNCHANGED mutex
    /\ UNCHANGED <<state, removePending, usbdev, opened, waitq, idx, want, cnt,
                   tstate, sig, bufVars, urbVars, usbVars, irqVars, discVars,
                   histVars>>

\* s->usbdev is read again for usb_control_msg, and disconnect does not take
\* the mutex.
IoctlSend(p) ==
    /\ TaskMayRun /\ pc[p] = "io_send"
    /\ IF usbdev THEN mutex' = NoProc /\ Goto(p, "user")
                 ELSE Goto(p, "oops_ioctl") /\ UNCHANGED mutex
    /\ UNCHANGED <<state, removePending, usbdev, opened, waitq, idx, want, cnt,
                   tstate, sig, bufVars, urbVars, usbVars, irqVars, discVars,
                   histVars>>

-----------------------------------------------------------------------------
\* wavefinder_read, with wavefinder_start_receive and wavefinder_alloc_buffers

ReadEnter(p) ==
    /\ TaskMayRun /\ pc[p] = "user"
    /\ waitq' = waitq \cup {p}
    /\ want' = [want EXCEPT ![p] = UserBuf]
    /\ Goto(p, "rd_lock")
    /\ UNCHANGED <<idx, cnt, tstate, sig, devVars, bufVars, urbVars, usbVars,
                   irqVars, discVars, histVars>>

\* Leave through "__set_current_state(TASK_RUNNING); remove_wait_queue".
\* (mutant: no remove_wait_queue)
ReadReturnQueued(p) ==
    /\ tstate' = [tstate EXCEPT ![p] = "run"]
    /\ waitq' = waitq
    /\ sig' = [sig EXCEPT ![p] = FALSE]
    /\ want' = [want EXCEPT ![p] = 0]
    /\ cnt' = [cnt EXCEPT ![p] = 0]
    /\ Goto(p, "user")

ReadReturn(p) ==
    /\ tstate' = [tstate EXCEPT ![p] = "run"]
    /\ waitq' = waitq \ {p}
    /\ sig' = [sig EXCEPT ![p] = FALSE]
    /\ want' = [want EXCEPT ![p] = 0]
    /\ cnt' = [cnt EXCEPT ![p] = 0]
    /\ Goto(p, "user")

ReadDone(p) ==
    /\ TaskMayRun /\ pc[p] = "rd_lock" /\ want[p] = 0
    /\ ReadReturn(p)
    /\ UNCHANGED <<idx, devVars, bufVars, urbVars, usbVars, irqVars,
                   discVars, histVars>>

\* Under s->lock: how many packets to copy ...
\* (mutant: all there are, not just what the user wants)
ReadLockAll(p) ==
    /\ TaskMayRun /\ pc[p] = "rd_lock" /\ want[p] > 0
    /\ IF count <= readptr
         THEN Goto(p, "rd_state") /\ UNCHANGED cnt
         ELSE Goto(p, "rd_copy") /\ cnt' = [cnt EXCEPT ![p] = count - readptr]
    /\ UNCHANGED <<waitq, idx, want, tstate, sig, devVars, bufVars, urbVars,
                   usbVars, irqVars, discVars, histVars>>

ReadLock(p) ==
    /\ TaskMayRun /\ pc[p] = "rd_lock" /\ want[p] > 0
    /\ LET rem == count - readptr
           n   == IF want[p] >= rem THEN rem ELSE want[p]
       IN  IF n <= 0
             THEN Goto(p, "rd_state") /\ UNCHANGED cnt
             ELSE Goto(p, "rd_copy") /\ cnt' = [cnt EXCEPT ![p] = n]
    /\ UNCHANGED <<waitq, idx, want, tstate, sig, devVars, bufVars, urbVars,
                   usbVars, irqVars, discVars, histVars>>

\* ... and, if there are none, "set task state early to avoid wakeup races".
ReadSetState(p) ==
    /\ TaskMayRun /\ pc[p] = "rd_state"
    /\ tstate' = [tstate EXCEPT ![p] = "sleep"]
    /\ Goto(p, "rd_start")
    /\ UNCHANGED <<waitq, idx, want, cnt, sig, devVars, bufVars, urbVars,
                   usbVars, irqVars, discVars, histVars>>

\* The first read of a session allocates the buffers.  The allocations may
\* sleep, after which the task is running again.
ReadStart(p) ==
    /\ TaskMayRun /\ pc[p] = "rd_start"
    /\ \/ /\ (\A u \in Urbs : allocated[u]) \/ state = "started"
          /\ Goto(p, "rd_wait")
          /\ UNCHANGED <<waitq, want, cnt, tstate, sig, state, readptr, recbuf,
                         allocated, running>>
       \/ /\ \E u \in Urbs : ~allocated[u]
          /\ state # "started"
          /\ \/ /\ ~usbdev
                /\ Goto(p, "oops_read")
                /\ UNCHANGED <<waitq, want, cnt, tstate, sig, state, readptr,
                               recbuf, allocated, running>>
             \/ /\ usbdev /\ Scarce                        \* -ENOMEM
                /\ ReadReturn(p)
                /\ allocated' = [u \in Urbs |-> FALSE]
                /\ \E n \in 0 .. NURBS : running' =
                      [u \in Urbs |-> IF u < n THEN FALSE ELSE running[u]]
                /\ UNCHANGED <<state, readptr, recbuf>>
             \/ /\ usbdev
                /\ allocated' = [u \in Urbs |-> TRUE]
                /\ running' = [u \in Urbs |-> FALSE]
                /\ recbuf' = [s \in 0 .. Slots - 1 |-> 0]
                /\ state' = "started"
                /\ readptr' = 0
                /\ \E t \in {"run", tstate[p]} :
                      tstate' = [tstate EXCEPT ![p] = t]
                /\ Goto(p, "rd_submit")
                /\ UNCHANGED <<waitq, want, cnt, sig>>
    /\ UNCHANGED <<removePending, usbdev, opened, mutex, count, prevH, idx,
                   usbVars, irqVars, discVars, histVars>>

\* An URB is in flight, and may complete, before running[] says so.
ReadSubmit(p) ==
    LET u == idx[p] IN
    /\ TaskMayRun /\ pc[p] = "rd_submit"
    /\ IF u = NURBS
         THEN /\ Goto(p, "rd_wait")
              /\ idx' = [idx EXCEPT ![p] = 0]
              /\ UNCHANGED <<running, inflight>>
         ELSE \E ok \in SubmitResults(u) :
                IF ~running[u] /\ ok
                  THEN /\ inflight' = [inflight EXCEPT ![u] = TRUE]
                       /\ Goto(p, "rd_mark")
                       /\ UNCHANGED <<idx, running>>
                  ELSE /\ running' = [running EXCEPT ![u] = FALSE]
                       /\ idx' = [idx EXCEPT ![p] = u + 1]
                       /\ UNCHANGED <<pc, inflight>>
    /\ UNCHANGED <<allocated, waitq, want, cnt, tstate, sig, gone,
                   devVars, bufVars, irqVars, discVars, histVars>>

ReadMark(p) ==
    /\ TaskMayRun /\ pc[p] = "rd_mark"
    /\ running' = [running EXCEPT ![idx[p]] = TRUE]
    /\ idx' = [idx EXCEPT ![p] = @ + 1]
    /\ Goto(p, "rd_submit")
    /\ UNCHANGED <<allocated, waitq, want, cnt, tstate, sig, devVars, bufVars,
                   usbVars, irqVars, discVars, histVars>>

\* O_NONBLOCK: -EAGAIN; a signal: -ERESTARTSYS; otherwise schedule() and look
\* again.
ReadWait(p) ==
    /\ TaskMayRun /\ pc[p] = "rd_wait"
    /\ \/ /\ p \in NonBlocking \/ sig[p]
          /\ ReadReturn(p)
       \/ /\ p \notin NonBlocking /\ ~sig[p]
          /\ tstate[p] = "run"
          /\ Goto(p, "rd_lock")
          /\ UNCHANGED <<waitq, want, cnt, tstate, sig>>
    /\ UNCHANGED <<idx, devVars, bufVars, urbVars, usbVars, irqVars,
                   discVars, histVars>>

\* The memory at an offset of recbuf; beyond its end it is somebody else's.
At(o) == IF o < Slots THEN recbuf[o] ELSE 0

ReadCopy(p) ==
    /\ TaskMayRun /\ pc[p] = "rd_copy"
    /\ \/ /\ got' = got \o [i \in 1 .. cnt[p] |-> At(readptr + i - 1)]
          /\ readptr' = readptr + cnt[p]
          /\ want' = [want EXCEPT ![p] = @ - cnt[p]]
          /\ cnt' = [cnt EXCEPT ![p] = 0]
          /\ Goto(p, IF readptr' = count THEN "rd_resetptr" ELSE "rd_lock")
          /\ UNCHANGED sig
       \/ /\ p \in BadBuffer             \* "goto err" passes over the clean-up
          /\ sig' = [sig EXCEPT ![p] = FALSE]
          /\ want' = [want EXCEPT ![p] = 0]
          /\ cnt' = [cnt EXCEPT ![p] = 0]
          /\ Goto(p, "user")
          /\ UNCHANGED <<got, readptr>>
    /\ UNCHANGED <<count, recbuf, prevH, waitq, idx, tstate, written, dropped,
                   overflowed, dwaited, devVars, urbVars, usbVars,
                   irqVars, discVars>>

ReadResetPtr(p) ==
    /\ TaskMayRun /\ pc[p] = "rd_resetptr"
    /\ readptr' = 0
    /\ Goto(p, "rd_resetcount")
    /\ UNCHANGED <<count, recbuf, prevH, waitq, idx, want, cnt, tstate, sig,
                   devVars, urbVars, usbVars, irqVars, discVars, histVars>>

\* Under s->lock, without looking at count again.
\* (mutant: count is left alone)
ReadResetNothing(p) ==
    /\ TaskMayRun /\ pc[p] = "rd_resetcount"
    /\ Goto(p, "rd_lock")
    /\ UNCHANGED <<waitq, idx, want, cnt, tstate, sig, devVars, bufVars,
                   urbVars, usbVars, irqVars, discVars, histVars>>

ReadResetCount(p) ==
    /\ TaskMayRun /\ pc[p] = "rd_resetcount"
    /\ count' = 0
    /\ Goto(p, "rd_lock")
    /\ UNCHANGED <<readptr, recbuf, prevH, waitq, idx, want, cnt, tstate, sig,
                   devVars, urbVars, usbVars, irqVars, discVars, histVars>>

\* A signal makes an interruptible sleep end.
Signal(p) ==
    /\ TaskMayRun /\ pc[p] \in ReadPcs /\ ~sig[p]
    /\ sig' = [sig EXCEPT ![p] = TRUE]
    /\ UNCHANGED <<waitq, pc, idx, want, cnt, tstate, devVars, bufVars, urbVars,
                   usbVars, irqVars, discVars, histVars>>

-----------------------------------------------------------------------------
\* wavefinder_release, with wavefinder_stop and wavefinder_free_buffers

Close(p) ==
    /\ TaskMayRun /\ pc[p] = "user"
    /\ Goto(p, "rel_lock")
    /\ UNCHANGED <<waitq, idx, want, cnt, tstate, sig, devVars, bufVars,
                   urbVars, usbVars, irqVars, discVars, histVars>>

RelLock(p) ==
    /\ TaskMayRun /\ pc[p] = "rel_lock" /\ mutex = NoProc
    /\ mutex' = p
    /\ Goto(p, "rel_stop")
    /\ UNCHANGED <<state, removePending, usbdev, opened, waitq, idx, want, cnt,
                   tstate, sig, bufVars, urbVars, usbVars, irqVars, discVars,
                   histVars>>

RelStop(p) ==
    /\ TaskMayRun /\ pc[p] = "rel_stop"
    /\ state' = "stopped"
    /\ Goto(p, "rel_kill")
    /\ UNCHANGED <<removePending, usbdev, opened, mutex, waitq, idx, want, cnt,
                   tstate, sig, bufVars, urbVars, usbVars, irqVars, discVars,
                   histVars>>

\* mutant: the last URB is not looked at
RelKillButLast(p) ==
    LET u == idx[p] IN
    /\ TaskMayRun /\ pc[p] = "rel_kill"
    /\ IF u = NURBS - 1 THEN Goto(p, "rel_free") /\ idx' = [idx EXCEPT ![p] = 0]
       ELSE IF running[u] THEN Goto(p, "rel_wait") /\ UNCHANGED idx
       ELSE idx' = [idx EXCEPT ![p] = u + 1] /\ UNCHANGED pc
    /\ UNCHANGED <<waitq, want, cnt, tstate, sig, devVars, bufVars, urbVars,
                   usbVars, irqVars, discVars, histVars>>

RelKill(p) ==
    LET u == idx[p] IN
    /\ TaskMayRun /\ pc[p] = "rel_kill"
    /\ IF u = NURBS THEN Goto(p, "rel_free") /\ idx' = [idx EXCEPT ![p] = 0]
       ELSE IF running[u] THEN Goto(p, "rel_wait") /\ UNCHANGED idx
       ELSE idx' = [idx EXCEPT ![p] = u + 1] /\ UNCHANGED pc
    /\ UNCHANGED <<waitq, want, cnt, tstate, sig, devVars, bufVars, urbVars,
                   usbVars, irqVars, discVars, histVars>>

\* usb_kill_urb returns once the URB is neither in flight nor being handled.
RelKilled(p) ==
    LET u == idx[p] IN
    /\ TaskMayRun /\ pc[p] = "rel_wait"
    /\ ~inflight[u] /\ ~(hpc # "idle" /\ hurb = u)
    /\ running' = [running EXCEPT ![u] = FALSE]
    /\ idx' = [idx EXCEPT ![p] = u + 1]
    /\ Goto(p, "rel_kill")
    /\ UNCHANGED <<allocated, waitq, want, cnt, tstate, sig, devVars, bufVars,
                   usbVars, irqVars, discVars, histVars>>

RelFree(p) ==
    /\ TaskMayRun /\ pc[p] = "rel_free"
    /\ allocated' = [u \in Urbs |-> FALSE]
    /\ mutex' = NoProc
    /\ Goto(p, "rel_wake")
    /\ UNCHANGED <<state, removePending, usbdev, opened, running, waitq, idx,
                   want, cnt, tstate, sig, bufVars, usbVars, irqVars, discVars,
                   histVars>>

\* wake_up(&s->remove_ok)
\* (mutant: only readers are woken)
RelWakeNot(p) ==
    /\ TaskMayRun /\ pc[p] = "rel_wake"
    /\ Goto(p, "rel_done")
    /\ UNCHANGED <<waitq, idx, want, cnt, tstate, sig, devVars, bufVars, urbVars,
                   usbVars, irqVars, discVars, histVars>>

RelWake(p) ==
    /\ TaskMayRun /\ pc[p] = "rel_wake"
    /\ dtask' = IF dpc \in {"check", "wait"} THEN "run" ELSE dtask
    /\ Goto(p, "rel_done")
    /\ UNCHANGED <<dpc, waitq, idx, want, cnt, tstate, sig, devVars, bufVars,
                   urbVars, usbVars, irqVars, histVars>>

RelDone(p) ==
    /\ TaskMayRun /\ pc[p] = "rel_done"
    /\ opened' = FALSE
    /\ Goto(p, "none")
    /\ UNCHANGED <<state, removePending, usbdev, mutex, waitq, idx, want, cnt,
                   tstate, sig, bufVars, urbVars, usbVars, irqVars, discVars,
                   histVars>>

-----------------------------------------------------------------------------
\* wavefinder_iso_complete

\* The URB completes with up to UrbPackets valid packets, with none if it was
\* killed or the device is gone.
HandlerEnter(u) ==
    /\ hpc = "idle" /\ ~IrqsOff /\ inflight[u]
    /\ inflight' = [inflight EXCEPT ![u] = FALSE]
    /\ running' = [running EXCEPT ![u] = FALSE]
    /\ hurb' = u
    /\ hleft' \in 0 .. UrbPackets
    /\ hleft' <= Len(Stream) - sent
    /\ gone => hleft' = 0
    /\ hpc' = IF hleft' = 0 THEN "submit" ELSE "packet"
    /\ UNCHANGED <<allocated, gone, sent, devVars, bufVars, taskVars, discVars,
                   histVars>>

\* read has compared readptr with count and not yet cleared count.
Emptying == \E p \in Procs : pc[p] \in {"rd_resetptr", "rd_resetcount"}

\* A packet is corrupted on the bus, dropped as a duplicate, or copied to recbuf.
HandlerPacket ==
    LET k == sent + 1 IN
    /\ hpc = "packet"
    /\ sent' = k
    /\ hleft' = hleft - 1
    /\ hpc' = IF hleft' = 0 THEN "submit" ELSE "packet"
    /\ \/ UNCHANGED <<count, recbuf, prevH, written, dropped, overflowed>>
       \/ /\ IsCopyOfPrevious(k)
          /\ dropped' = dropped \cup {<<k, prevH>>}
          /\ UNCHANGED <<count, recbuf, prevH, written, overflowed>>
       \/ /\ ~IsCopyOfPrevious(k)
          /\ recbuf' = [recbuf EXCEPT ![count % Slots] = k]
          /\ prevH' = k
          /\ count' = count + 1
          /\ written' = IF Emptying THEN written ELSE Append(written, k)
          /\ overflowed' = (overflowed \/ count >= Slots)
          /\ UNCHANGED dropped
    /\ UNCHANGED <<readptr, hurb, inflight, gone, got, dwaited, devVars,
                   urbVars, taskVars, discVars>>

HandlerSubmit ==
    /\ hpc = "submit"
    /\ \E ok \in SubmitResults(hurb) :
          /\ inflight' = [inflight EXCEPT ![hurb] = ok]
          /\ hpc' = IF ok THEN "mark" ELSE "wake"
    /\ UNCHANGED <<gone, sent, hurb, hleft, devVars, bufVars, urbVars, taskVars,
                   discVars, histVars>>

HandlerMark ==
    /\ hpc = "mark"
    /\ running' = [running EXCEPT ![hurb] = TRUE]
    /\ hpc' = "wake"
    /\ UNCHANGED <<allocated, hurb, hleft, sent, devVars, bufVars, taskVars, usbVars,
                   discVars, histVars>>

HandlerWake ==
    /\ hpc = "wake"
    /\ WakeReaders
    /\ hpc' = "idle"
    /\ hurb' = 0
    /\ UNCHANGED <<waitq, pc, idx, want, cnt, sig, hleft, sent, devVars,
                   bufVars, urbVars, usbVars, discVars, histVars>>

-----------------------------------------------------------------------------
\* Unplugging, and wavefinder_disconnect

Unplug ==
    /\ CanUnplug /\ ~gone
    /\ gone' = TRUE
    /\ UNCHANGED <<inflight, devVars, bufVars, urbVars, taskVars, irqVars,
                   discVars, histVars>>

\* The USB core calls disconnect after it has completed every URB in flight.
DiscBegin ==
    /\ TaskMayRun /\ gone /\ dpc = "none"
    /\ hpc = "idle" /\ \A u \in Urbs : ~inflight[u]
    /\ dpc' = "dereg"                           \* usb_set_intfdata(intf, NULL)
    /\ UNCHANGED <<dtask, devVars, bufVars, urbVars, taskVars, usbVars, irqVars,
                   histVars>>

\* usb_deregister_dev waits for the opens that have been looked up.
DiscDereg ==
    /\ TaskMayRun /\ dpc = "dereg"
    /\ \A p \in Procs : pc[p] \notin OpenPcs
    /\ dpc' = "flag"
    /\ UNCHANGED <<dtask, devVars, bufVars, urbVars, taskVars, usbVars, irqVars,
                   histVars>>

DiscFlag ==
    /\ TaskMayRun /\ dpc = "flag"
    /\ removePending' = TRUE
    /\ WakeReaders
    /\ dpc' = "arm"
    /\ UNCHANGED <<state, usbdev, opened, mutex, waitq, pc, idx, want, cnt, sig,
                   dtask, bufVars, urbVars, usbVars, irqVars, histVars>>

DiscArm ==
    /\ TaskMayRun /\ dpc = "arm"
    /\ dtask' = "sleep"
    /\ dpc' = "check"
    /\ UNCHANGED <<devVars, bufVars, urbVars, taskVars, usbVars, irqVars,
                   histVars>>

\* mutants of DiscCheck: wait for opened, or not at all, instead of for state
DiscCheckOpened ==
    /\ TaskMayRun /\ dpc = "check"
    /\ dpc' = IF opened THEN "wait" ELSE "finish"
    /\ dwaited' = (state = "started")
    /\ UNCHANGED <<dtask, written, got, dropped, overflowed, devVars,
                   bufVars, urbVars, taskVars, usbVars, irqVars>>
DiscCheckNothing ==
    /\ TaskMayRun /\ dpc = "check"
    /\ dpc' = "finish"
    /\ dwaited' = (state = "started")
    /\ UNCHANGED <<dtask, written, got, dropped, overflowed, devVars,
                   bufVars, urbVars, taskVars, usbVars, irqVars>>

DiscCheck ==
    /\ TaskMayRun /\ dpc = "check"
    /\ dpc' = IF state = "started" THEN "wait" ELSE "finish"
    /\ dwaited' = (state = "started")
    /\ UNCHANGED <<dtask, written, got, dropped, overflowed, devVars,
                   bufVars, urbVars, taskVars, usbVars, irqVars>>

DiscWake ==
    /\ TaskMayRun /\ dpc = "wait" /\ dtask = "run"
    /\ dpc' = "finish"
    /\ UNCHANGED <<dtask, devVars, bufVars, urbVars, taskVars, usbVars, irqVars,
                   histVars>>

DiscFinish ==
    /\ TaskMayRun /\ dpc = "finish"
    /\ dtask' = "run"
    /\ usbdev' = FALSE
    /\ dpc' = "done"
    /\ UNCHANGED <<state, removePending, opened, mutex, bufVars, urbVars,
                   taskVars, usbVars, irqVars, histVars>>

-----------------------------------------------------------------------------
\* Steps a task takes by itself inside a system call,
TaskStep(p) ==
    \/ OpenLock(p) \/ OpenReset(p)
    \/ IoctlLock(p) \/ IoctlSend(p)
    \/ ReadDone(p) \/ ReadLock(p) \/ ReadSetState(p) \/ ReadStart(p)
    \/ ReadSubmit(p) \/ ReadMark(p) \/ ReadWait(p) \/ ReadCopy(p)
    \/ ReadResetPtr(p) \/ ReadResetCount(p)
    \/ RelLock(p) \/ RelStop(p) \/ RelKill(p) \/ RelKilled(p) \/ RelFree(p)
    \/ RelWake(p) \/ RelDone(p)
\* and the calls it chooses to make.
UserStep(p) ==
    OpenLookup(p) \/ IoctlEnter(p) \/ ReadEnter(p) \/ Close(p) \/ Signal(p)

HandlerStep ==
    HandlerPacket \/ HandlerSubmit \/ HandlerMark \/ HandlerWake
DiscStep ==
    \/ DiscBegin \/ DiscDereg \/ DiscFlag \/ DiscArm \/ DiscCheck \/ DiscWake
    \/ DiscFinish

Next ==
    \/ \E p \in Procs : TaskStep(p) \/ UserStep(p)
    \/ \E u \in Urbs : HandlerEnter(u)
    \/ HandlerStep
    \/ Unplug
    \/ DiscStep

Spec == Init /\ [][Next]_vars

\* The handler finishes, URBs in flight complete, and the scheduler does not
\* starve a runnable task although interrupts keep preempting it.
Fairness ==
    /\ WF_vars(HandlerStep)
    /\ \A u \in Urbs : SF_vars(HandlerEnter(u))
    /\ \A p \in Procs : SF_vars(TaskStep(p))
    /\ SF_vars(DiscStep)

FairSpec == Spec /\ Fairness

\* The program reads for as long as it has the device open (the loop in wf.c).
ReaderSpec == FairSpec /\ \A p \in Procs : SF_vars(ReadEnter(p))

-----------------------------------------------------------------------------
\* Safety

\* The buffers of an URB outlive its transfer and its completion handler:
\* release frees them only after wavefinder_stop has killed what is in flight.
BufferLifetime ==
    /\ \A u \in Urbs : inflight[u] => allocated[u]
    /\ hpc # "idle" => allocated[hurb]

InUse(p) == pc[p] \in {"user"} \cup IoctlPcs \cup ReadPcs

\* A reader does not sleep on data: if there is some, the handler that brought
\* it has its wake_up still ahead.
NoLostWakeup ==
    \A p \in Procs :
        pc[p] = "rd_wait" /\ tstate[p] = "sleep" /\ count > readptr
            => hpc # "idle"

\* disconnect does not sleep through the last release: while it waits, a task
\* that has the file open has not yet passed wake_up(&s->remove_ok).
NoLostRemoveWakeup ==
    (dpc = "wait" /\ dtask = "sleep") =>
        \E p \in Procs :
            InUse(p) \/ pc[p] \in ReleasePcs \ {"rel_done"}

\* One task at a time has the device open, and open's clearing of allocated[]
\* and recbuf, done outside the mutex, never forgets buffers that are in use.
HasOpen(p) == pc[p] \notin {"none", "open_lock", "oops_open"}
ExclusiveOpen ==
    /\ \A p, q \in Procs : HasOpen(p) /\ HasOpen(q) => p = q
    /\ \A p \in Procs : pc[p] = "open_reset" =>
          \A u \in Urbs : ~allocated[u] /\ ~inflight[u]

\* As long as recbuf does not overflow, the user gets every packet accepted
\* in this session once, in order, except those that arrived after read had
\* compared readptr with count and before it cleared count.
Unread == [i \in 1 .. count - readptr |-> At(readptr + i - 1)]
StreamIntegrity ==
    ~overflowed /\ ~Emptying => written = got \o Unread

\* Only a packet whose header repeats the header before it is dropped.
OnlyDuplicatesDropped == \A d \in dropped : Stream[d[1]] = Stream[d[2]]

\* The driver implements the queue of LossyFifo: whatever the interleaving of read and the
\* handler, packets are delivered once and in order and are lost only in the ways named
\* there.  While read is resetting readptr and count the queue is empty: what recbuf holds
\* then is either delivered or missed.
Kept(value, otherwise) == IF overflowed THEN otherwise ELSE value
Fifo == INSTANCE LossyFifo WITH
            Content <- Stream, Capacity <- Slots,
            taken <- sent, accepted <- prevH, rejected <- {d[1] : d \in dropped},
            queue <- Kept(IF Emptying THEN <<>> ELSE Unread, <<>>),
            delivered <- Kept(got, <<>>),
            burst <- Kept(count, 0),
            broken <- overflowed
ImplementsFifo == Fifo!FifoSpec

\* If disconnect found the receiver started, no task uses usbdev after it has
\* been cleared: disconnect waited for the release.
NoFaultWhenStreaming ==
    dwaited => \A p \in Procs : pc[p] \notin {"oops_ioctl", "oops_read"}

\* A task leaves its entry on s->wait behind only if the copy to its buffer
\* faulted.
StaleWaiterFaulted ==
    \A p \in waitq : pc[p] \in ReadPcs \/ p \in BadBuffer \/ pc[p] = "oops_read"

-----------------------------------------------------------------------------
\* Liveness

InSeq(k, s) == \E i \in DOMAIN s : s[i] = k

\* An accepted packet that did not come while recbuf was being emptied is read,
\* unless recbuf overflowed or the file is not open any more.
DataReachesReader ==
    \A k \in 1 .. Len(Stream) :
        InSeq(k, written) ~>
            \/ InSeq(k, got) \/ overflowed
            \/ \A p \in Procs : ~InUse(p)

\* release gets past usb_kill_urb although the handler resubmits its URB.
ReleaseTerminates ==
    \A p \in Procs : pc[p] = "rel_lock" ~> pc[p] = "none"

\* Once the receiver is stopped, disconnect ends.
DisconnectEnds == (dpc = "wait" /\ state = "stopped") ~> dpc = "done"
=============================================================================
