------------------------------ MODULE Corrections ------------------------------
(***************************************************************************)
(* The two corrections that wf_sync (wfsync.c) and wf_afc (wfafc.c) send   *)
(* to the WaveFinder's oscillator, and the times they leave between them.  *)
(*                                                                         *)
(* Both read the real-time clock (wftime.c) at the call and compare the    *)
(* reading with that of the call before.  Between two calls, and between   *)
(* the two readings of one, any time may pass: for the next phase          *)
(* reference symbol, for packets in buffers, for the scheduler; and        *)
(* somebody may set the clock.                                             *)
(***************************************************************************)
EXTENDS Integers

CONSTANTS Steps,        \* the times that may pass from one call to the next, in ms
          Delays,       \* and between the two readings of a call
          Sets,         \* what the clock may be set forward by, or back if it is negative
          Starts,       \* its readings when wf starts
          ClockRange    \* the clock is read modulo this; 10^9 in the code

ASSUME RangeAssumption == ClockRange \in Nat \ {0}
ASSUME ClockAssumption ==
    /\ Steps \cup Delays \subseteq 0 .. ClockRange - 1 /\ Starts \subseteq 0 .. ClockRange - 1
    /\ Sets \subseteq -ClockRange .. ClockRange - 1

Messages == {"outreg0", "afc"}
Interval == [m \in Messages |-> IF m = "outreg0" THEN 60 ELSE 250]

VARIABLES
    clock,     \* what wf_time would return
    taken,     \* per message: the reading of the last call, lms and lmsec
    turn,      \* "wait" for a phase reference symbol; "outreg0" and "afc" in the call
    asked,     \* the corrections the last estimate calls for: i # 0, afcv beyond 75
    sent,      \* the message the step sent
    since,     \* history, per message: ms since it was sent, at most its interval + 1
    ahead      \* history, per message: since its reading the clock was set to a later one

cvars == <<clock, taken, turn, asked, sent, since, ahead>>

CInit ==
    /\ clock \in Starts /\ taken = [m \in Messages |-> 0]
    /\ turn = "wait" /\ asked = {} /\ sent = {}
    /\ since = [m \in Messages |-> Interval[m] + 1] /\ ahead = [m \in Messages |-> FALSE]

Wrapped(c) ==
    IF c < 0 THEN c + ClockRange ELSE IF c < ClockRange THEN c ELSE c - ClockRange

-----------------------------------------------------------------------------
Pass(d) ==
    /\ clock' = Wrapped(clock + d)
    /\ since' = [m \in Messages |->
                    IF since[m] + d > Interval[m] THEN Interval[m] + 1 ELSE since[m] + d]
    /\ sent' = {}
    /\ UNCHANGED <<taken, asked, ahead>>

\* until the next phase reference symbol is complete
Wait == turn = "wait" /\ turn' = "outreg0" /\ \E d \in Steps : Pass(d)

\* in the control message of wf_sync, and before wf_afc is scheduled
Delay == turn = "afc" /\ UNCHANGED turn /\ \E d \in Delays : Pass(d)

SetClock(d) ==
    /\ clock' = Wrapped(clock + d)
    /\ ahead' = [m \in Messages |-> ahead[m] \/ d > 0 \/ clock + d < 0]
    /\ sent' = {}
    /\ UNCHANGED <<taken, turn, asked, since>>

\* The difference is signed: it is negative after the clock went through 10^6 s.
DueUnsigned(m) == clock < taken[m] \/ clock - taken[m] > Interval[m]   \* mutant: it is not
Due(m) == clock - taken[m] > Interval[m]

\* The time is taken by every call, whether the message is sent or not.
Send(m, corrections) ==
    /\ sent' = {m} \cap corrections \cap {n \in Messages : Due(n)}
    /\ taken' = [taken EXCEPT ![m] = clock]
    /\ since' = [since EXCEPT ![m] = IF m \in sent' THEN 0 ELSE @]
    /\ ahead' = [ahead EXCEPT ![m] = FALSE]

\* wf_sync, up to the call of wf_afc: the estimate is made, and OUTREG0 corrected.
SyncCorrects ==
    /\ turn = "outreg0" /\ turn' = "afc"
    /\ asked' \in SUBSET Messages
    /\ Send("outreg0", asked')
    /\ UNCHANGED clock

wf_afc ==
    /\ turn = "afc" /\ turn' = "wait"
    /\ Send("afc", asked)
    /\ UNCHANGED <<clock, asked>>

CNext == Wait \/ Delay \/ (\E d \in Sets : SetClock(d)) \/ SyncCorrects \/ wf_afc

\* Phase reference symbols keep coming, and wf runs.
CSpec == /\ CInit /\ [][CNext]_cvars
         /\ WF_cvars(Wait) /\ WF_cvars(SyncCorrects) /\ WF_cvars(wf_afc)

-----------------------------------------------------------------------------
\* Two messages to OUTREG0 are more than 60 ms apart and two AFC messages more than 250
\* (wfsync.c, wfafc.c), however the calls are delayed and when the clock wraps or is set
\* back: only setting it to a later reading since the last call may bring them closer.
MessagesApart ==
    [][\A m \in Messages : m \in sent' /\ ~ahead[m] => since[m] > Interval[m]]_cvars

\* wfafc.c:22, "Send AFC value to control the VCXO DAC in the WaveFinder", and :41, "Must be
\* at least 250ms between AFC messages", give the distance of two messages; the code measures
\* the distance of two calls, so that with a call in every frame no AFC message is sent.
AfcSent == <>[]("afc" \in asked) => []<>("afc" \in sent)

===============================================================================
