------------------------------ MODULE MCReceiver ------------------------------
(***************************************************************************)
(* wf for TLC: the start of the device, which may fail or be interrupted,  *)
(* and then the main loop; or, from other initial states, the corrections  *)
(* that wf_sync sends, on their clock.                                     *)
(***************************************************************************)
EXTENDS Receiver, Corrections, DeviceInit

MCLines == {<<"newline">>, <<"1", "newline">>, <<"1", "2", "newline">>}
MCNumbers == {<<"1">>}

\* The clock is set back and forward.
MCSets == {-100, 200}

Correcting == turn # "none"
CIdle ==
    /\ clock = 0 /\ taken = [m \in Messages |-> 0]
    /\ turn = "none" /\ asked = {} /\ sent = {}
    /\ since = [m \in Messages |-> 0] /\ ahead = [m \in Messages |-> FALSE]

MCInit == RInit /\ BInit /\ (CIdle \/ CInit)
MCNext ==
    \/ ~Correcting /\ wf = "starting" /\ BNext /\ UNCHANGED <<rvars, cvars>>
    \/ ~Correcting /\ wf = "receiving" /\ RNext /\ UNCHANGED <<bvars, cvars>>
    \/ Correcting /\ CNext /\ UNCHANGED <<rvars, bvars>>
MCSpec ==
    /\ MCInit /\ [][MCNext]_<<rvars, bvars, cvars>>
    /\ WF_<<rvars, bvars, cvars>>(MCNext)
===============================================================================
