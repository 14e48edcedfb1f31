------------------------------- MODULE Ensemble -------------------------------
(***************************************************************************)
(* How the program learns what is on the air and what to decode: the       *)
(* symbols of the Fast Information Channel (FIC) are put together by       *)
(* fic_assemble, the FIGs in the decoded FIBs build the list of services   *)
(* and the table of subchannels (wfficproc.c, wffigproc.c), and the loop   *)
(* of wf.c processes the FIC until it has heard enough, displays the list  *)
(* and lets the user select a service.                                     *)
(*                                                                         *)
(* The broadcaster repeats its FIGs in an order of its own, and any symbol *)
(* may be lost.  A FIB that passes its CRC is taken to carry one FIG that  *)
(* matters here, or none; which FIG is not known before it is unpicked.    *)
(* A label is only present or absent.  Of a subchannel only what changes   *)
(* or may be wrong is kept: whether it is known (subchid < 64) and dabplus.*)
(* num_schans and prev, which are never read, the prompt, and the ensemble *)
(* label, which is only displayed, are left out.                           *)
(***************************************************************************)
EXTENDS Integers, Sequences, FiniteSets

CONSTANTS
    Sids,          \* the audio services of the multiplex
    Subchids,      \* its audio subchannels
    NULL,          \* no subchannel
    Components,    \* Components[s].pa and .sa: subchannels of service s, or NULL
    DabPlus,       \* the subchannels that carry DAB+
    MAXFIBS,       \* give up on labels after so many FIBs
    FrameFibs,     \* FIBs in a transmission frame
    FrameNumbers,  \* frame numbers are counted modulo this
    MaxGap         \* bound: FIC symbols lost in a row

ASSUME MultiplexAssumption ==
    /\ NULL \notin Subchids
    /\ Components \in [Sids -> [pa : Subchids \cup {NULL}, sa : Subchids \cup {NULL}]]
    /\ DabPlus \subseteq Subchids
ASSUME CountAssumption ==
    /\ {MAXFIBS, MaxGap} \subseteq Nat
    /\ {FrameFibs, FrameNumbers} \subseteq Nat \ {0}

VARIABLES
    \* fic_assemble
    symFlags,  \* sym_flags, as the set of symbols it stands for
    curFrame,  \* cur_frame
    \* process_fic
    fibcnt,
    todo,      \* FIBs decoded and not yet unpicked
    einf,      \* the ensemble: srv, schan, num_srvs
    \* main
    enslistvisible,
    selSrv,    \* sel_srv: sid and sch
    selected,
    \* the transmission: the next symbol, 5 standing for all that follow 4
    airFrame, sym,
    gap,       \* FIC symbols lost in a row
    \* history
    own,       \* symbols of ficsyms[] that were sent in this frame
    torn       \* symbols of different frames have been decoded together

assembler == <<symFlags, curFrame>>
ensemble  == <<fibcnt, einf>>
user      == <<enslistvisible, selSrv, selected>>
air       == <<airFrame, sym, gap>>
vars == <<assembler, ensemble, todo, user, air, own, torn>>

FicSyms == 2 .. 4
Service == [sid : Sids, label : BOOLEAN, pa : Subchids \cup {NULL},
            sa : Subchids \cup {NULL}]
Schan   == [Subchids -> [known : BOOLEAN, dabplus : BOOLEAN]]

TypeOK ==
    /\ symFlags \subseteq FicSyms /\ own \subseteq FicSyms
    /\ {curFrame, airFrame} \subseteq 0 .. FrameNumbers - 1
    /\ fibcnt \in Nat /\ todo \in 0 .. FrameFibs
    /\ einf \in [srv : Seq(Service), schan : Schan, num_srvs : Nat]
    /\ {enslistvisible, selected, torn} \subseteq BOOLEAN
    /\ selSrv \in [sid : Sids \cup {NULL}, sch : Subchids \cup {NULL}]
    /\ sym \in 2 .. 5 /\ gap \in 0 .. MaxGap

\* ficinit marks the subchannels unused; einf is a global, so the rest is zero.
Init ==
    /\ symFlags = {} /\ curFrame = 0
    /\ fibcnt = 0 /\ todo = 0
    /\ einf = [srv |-> <<>>, num_srvs |-> 0,
               schan |-> [c \in Subchids |-> [known |-> FALSE, dabplus |-> FALSE]]]
    /\ enslistvisible = FALSE /\ selected = FALSE
    /\ selSrv = [sid |-> NULL, sch |-> NULL]
    /\ airFrame \in 0 .. FrameNumbers - 1 /\ sym = 2 /\ gap = 0
    /\ own = {} /\ torn = FALSE

-----------------------------------------------------------------------------
\* The ensemble e.  A service is known by its place in the list.

find_service(e, s) == {k \in DOMAIN e.srv : e.srv[k].sid = s}

\* mutant of add_service: the list is not searched
AddServiceAgain(e, s, c, primary) ==
    [e EXCEPT !.srv = Append(@, [sid |-> s, label |-> FALSE,
                                 pa |-> IF primary THEN c ELSE NULL,
                                 sa |-> IF primary THEN NULL ELSE c]),
              !.num_srvs = @ + 1,
              !.schan[c].dabplus = (c \in DabPlus)]
\* mutant of add_service: a repeated component is counted again
AddServiceRecount(e, s, c, primary) ==
    LET srv == IF find_service(e, s) # {} THEN e.srv
               ELSE Append(e.srv, [sid |-> s, label |-> FALSE, pa |-> NULL, sa |-> NULL])
        k   == CHOOSE i \in DOMAIN srv : srv[i].sid = s
    IN  [srv      |-> IF primary THEN [srv EXCEPT ![k].pa = c] ELSE [srv EXCEPT ![k].sa = c],
         schan    |-> [e.schan EXCEPT ![c].dabplus = (c \in DabPlus)],
         num_srvs |-> e.num_srvs + 1]

\* The pointers are set once; dabplus is set by every call.
add_service(e, s, c, primary) ==
    LET srv == IF find_service(e, s) # {} THEN e.srv
               ELSE Append(e.srv, [sid |-> s, label |-> FALSE, pa |-> NULL, sa |-> NULL])
        k   == CHOOSE i \in DOMAIN srv : srv[i].sid = s
        newPrimary   == primary /\ srv[k].pa = NULL
        newSecondary == ~primary /\ srv[k].sa = NULL
    IN  [srv      |-> IF newPrimary THEN [srv EXCEPT ![k].pa = c]
                      ELSE IF newSecondary THEN [srv EXCEPT ![k].sa = c]
                      ELSE srv,
         schan    |-> [e.schan EXCEPT ![c].dabplus = (c \in DabPlus)],
         num_srvs |-> IF newPrimary \/ newSecondary THEN e.num_srvs + 1
                      ELSE e.num_srvs]

\* s.dabplus is not set by fig_0_1: d is what happened to be on the stack.
AddSubchannelAlways(e, c, d) ==                 \* mutant: known or not
    [e EXCEPT !.schan[c] = [known |-> TRUE, dabplus |-> d]]
add_subchannel(e, c, d) ==
    IF e.schan[c].known THEN e
    ELSE [e EXCEPT !.schan[c] = [known |-> TRUE, dabplus |-> d]]

labelled(e) == e.srv # <<>> /\ \A k \in DOMAIN e.srv : e.srv[k].label

\* The number in front of each service, when the k-th one takes height[k] numbers.
Numbers(height) ==
    LET at[k \in DOMAIN height] == IF k = 1 THEN 0 ELSE at[k - 1] + height[k - 1]
    IN  at

\* disp_ensemble: <<number, service, subchannel>> of every line
DispHeight(p) == IF p.pa # NULL /\ p.sa # NULL THEN 2 ELSE 1
Displayed(e) ==
    LET at == Numbers([k \in DOMAIN e.srv |-> DispHeight(e.srv[k])])
    IN  {<<at[k], e.srv[k].sid, e.srv[k].pa>> : k \in DOMAIN e.srv}
        \cup {<<at[k] + 1, e.srv[k].sid, e.srv[k].sa>> :
                k \in {i \in DOMAIN e.srv : DispHeight(e.srv[i]) = 2}}

\* user_select_service: the line that number i stands for, the last that fits
SelHeight(p) == IF p.sa = NULL THEN 1 ELSE 2
Choice(e, i) ==
    LET at   == Numbers([k \in DOMAIN e.srv |-> SelHeight(e.srv[k])])
        secondary(k) == at[k] = i - 1 /\ e.srv[k].sa # NULL
        hits == {k \in DOMAIN e.srv : at[k] = i \/ secondary(k)}
        k    == CHOOSE m \in hits : \A n \in hits : n <= m
    IN  IF hits = {} THEN selSrv
        ELSE [sid |-> e.srv[k].sid,
              sch |-> IF secondary(k) THEN e.srv[k].sa ELSE e.srv[k].pa]

-----------------------------------------------------------------------------
\* process_fic: the handlers of the FIGs that change the ensemble

UnpickOneMore(e) ==                             \* mutant: "i <= fibs"
    /\ todo >= 0
    /\ todo' = todo - 1
    /\ einf' = e
    /\ UNCHANGED <<assembler, fibcnt, user, air, own, torn>>
Unpick(e) ==
    /\ todo > 0
    /\ todo' = todo - 1
    /\ einf' = e
    /\ UNCHANGED <<assembler, fibcnt, user, air, own, torn>>

Fig01 == \E c \in Subchids, d \in BOOLEAN : Unpick(add_subchannel(einf, c, d))

\* The audio components of a service come in one FIG, the primary one first.
Fig02 ==
    \E s \in Sids :
        LET pa == Components[s].pa
            sa == Components[s].sa
            e  == IF pa = NULL THEN einf ELSE add_service(einf, s, pa, TRUE)
        IN  Unpick(IF sa = NULL THEN e ELSE add_service(e, s, sa, FALSE))

Fig11 ==
    \E s \in Sids :
        Unpick([einf EXCEPT !.srv =
                  [k \in DOMAIN @ |-> IF k \in find_service(einf, s)
                                        THEN [@[k] EXCEPT !.label = TRUE] ELSE @[k]]])

FigIgnored == Unpick(einf)

-----------------------------------------------------------------------------
\* The device sends the next symbol.  It may get lost on the way, or be ignored
\* because synchronisation is not locked.

NextSymbol ==
    IF sym < 5 THEN sym' = sym + 1 /\ UNCHANGED airFrame
    ELSE sym' = 2 /\ airFrame' = (airFrame + 1) % FrameNumbers

Lose ==
    /\ todo = 0 /\ sym \in FicSyms /\ gap < MaxGap
    /\ NextSymbol
    /\ gap' = gap + 1
    /\ UNCHANGED <<assembler, ensemble, todo, user, own, torn>>

Collecting == fibcnt < MAXFIBS /\ ~labelled(einf)

\* sym_flags after the symbol has come; a symbol is stored if it is among them.
FlagsAnyFrame ==                                \* mutant: frame is not compared
    IF sym = 2 THEN {2} ELSE symFlags \cup {sym}
Flags ==
    IF sym = 2 THEN {2} ELSE IF airFrame = curFrame THEN symFlags \cup {sym} ELSE {}

\* What fic_decode makes of a complete frame: the FIBs whose CRC is good.
ProcessUncounted ==                             \* mutant
    \E n \in 0 .. FrameFibs : todo' = n /\ UNCHANGED fibcnt
process_fic == \E n \in 0 .. FrameFibs : todo' = n /\ fibcnt' = fibcnt + n

\* A packet that is handed to fic_assemble
FicSymbol ==
    /\ todo = 0 /\ Collecting /\ sym \in FicSyms
    /\ curFrame' = IF sym = 2 THEN airFrame ELSE curFrame
    /\ own' = IF sym \in Flags THEN own \cup {sym} ELSE own
    /\ IF Flags = FicSyms
         THEN process_fic /\ symFlags' = {} /\ torn' = (torn \/ own' # FicSyms)
         ELSE symFlags' = Flags /\ UNCHANGED <<todo, fibcnt, torn>>
    /\ NextSymbol /\ gap' = 0
    /\ UNCHANGED <<einf, user>>

\* Until the list is displayed the other symbols are of no interest.
OtherSymbol ==
    /\ todo = 0 /\ Collecting /\ sym = 5
    /\ NextSymbol
    /\ own' = {}
    /\ UNCHANGED <<assembler, ensemble, todo, user, gap, torn>>

-----------------------------------------------------------------------------
\* A packet of any symbol once the FIC has been heard: nothing of it is used,
\* but it makes the loop come round.

Heard == todo = 0 /\ ~Collecting

\* wfgetnum returns -1 when nothing, or no number, has been typed.
UserSelect ==
    /\ Heard /\ selSrv.sch = NULL
    /\ enslistvisible' = TRUE
    /\ \E i \in -2 .. einf.num_srvs :
          selSrv' = IF i = -1 THEN selSrv
                    ELSE IF i \in 0 .. einf.num_srvs - 1 THEN Choice(einf, i)
                    ELSE [selSrv EXCEPT !.sch = NULL]
    /\ UNCHANGED <<assembler, ensemble, todo, selected, air, own, torn>>

\* startsym and wfsymsel, if anything is known about the subchannel
\* (mutant: not asked)
SelectAnyway ==
    /\ Heard /\ selSrv.sch # NULL
    /\ enslistvisible' = TRUE
    /\ selected' = TRUE
    /\ UNCHANGED <<assembler, ensemble, todo, selSrv, air, own, torn>>
Select ==
    /\ Heard /\ selSrv.sch # NULL
    /\ enslistvisible' = TRUE
    /\ selected' = (selected \/ einf.schan[selSrv.sch].known)
    /\ UNCHANGED <<assembler, ensemble, todo, selSrv, air, own, torn>>

Next ==
    \/ Fig01 \/ Fig02 \/ Fig11 \/ FigIgnored
    \/ Lose \/ FicSymbol \/ OtherSymbol
    \/ UserSelect \/ Select

Spec == Init /\ [][Next]_vars

\* The device keeps sending, and now and then a FIB of a whole frame is good.
GoodFic == FicSymbol /\ todo' > 0
Fairness ==
    /\ WF_vars(Fig01 \/ Fig02 \/ Fig11 \/ FigIgnored)
    /\ WF_vars(Lose \/ FicSymbol \/ OtherSymbol)
    /\ WF_vars(UserSelect \/ Select)
    /\ SF_vars(GoodFic)

FairSpec == Spec /\ Fairness

-----------------------------------------------------------------------------
\* Only symbols of one transmission frame are decoded together, although the
\* frame number is all that tells a lost frame; as long as a loss is too short
\* for the number to come round again, MaxGap <= 3 * (FrameNumbers - 1).
FicFromOneFrame == ~torn

\* A service is listed once, with the components the multiplex gives it.
EnsembleTrue ==
    \A k \in DOMAIN einf.srv :
        /\ find_service(einf, einf.srv[k].sid) = {k}
        /\ [pa |-> einf.srv[k].pa, sa |-> einf.srv[k].sa] = Components[einf.srv[k].sid]

\* add_service counts, disp_ensemble numbers and user_select_service counts off
\* the same lines, whatever the order in which FIGs arrived: every number that
\* is offered selects the service and subchannel displayed beside it.  That is
\* so only as long as every service has a primary audio component.
SelectionMatchesDisplay ==
    (\A k \in DOMAIN einf.srv : einf.srv[k].pa # NULL) =>
        Displayed(einf) =
            {<<i, Choice(einf, i).sid, Choice(einf, i).sch>> : i \in 0 .. einf.num_srvs - 1}

\* What startsym is given is known, and is a component of the service selected.
SelectedIsKnown ==
    selected => /\ selSrv.sch # NULL /\ einf.schan[selSrv.sch].known
                /\ selSrv.sch \in {Components[selSrv.sid].pa, Components[selSrv.sid].sa}

\* A repeated FIG does not undo what is known of a subchannel: once it is known
\* and its type is right, its type stays right.
Right(e, c) == e.schan[c].known /\ e.schan[c].dabplus = (c \in DabPlus)
TypeNeverLost == [][\A c \in Subchids : Right(einf, c) => Right(einf', c)]_vars

\* The program gives up on a label that never comes: if, as long as it collects,
\* whole frames keep being completed, then the list is displayed.  It stops
\* collecting at the last label or at MAXFIBS, and then any packet displays it.
FrameCompletes == symFlags = {2, 3} /\ sym = 4 /\ airFrame = curFrame
MenuAppears == []<>(~Collecting \/ FrameCompletes) => <>enslistvisible

\* README.OpenDAB: the FIC is processed until "all the audio services have been
\* labelled" or MAXFIBS FIBs have been received, and is not looked at again once
\* "the necessary info to decode the required symbols" is there.
FicHeardOut ==
    enslistvisible /\ fibcnt < MAXFIBS =>
        \A s \in Sids : \E k \in DOMAIN einf.srv :
            /\ einf.srv[k].sid = s /\ einf.srv[k].label
            /\ \A c \in {einf.srv[k].pa, einf.srv[k].sa} \ {NULL} : einf.schan[c].known
=============================================================================
