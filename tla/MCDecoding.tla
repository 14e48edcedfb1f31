------------------------------- MODULE MCDecoding -------------------------------
(***************************************************************************)
(* What wf does with a received frame, for TLC: an initial state is a      *)
(* codeword for the Viterbi decoder, a service whose logical frames become *)
(* audio, or the FIC, whose bits are taken from the symbols, or whose      *)
(* symbols, FIBs and FIGs make the ensemble.  The other machines have      *)
(* nothing to do.                                                          *)
(***************************************************************************)
EXTENDS MCEnsemble, Viterbi, AudioFrames, SymbolBits

MCMessages == {[i \in 0 .. NBits - 1 |-> 0],
               [i \in 0 .. NBits - 1 |-> IF i \in {0, 1, 3} THEN 1 ELSE 0]}

\* Every UEP profile and the EEP ones with small subchannels; every number of AUs.
AudioService(s, k, n) == [sub |-> s, kind |-> k, aus |-> n]
MCServices ==
    {AudioService(UepSubchannel(i), "mp2", 0) : i \in DOMAIN ueptable}
    \cup {AudioService(EepSubchannel(l, n), "mp2", 0) : l \in 4 .. 7, n \in {1, 2, 3}}
    \cup {AudioService(UepSubchannel(14), "mp2low", 0), AudioService(EepSubchannel(1, 1), "mp2low", 0)}
    \cup {AudioService(EepSubchannel(l, n), "dabplus", 3) : l \in 0 .. 7, n \in {1, 3}}
    \cup {AudioService(EepSubchannel(2, 8), "dabplus", n) : n \in {2, 4, 6}}

TrellisIdle ==
    /\ msg = (CHOOSE m \in Messages : TRUE) /\ vec = 0 /\ flips = {} /\ pass = Steps47
    /\ cmetric = StartMetric /\ paths = <<>> /\ data = <<>>
AudioIdle ==
    /\ svc = (CHOOSE s \in Services : TRUE) /\ at = <<MaxUnits + 1, 0>>
    /\ frame = 0 /\ sfbuf = <<>> /\ header_valid = FALSE /\ header_expected = TRUE
    /\ out = <<>> /\ last = Nothing
    /\ faults = 0 /\ lostrun = 0 /\ clean = TRUE /\ intact = 0

MCInit == /\ FInit /\ Init
          /\ \/ VInit /\ AudioIdle /\ airFrame = 0
             \/ AInit /\ TrellisIdle /\ airFrame = 0
             \/ TrellisIdle /\ AudioIdle

Fic == TrellisIdle /\ AudioIdle /\ UNCHANGED <<vvars, avars>>

MCNext == \/ VNext /\ UNCHANGED <<avars, fvars, vars>>
          \/ ANext /\ UNCHANGED <<vvars, fvars, vars>>
          \/ Fic /\ Init /\ fic_decode /\ UNCHANGED vars
          \/ Fic /\ FInit /\ Next /\ UNCHANGED fvars

MCSpec == MCInit /\ [][MCNext]_<<vvars, avars, fvars, vars>> /\ Fairness

=============================================================================
