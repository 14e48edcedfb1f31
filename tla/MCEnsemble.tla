------------------------------ MODULE MCEnsemble ------------------------------
(***************************************************************************)
(* Instances of Ensemble: a service with a primary DAB+ component and a    *)
(* secondary one, and a service with one component.                        *)
(***************************************************************************)
EXTENDS Ensemble

CONSTANTS s1, s2, c1, c2, c3

TwoSids      == {s1, s2}
ThreeSubchids == {c1, c2, c3}
TwoComponents ==
    [s \in TwoSids |-> IF s = s1 THEN [pa |-> c1, sa |-> c2] ELSE [pa |-> c3, sa |-> NULL]]
FirstDabPlus == {c1}
=============================================================================
