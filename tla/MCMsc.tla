-------------------------------- MODULE MCMsc --------------------------------
(***************************************************************************)
(* Instances of MscAssembler with the geometry of DAB transmission mode I. *)
(***************************************************************************)
EXTENDS MscAssembler

map16 == <<0, 8, 4, 12, 2, 10, 6, 14, 1, 9, 5, 13, 3, 11, 7, 15>>
MapMode1 == [c \in 0 .. 15 |-> map16[c + 1]]

\* The same order for a ring of half the length, two frames instead of four.
map8 == <<0, 4, 2, 6, 1, 5, 3, 7>>
MapHalf == [c \in 0 .. 7 |-> map8[c + 1]]

\* One symbol, two symbols ending on a symbol boundary, and two of the middle.
InnerSubchannels == {[startaddr |-> 2, subchsz |-> 40],
                     [startaddr |-> 0, subchsz |-> 48],
                     [startaddr |-> 420, subchsz |-> 84]}
\* The last capacity unit of the CIF is 863.
LastSubchannels == {[startaddr |-> 780, subchsz |-> 84]}
=============================================================================
