------------------------------ MODULE MCDriver ------------------------------
(***************************************************************************)
(* Instances of WaveFinderDriver.  A header is <<symbol, frame, block>>:   *)
(* the bytes of the 12-byte header that tell packets apart, the two        *)
(* constant bytes before them and the bytes that never vary left out.      *)
(***************************************************************************)
EXTENDS WaveFinderDriver

CONSTANTS p1, p2

OneTask  == {p1}
TwoTasks == {p1, p2}
NoTasks  == {}
Second   == {p2}

\* Two PRS blocks, one of them sent twice, and a QPSK symbol.
PlainStream == << <<1, 5, 1>>, <<1, 5, 2>>, <<1, 5, 2>>, <<2, 5, 0>> >>
ShortStream == << <<2, 5, 0>>, <<3, 5, 0>> >>
\* The first two blocks of the PRS of frame 0.
FrameZeroStream == << <<1, 0, 1>>, <<1, 0, 2>> >>
=============================================================================
