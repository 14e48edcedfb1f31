------------------------------ MODULE Puncturing ------------------------------
(***************************************************************************)
(* Which bits of the convolutional code are sent, and which the decoder    *)
(* has to fill in as erasures: the puncturing vectors, the protection      *)
(* profiles (wftables.c, prot.h) and the depuncturing of a subchannel      *)
(* (wfmdepunc.c) and of the FIC (wfic/puncture.c).  Bits are counted, not  *)
(* copied: a profile says for each part of a codeword how many blocks it   *)
(* has (l) and by which vector they are punctured (pi).                    *)
(***************************************************************************)
EXTENDS Integers, Sequences, FiniteSets, FiniteSetsExt

BLKSIZE == 128
BITSPERCU == 64

\* Each vector keeps one position more than the vector before it.
KeptByAll == {4 * i : i \in 0 .. 7}
NextKept == << 1, 17,  9, 25, 5, 21, 13, 29,   2, 18, 10, 26, 6, 22, 14, 30,
               3, 19, 11, 27, 7, 23, 15, 31 >>
\* mutant: the vectors are numbered from one.
pvecFromOne == [v \in 0 .. 23 |-> KeptByAll \cup {NextKept[i] : i \in 1 .. v}]

pvec == [v \in 0 .. 23 |-> KeptByAll \cup {NextKept[i] : i \in 1 .. v + 1}]

\* Bits taken from the input to fill the first n positions punctured by vector v.
Taken(v, n) == (n \div 32) * Cardinality(pvec[v])
               + Cardinality({i \in pvec[v] : i < n % 32})

TailBits == 24
TailVector == 7

\* A row of ueptable, <<bitrate, subchsz, protlvl, l, pi, padbits>>; an unused part
\* has no blocks.
UepRows == <<
  <<32,16,5, <<3,4,17,0>>, <<4,2,1,-1>>, 0>>,       <<32,21,4, <<3,3,18,0>>, <<10,5,4,-1>>, 0>>,
  <<32,24,3, <<3,4,14,3>>, <<14,8,5,7>>, 0>>,       <<32,29,2, <<3,4,14,3>>, <<21,12,7,12>>, 0>>,
  <<32,35,1, <<3,5,13,3>>, <<23,16,11,16>>, 4>>,    <<48,24,5, <<4,3,26,3>>, <<4,3,1,2>>, 0>>,
  <<48,29,4, <<3,4,26,3>>, <<8,5,3,5>>, 0>>,        <<48,35,3, <<3,4,26,3>>, <<14,9,5,8>>, 4>>,
  <<48,42,2, <<3,4,26,3>>, <<23,13,7,14>>, 0>>,     <<48,52,1, <<3,5,25,3>>, <<23,17,12,17>>, 0>>,
  <<56,29,5, <<6,10,23,3>>, <<4,3,1,2>>, 0>>,       <<56,35,4, <<6,10,23,3>>, <<8,5,3,4>>, 0>>,
  <<56,42,3, <<6,12,21,3>>, <<15,6,5,8>>, 0>>,      <<56,52,2, <<6,10,23,3>>, <<22,12,7,12>>, 8>>,
  <<64,32,5, <<6,9,31,2>>, <<4,2,1,2>>, 0>>,        <<64,42,4, <<6,9,33,0>>, <<10,5,4,-1>>, 0>>,
  <<64,48,3, <<6,12,27,3>>, <<15,7,5,8>>, 0>>,      <<64,58,2, <<6,10,29,3>>, <<22,12,7,12>>, 8>>,
  <<64,70,1, <<6,11,28,3>>, <<23,17,11,17>>, 4>>,   <<80,40,5, <<6,10,41,3>>, <<5,2,1,2>>, 0>>,
  <<80,52,4, <<6,10,41,3>>, <<10,5,4,5>>, 0>>,      <<80,58,3, <<6,11,40,3>>, <<15,7,5,6>>, 0>>,
  <<80,70,2, <<6,10,41,3>>, <<22,12,7,12>>, 8>>,    <<80,84,1, <<6,10,41,3>>, <<23,16,11,17>>, 4>>,
  <<96,48,5, <<7,9,53,3>>, <<4,3,1,3>>, 0>>,        <<96,58,4, <<7,10,52,3>>, <<8,5,3,5>>, 0>>,
  <<96,70,3, <<6,12,51,3>>, <<15,8,5,9>>, 4>>,      <<96,84,2, <<6,10,53,3>>, <<21,11,8,11>>, 0>>,
  <<96,104,1, <<6,13,50,3>>, <<23,17,12,18>>, 0>>,  <<112,58,5, <<14,17,50,3>>, <<4,3,1,4>>, 0>>,
  <<112,70,4, <<11,21,49,3>>, <<8,5,3,7>>, 0>>,     <<112,84,3, <<11,23,47,3>>, <<15,7,5,8>>, 0>>,
  <<112,104,2, <<11,21,49,3>>, <<22,11,8,13>>, 4>>, <<128,64,5, <<12,19,62,3>>, <<4,2,1,3>>, 0>>,
  <<128,84,4, <<11,21,61,3>>, <<10,5,4,6>>, 0>>,    <<128,96,3, <<11,22,60,3>>, <<15,8,5,9>>, 4>>,
  <<128,116,2, <<11,21,61,3>>, <<21,11,8,13>>, 0>>, <<128,140,1, <<11,20,62,3>>, <<23,16,12,18>>, 8>>,
  <<160,80,5, <<11,19,87,3>>, <<4,3,1,3>>, 0>>,     <<160,104,4, <<11,23,83,3>>, <<10,5,4,8>>, 0>>,
  <<160,116,3, <<11,24,82,3>>, <<15,7,5,10>>, 0>>,  <<160,140,2, <<11,21,85,3>>, <<21,10,8,12>>, 0>>,
  <<160,168,1, <<11,22,84,3>>, <<23,17,11,18>>, 0>>,<<192,96,5, <<11,20,110,3>>, <<5,3,1,4>>, 0>>,
  <<192,116,4, <<11,22,108,3>>, <<9,5,3,8>>, 0>>,   <<192,140,3, <<11,24,106,3>>, <<15,9,5,10>>, 0>>,
  <<192,168,2, <<11,20,110,3>>, <<21,12,8,12>>, 8>>,<<192,208,1, <<11,21,109,3>>, <<23,19,12,23>>, 0>>,
  <<224,116,5, <<12,22,131,3>>, <<7,5,1,5>>, 4>>,   <<224,140,4, <<12,26,127,3>>, <<11,7,3,10>>, 0>>,
  <<224,168,3, <<11,20,134,3>>, <<15,9,6,8>>, 0>>,  <<224,208,2, <<11,22,132,3>>, <<23,15,9,14>>, 0>>,
  <<224,232,1, <<11,24,130,3>>, <<23,19,11,19>>, 4>>,<<256,128,5, <<11,24,154,3>>, <<5,4,1,4>>, 0>>,
  <<256,168,4, <<11,24,154,3>>, <<11,8,4,9>>, 4>>,  <<256,192,3, <<11,27,151,3>>, <<15,9,6,9>>, 0>>,
  <<256,232,2, <<11,22,156,3>>, <<23,13,9,12>>, 8>>,<<256,280,1, <<11,26,152,3>>, <<23,18,13,17>>, 4>>,
  <<320,160,5, <<11,26,200,3>>, <<7,4,1,5>>, 4>>,   <<320,208,4, <<11,25,201,3>>, <<12,8,4,9>>, 8>>,
  <<320,280,2, <<11,26,200,3>>, <<23,16,8,16>>, 0>>,<<384,192,5, <<11,27,247,3>>, <<7,5,1,6>>, 0>>,
  <<384,280,3, <<11,24,250,3>>, <<15,8,6,9>>, 4>>,  <<384,416,1, <<12,28,245,3>>, <<23,19,13,22>>, 8>>
>>
ueptable == [i \in 0 .. Len(UepRows) - 1 |->
    LET r == UepRows[i + 1]
    IN  [bitrate |-> r[1], subchsz |-> r[2], protlvl |-> r[3],
         l |-> r[4], pi |-> r[5], padbits |-> r[6]]]

\* A row of eeptable: the number of blocks is linear in the size of the subchannel.
EepRow(sizemul, ratemul, l, pi) ==
    [sizemul |-> sizemul, ratemul |-> ratemul, l |-> l, pi |-> pi]
Lin(mul, offset) == [mul |-> mul, offset |-> offset]
eeptable == <<
    EepRow(12, 8,  <<Lin(6, -3),  Lin(0, 3)>>, <<23, 22>>),
    EepRow(8,  8,  <<Lin(2, -3),  Lin(4, 3)>>, <<13, 12>>),
    EepRow(6,  8,  <<Lin(6, -3),  Lin(0, 3)>>, <<7, 6>>),
    EepRow(4,  8,  <<Lin(4, -3),  Lin(2, 3)>>, <<2, 1>>),
    EepRow(27, 32, <<Lin(24, -3), Lin(0, 3)>>, <<9, 8>>),
    EepRow(21, 32, <<Lin(24, -3), Lin(0, 3)>>, <<5, 4>>),
    EepRow(18, 32, <<Lin(24, -3), Lin(0, 3)>>, <<3, 2>>),
    EepRow(15, 32, <<Lin(24, -3), Lin(0, 3)>>, <<1, 0>>) >>
eep2a8kbps == EepRow(8, 8, <<Lin(0, 5), Lin(0, 1)>>, <<3, 12>>)

-----------------------------------------------------------------------------
\* A subchannel s: startaddr does not matter here, protlvl is the place in eeptable
\* and uep_indx the place in ueptable, whichever eepprot selects.

UepSubchannel(i) ==
    [eepprot |-> FALSE, uep_indx |-> i, protlvl |-> ueptable[i].protlvl,
     subchsz |-> ueptable[i].subchsz, bitrate |-> ueptable[i].bitrate]
EepSubchannel(level, n) ==
    [eepprot |-> TRUE, uep_indx |-> 0, protlvl |-> level,
     subchsz |-> n * eeptable[level + 1].sizemul,
     bitrate |-> n * eeptable[level + 1].ratemul]

IsEep2a8(s) == s.eepprot /\ s.bitrate = 8 /\ s.protlvl = 1

\* The parts of the codeword of s: <<blocks, vector>>.  A negative number of blocks
\* is none, as in the loop.
Blocks(n) == IF n < 0 THEN 0 ELSE n
UepParts(s) ==
    LET p == ueptable[s.uep_indx]
    IN  {<<i, p.l[i], p.pi[i]>> : i \in {j \in 1 .. 4 : p.l[j] > 0}}
EepParts(s) ==
    LET p == IF IsEep2a8(s) THEN eep2a8kbps ELSE eeptable[s.protlvl + 1]
        n == s.subchsz \div p.sizemul
    IN  {<<i, Blocks(p.l[i].mul * n + p.l[i].offset), p.pi[i]>> : i \in 1 .. 2}
Parts(s) == IF s.eepprot THEN EepParts(s) ELSE UepParts(s)
FicParts == {<<1, 21, 15>>, <<2, 3, 14>>}

\* Bits the depuncturing of such a codeword reads, and bits it gives the decoder.
Consumed(parts) == MapThenSumSet(LAMBDA p : Taken(p[3], BLKSIZE * p[2]), parts)
                   + Taken(TailVector, TailBits)
Produced(parts) == MapThenSumSet(LAMBDA p : BLKSIZE * p[2], parts) + TailBits

\* What the profile of s leaves unread at the end of the logical frame.
PadBits(s) == IF s.eepprot THEN 0 ELSE ueptable[s.uep_indx].padbits
LogicalFrameBits(s) == s.subchsz * BITSPERCU
\* A quarter of the codeword, less the six bits that flush the encoder.
DecodedBits(s) == Produced(Parts(s)) \div 4 - 6

=============================================================================
