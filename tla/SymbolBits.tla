------------------------------ MODULE SymbolBits ------------------------------
(***************************************************************************)
(* Which bit of a symbol's data, as the WaveFinder delivers it, each bit   *)
(* of the FIC comes from: byte_to_bit, bitswap16, the frequency            *)
(* deinterleaver and the QPSK demapper (wfic.c, interleaver.c; wfmsc.c     *)
(* runs the same steps on the symbols of the MSC), then the joining of     *)
(* three symbols and their division into four codewords (fic_decode).      *)
(* The functions move bits and never look at them, so each is the index    *)
(* it reads from.  The one action is the making of the next codeword.      *)
(***************************************************************************)
EXTENDS Integers, Sequences, FiniteSets

VARIABLES codewords,   \* codewords made of the frame so far
          used         \* the received bits they were made of

fvars == <<codewords, used>>

Carriers == 1536
SymbolBytes == 384
SymbolSize == 8 * SymbolBytes
CodewordSize == 2304

\* The frequency interleaver's generator x -> 13 x + 511 modulo 2048.  i steps of it
\* are x -> mul x + add, found by halving i; KI[i + 1] is the code's KI[i].
Steps[i \in 0 .. 2047] ==
    IF i = 0 THEN [mul |-> 1, add |-> 0]
    ELSE LET half  == Steps[i \div 2]
             twice == [mul |-> half.mul * half.mul, add |-> (half.mul + 1) * half.add]
             all   == IF i % 2 = 0 THEN twice
                      ELSE [mul |-> 13 * twice.mul, add |-> 13 * twice.add + 511]
         IN  [mul |-> all.mul % 2048, add |-> all.add % 2048]
KI == [i \in 1 .. 2048 |-> Steps[i - 1].add]
Used(k) == k >= 256 /\ k <= 1792 /\ k # 1024
table49 == SelectSeq(KI, Used)

\* mutant: the gap left by carrier 0 is not closed.
CarrierOpenGap(n) == LET k == table49[n + 1] - 1024
                     IN  IF k < 0 THEN Carriers \div 2 + k ELSE Carriers \div 2 + k

\* The place among the received carriers of the n-th one, which has no carrier 0.
Carrier(n) == LET k == table49[n + 1] - 1024
              IN  IF k < 0 THEN Carriers \div 2 + k ELSE Carriers \div 2 + k - 1

qpsk_symbol_demapper(p) == 2 * (p % Carriers) + p \div Carriers
frequency_deinterleaver(q) == 2 * Carrier(q \div 2) + (q % 2)
bitswap16(i) == 16 * (i \div 16) + 15 - (i % 16)
\* Bits of a byte are numbered from the least significant one.
byte_to_bit(i) == <<i \div 8, i % 8>>

SourceBit(p) == byte_to_bit(bitswap16(frequency_deinterleaver(qpsk_symbol_demapper(p))))

\* Bit i of codeword f, counted over symbols 2, 3 and 4 of the frame.
FicSource(f, i) == LET j == CodewordSize * f + i
                   IN  <<2 + j \div SymbolSize, SourceBit(j % SymbolSize)>>
FicSources == [f \in 0 .. 3 |-> {FicSource(f, i) : i \in 0 .. CodewordSize - 1}]

FInit == codewords = 0 /\ used = {}

fic_decode ==
    /\ codewords < 4
    /\ used' = used \cup FicSources[codewords]
    /\ codewords' = codewords + 1

-----------------------------------------------------------------------------
\* No codeword of a frame uses a bit that it or one before it has used, and together the
\* four use every bit of symbols 2, 3 and 4 (table 49 and the steps around it are a
\* permutation): a bit that is read twice, or one outside the symbol, would weaken the code
\* that fic_decode relies on and still decode on a good signal.
FicBitsUsedOnce ==
    /\ Cardinality(used) = CodewordSize * codewords
    /\ codewords = 4 => used = (2 .. 4) \X ((0 .. SymbolBytes - 1) \X (0 .. 7))

=============================================================================
