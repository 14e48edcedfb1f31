--------------------------- MODULE EnsembleProofs ---------------------------
(***************************************************************************)
(* Theorems about Ensemble, for any multiplex, any number of FIBs and any  *)
(* loss.                                                                   *)
(***************************************************************************)
EXTENDS Ensemble, SequenceTheorems, NumberFacts, TLAPS

\* What is assumed of the frame numbers: no loss is so long that they come round.
GapAssumption == MaxGap <= 3 * (FrameNumbers - 1)

-----------------------------------------------------------------------------
\* The types

Einf == [srv : Seq(Service), schan : Schan, num_srvs : Nat]

LEMMA AddSubchannelType ==
  ASSUME NEW e \in Einf, NEW c \in Subchids, NEW d \in BOOLEAN
  PROVE  add_subchannel(e, c, d) \in Einf
  BY DEF Einf, Schan, add_subchannel

\* A service that add_service is about is in the list it works on, in one place if it was in
\* one at most before.
Listed(e, s) ==
    IF find_service(e, s) # {} THEN e.srv
    ELSE Append(e.srv, [sid |-> s, label |-> FALSE, pa |-> NULL, sa |-> NULL])
Place(e, s) == CHOOSE i \in DOMAIN Listed(e, s) : Listed(e, s)[i].sid = s

LEMMA ListedType ==
  ASSUME NEW e \in Einf, NEW s \in Sids
  PROVE  /\ Listed(e, s) \in Seq(Service)
         /\ Place(e, s) \in DOMAIN Listed(e, s)
         /\ Listed(e, s)[Place(e, s)].sid = s
  <1> DEFINE new == [sid |-> s, label |-> FALSE, pa |-> NULL, sa |-> NULL]
  <1>1. new \in Service
    BY DEF Service
  <1>2. e.srv \in Seq(Service)
    BY DEF Einf
  <1>3. Listed(e, s) \in Seq(Service)
    BY <1>1, <1>2, AppendProperties DEF Listed
  <1>4. \E i \in DOMAIN Listed(e, s) : Listed(e, s)[i].sid = s
    <2>1. CASE find_service(e, s) # {}
      BY <2>1 DEF Listed, find_service
    <2>2. CASE find_service(e, s) = {}
      <3>1. Listed(e, s) = Append(e.srv, new)
        BY <2>2 DEF Listed
      <3>2. Len(e.srv) \in Nat /\ Len(Listed(e, s)) = Len(e.srv) + 1
            /\ Listed(e, s)[Len(e.srv) + 1] = new
        BY <1>1, <1>2, <3>1, AppendProperties, LenProperties
      <3>3. Len(e.srv) + 1 \in DOMAIN Listed(e, s)
        BY <1>3, <3>2, LenProperties
      <3>4. QED
        BY <3>2, <3>3
    <2>3. QED
      BY <2>1, <2>2
  <1>5. QED
    BY <1>3, <1>4 DEF Place

\* add_service in terms of the list with the service in it.
Added(e, l, k, c, primary) ==
    [srv      |-> IF primary /\ l[k].pa = NULL THEN [l EXCEPT ![k].pa = c]
                  ELSE IF ~primary /\ l[k].sa = NULL THEN [l EXCEPT ![k].sa = c]
                  ELSE l,
     schan    |-> [e.schan EXCEPT ![c].dabplus = (c \in DabPlus)],
     num_srvs |-> IF \/ primary /\ l[k].pa = NULL
                     \/ ~primary /\ l[k].sa = NULL
                  THEN e.num_srvs + 1 ELSE e.num_srvs]

LEMMA AddServiceIs ==
  ASSUME NEW e, NEW s, NEW c, NEW primary
  PROVE  add_service(e, s, c, primary) = Added(e, Listed(e, s), Place(e, s), c, primary)
  BY Zenon DEF add_service, Added, Listed, Place

LEMMA AddServiceType ==
  ASSUME NEW e \in Einf, NEW s \in Sids, NEW c \in Subchids, NEW primary \in BOOLEAN
  PROVE  add_service(e, s, c, primary) \in Einf
  <1>1. PICK l \in Seq(Service) :
           \E k \in DOMAIN l : add_service(e, s, c, primary) = Added(e, l, k, c, primary)
    BY ListedType, AddServiceIs
  <1> PICK k \in DOMAIN l : add_service(e, s, c, primary) = Added(e, l, k, c, primary)
    BY <1>1
  <1>2. l[k] \in Service /\ k \in 1 .. Len(l)
    BY ElementOfSeq, LenProperties
  <1>3. [l EXCEPT ![k].pa = c] \in Seq(Service)
    <2> DEFINE new == [l[k] EXCEPT !.pa = c]
    <2>1. new \in Service
      BY <1>2 DEF Service
    <2>2. [l EXCEPT ![k].pa = c] = [l EXCEPT ![k] = new]
      OBVIOUS
    <2> HIDE DEF new
    <2>3. [l EXCEPT ![k] = new] \in Seq(Service)
      BY <1>2, <2>1, ExceptSeq
    <2>4. QED
      BY <2>2, <2>3
  <1>4. [l EXCEPT ![k].sa = c] \in Seq(Service)
    <2> DEFINE new == [l[k] EXCEPT !.sa = c]
    <2>1. new \in Service
      BY <1>2 DEF Service
    <2>2. [l EXCEPT ![k].sa = c] = [l EXCEPT ![k] = new]
      OBVIOUS
    <2> HIDE DEF new
    <2>3. [l EXCEPT ![k] = new] \in Seq(Service)
      BY <1>2, <2>1, ExceptSeq
    <2>4. QED
      BY <2>2, <2>3
  <1>5. [e.schan EXCEPT ![c].dabplus = (c \in DabPlus)] \in Schan
    <2> DEFINE new == [e.schan[c] EXCEPT !.dabplus = (c \in DabPlus)]
    <2>1. e.schan \in Schan /\ (c \in DabPlus) \in BOOLEAN
      BY DEF Einf
    <2>2. new \in [known : BOOLEAN, dabplus : BOOLEAN]
      BY <2>1 DEF Schan
    <2>3. [e.schan EXCEPT ![c].dabplus = (c \in DabPlus)] = [e.schan EXCEPT ![c] = new]
      OBVIOUS
    <2> HIDE DEF new
    <2>4. [e.schan EXCEPT ![c] = new] \in Schan
      BY <2>1, <2>2 DEF Schan
    <2>5. QED
      BY <2>3, <2>4
  <1>6. Added(e, l, k, c, primary) \in Einf
    BY <1>3, <1>4, <1>5 DEF Added, Einf
  <1>7. QED
    BY <1>6

\* What Fig02 and Fig11 make of the ensemble
Composed(e, s) ==
    LET pa == Components[s].pa
        sa == Components[s].sa
        f  == IF pa = NULL THEN e ELSE add_service(e, s, pa, TRUE)
    IN  IF sa = NULL THEN f ELSE add_service(f, s, sa, FALSE)
Relabelled(e, s) ==
    [e EXCEPT !.srv = [k \in DOMAIN @ |-> IF k \in find_service(e, s)
                                            THEN [@[k] EXCEPT !.label = TRUE] ELSE @[k]]]

LEMMA EnsembleSteps ==
  ASSUME [Next]_vars
  PROVE  \/ \E c \in Subchids, d \in BOOLEAN : einf' = add_subchannel(einf, c, d)
         \/ \E s \in Sids : einf' = Composed(einf, s)
         \/ \E s \in Sids : einf' = Relabelled(einf, s)
         \/ UNCHANGED einf
  <1>1. CASE Fig01
    BY <1>1 DEF Fig01, Unpick
  <1>2. CASE Fig02
    BY <1>2, Zenon DEF Fig02, Unpick, Composed
  <1>3. CASE Fig11
    BY <1>3, Zenon DEF Fig11, Unpick, Relabelled
  <1>4. CASE FigIgnored \/ Lose \/ FicSymbol \/ OtherSymbol \/ UserSelect \/ Select
             \/ UNCHANGED vars
    BY <1>4 DEF FigIgnored, Unpick, Lose, FicSymbol, OtherSymbol, UserSelect, Select,
                vars, ensemble
  <1>5. QED
    BY <1>1, <1>2, <1>3, <1>4 DEF Next

LEMMA ComposedType ==
  ASSUME NEW e \in Einf, NEW s \in Sids
  PROVE  Composed(e, s) \in Einf
  <1> DEFINE pa == Components[s].pa
             sa == Components[s].sa
             f  == IF pa = NULL THEN e ELSE add_service(e, s, pa, TRUE)
  <1>1. pa \in Subchids \cup {NULL} /\ sa \in Subchids \cup {NULL}
    BY MultiplexAssumption
  <1>2. f \in Einf
    BY <1>1, AddServiceType
  <1>3. Composed(e, s) = IF sa = NULL THEN f ELSE add_service(f, s, sa, FALSE)
    BY Zenon DEF Composed
  <1> HIDE DEF f
  <1>4. QED
    BY <1>1, <1>2, <1>3, AddServiceType

LEMMA RelabelledIs ==
  ASSUME NEW e \in Einf, NEW s
  PROVE  /\ Relabelled(e, s) \in Einf
         /\ Len(Relabelled(e, s).srv) = Len(e.srv)
         /\ \A k \in 1 .. Len(e.srv) :
               LET p == Relabelled(e, s).srv[k]
               IN  p.sid = e.srv[k].sid /\ p.pa = e.srv[k].pa /\ p.sa = e.srv[k].sa
         /\ Relabelled(e, s).num_srvs = e.num_srvs
         /\ Relabelled(e, s).schan = e.schan
  <1> DEFINE new(k) == IF k \in find_service(e, s)
                         THEN [e.srv[k] EXCEPT !.label = TRUE] ELSE e.srv[k]
             l == [k \in 1 .. Len(e.srv) |-> new(k)]
  <1>1. e.srv \in Seq(Service) /\ Len(e.srv) \in Nat /\ DOMAIN e.srv = 1 .. Len(e.srv)
    BY LenProperties DEF Einf
  <1>2. ASSUME NEW k \in 1 .. Len(e.srv)
        PROVE  /\ new(k) \in Service
               /\ new(k).sid = e.srv[k].sid /\ new(k).pa = e.srv[k].pa /\ new(k).sa = e.srv[k].sa
    <2>1. e.srv[k] \in Service
      BY <1>1, ElementOfSeq
    <2>2. QED
      BY <2>1 DEF Service
  <1>3. Relabelled(e, s) = [e EXCEPT !.srv = l]
    BY <1>1 DEF Relabelled
  <1> HIDE DEF new
  <1>4. l \in [1 .. Len(e.srv) -> Service]
    BY <1>2
  <1>5. l \in Seq(Service) /\ Len(l) = Len(e.srv)
    BY <1>1, <1>4, SeqDef, LenProperties
  <1>6. \A k \in 1 .. Len(e.srv) : l[k] = new(k)
    OBVIOUS
  <1> HIDE DEF l
  <1>7. QED
    BY <1>2, <1>3, <1>5, <1>6 DEF Einf

LEMMA EnsembleType ==
  ASSUME einf \in Einf, [Next]_vars
  PROVE  einf' \in Einf
  BY EnsembleSteps, AddSubchannelType, ComposedType, RelabelledIs

-----------------------------------------------------------------------------
\* What a number selects

LEMMA ChoiceIs ==
  ASSUME NEW e \in Einf, NEW i
  PROVE  \/ Choice(e, i) = selSrv
         \/ \E k \in 1 .. Len(e.srv) :
               /\ Choice(e, i).sid = e.srv[k].sid
               /\ Choice(e, i).sch \in {e.srv[k].pa, e.srv[k].sa}
               /\ Choice(e, i) = [sid |-> Choice(e, i).sid, sch |-> Choice(e, i).sch]
  <1> DEFINE at == Numbers([k \in DOMAIN e.srv |-> SelHeight(e.srv[k])])
             secondary(k) == at[k] = i - 1 /\ e.srv[k].sa # NULL
             hits == {k \in DOMAIN e.srv : at[k] = i \/ secondary(k)}
             K == CHOOSE m \in hits : \A n \in hits : n <= m
  <1>1. Choice(e, i) =
           IF hits = {} THEN selSrv
           ELSE [sid |-> e.srv[K].sid,
                 sch |-> IF secondary(K) THEN e.srv[K].sa ELSE e.srv[K].pa]
    BY Zenon DEF Choice
  <1>2. hits # {} => K \in hits
    <2>1. DOMAIN e.srv = 1 .. Len(e.srv) /\ Len(e.srv) \in Nat
      BY LenProperties DEF Einf
    <2>2. hits \subseteq Nat /\ \A x \in hits : x <= Len(e.srv)
      BY <2>1
    <2> HIDE DEF hits
    <2>3. QED
      BY <2>1, <2>2, NatMax
  <1>3. hits \subseteq 1 .. Len(e.srv)
    BY LenProperties DEF Einf
  <1> HIDE DEF secondary, hits, K
  <1>4. QED
    BY <1>1, <1>2, <1>3

LEMMA ChoiceType ==
  ASSUME NEW e \in Einf, NEW i,
         selSrv \in [sid : Sids \cup {NULL}, sch : Subchids \cup {NULL}]
  PROVE  Choice(e, i) \in [sid : Sids \cup {NULL}, sch : Subchids \cup {NULL}]
  <1>1. \A k \in 1 .. Len(e.srv) :
           /\ e.srv[k].sid \in Sids
           /\ e.srv[k].pa \in Subchids \cup {NULL} /\ e.srv[k].sa \in Subchids \cup {NULL}
    <2> SUFFICES ASSUME NEW k \in 1 .. Len(e.srv) PROVE e.srv[k] \in Service
      BY DEF Service
    <2>1. e.srv \in Seq(Service)
      BY DEF Einf
    <2>2. QED
      BY <2>1, ElementOfSeq
  <1>2. QED
    BY <1>1, ChoiceIs

LEMMA NextSymbolType ==
  ASSUME sym \in 2 .. 5, airFrame \in 0 .. FrameNumbers - 1, NextSymbol
  PROVE  sym' \in 2 .. 5 /\ airFrame' \in 0 .. FrameNumbers - 1
  <1>1. FrameNumbers \in Nat \ {0} /\ airFrame + 1 \in Int
    BY CountAssumption
  <1>2. (airFrame + 1) % FrameNumbers \in 0 .. FrameNumbers - 1
    BY <1>1, ModDiv
  <1>3. QED
    BY <1>2 DEF NextSymbol

\* The variables keep their types.
THEOREM EnsembleTyped == Spec => []TypeOK
  <1>1. Init => TypeOK
    <2> SUFFICES ASSUME Init PROVE TypeOK
      OBVIOUS
    <2>1. einf \in Einf
      BY EmptySeq DEF Init, Einf, Schan
    <2>2. /\ selSrv \in [sid : Sids \cup {NULL}, sch : Subchids \cup {NULL}]
          /\ curFrame \in 0 .. FrameNumbers - 1 /\ airFrame \in 0 .. FrameNumbers - 1
          /\ gap \in 0 .. MaxGap /\ todo \in 0 .. FrameFibs
      BY CountAssumption DEF Init
    <2>3. {enslistvisible, selected, torn} \subseteq BOOLEAN
      BY DEF Init
    <2>4. symFlags \subseteq FicSyms /\ own \subseteq FicSyms /\ fibcnt \in Nat /\ sym \in 2 .. 5
      BY DEF Init
    <2>5. QED
      BY <2>1, <2>2, <2>3, <2>4 DEF TypeOK, Einf
  <1>2. TypeOK /\ [Next]_vars => TypeOK'
    <2> SUFFICES ASSUME TypeOK, [Next]_vars PROVE TypeOK'
      OBVIOUS
    <2> USE CountAssumption DEF TypeOK, Einf
    <2>1. einf' \in Einf
      BY EnsembleType
    <2>2. CASE Fig01 \/ Fig02 \/ Fig11 \/ FigIgnored
      <3>1. \E e : Unpick(e)
        BY <2>2, Zenon DEF Fig01, Fig02, Fig11, FigIgnored
      <3>2. /\ todo' \in 0 .. FrameFibs
            /\ UNCHANGED <<assembler, fibcnt, user, air, own, torn>>
        BY <3>1 DEF Unpick
      <3>3. QED
        BY <2>1, <3>2 DEF assembler, user, air
    <2>3. CASE Lose
      <3>1. sym' \in 2 .. 5 /\ airFrame' \in 0 .. FrameNumbers - 1
        BY <2>3, NextSymbolType DEF Lose
      <3>2. gap' \in 0 .. MaxGap
        BY <2>3 DEF Lose
      <3>3. QED
        BY <2>1, <2>3, <3>1, <3>2 DEF Lose, assembler, ensemble, user
    <2>4. CASE FicSymbol
      <3>1. sym \in FicSyms /\ Flags \subseteq FicSyms
        BY <2>4 DEF FicSymbol, Flags, FicSyms
      <3>2. symFlags' \subseteq FicSyms /\ torn' \in BOOLEAN
        BY <2>4, <3>1 DEF FicSymbol
      <3> todo' \in 0 .. FrameFibs /\ fibcnt' \in Nat
        BY <2>4, SMTT(30) DEF FicSymbol, process_fic
      <3>3. /\ own' \subseteq FicSyms /\ curFrame' \in 0 .. FrameNumbers - 1
            /\ gap' = 0 /\ UNCHANGED user
        BY <2>4, <3>1 DEF FicSymbol
      <3>4. sym' \in 2 .. 5 /\ airFrame' \in 0 .. FrameNumbers - 1
        BY <2>4, NextSymbolType DEF FicSymbol
      <3>5. QED
        BY <2>1, <3>2, <3>3, <3>4, SMTT(30) DEF user
    <2>5. CASE OtherSymbol
      <3>1. sym' \in 2 .. 5 /\ airFrame' \in 0 .. FrameNumbers - 1
        BY <2>5, NextSymbolType DEF OtherSymbol
      <3>2. QED
        BY <2>1, <2>5, <3>1 DEF OtherSymbol, assembler, ensemble, user
    <2>6. CASE UserSelect
      <3>1. selSrv' \in [sid : Sids \cup {NULL}, sch : Subchids \cup {NULL}]
        BY <2>6, ChoiceType DEF UserSelect
      <3>2. QED
        BY <2>1, <2>6, <3>1 DEF UserSelect, assembler, ensemble, air
    <2>7. CASE Select
      BY <2>1, <2>7 DEF Select, assembler, ensemble, air, Schan
    <2>8. CASE UNCHANGED vars
      BY <2>8 DEF vars, assembler, ensemble, user, air
    <2>9. QED
      BY <2>2, <2>3, <2>4, <2>5, <2>6, <2>7, <2>8 DEF Next
  <1>3. QED
    BY <1>1, <1>2, PTL DEF Spec

-----------------------------------------------------------------------------
\* The assembler

\* Either what has been assembled is of the frame on the air, or that frame is the d-th
\* since, and all the symbols in between that could have told have been lost.
SameFrame == symFlags \subseteq own /\ (symFlags # {} => curFrame = airFrame)
LaterFrame ==
    \E d \in Nat \ {0} :
        /\ airFrame = (curFrame + d) % FrameNumbers
        /\ gap >= 3 * (d - 1) + (sym - 2)
AssemblerInv == ~torn /\ (SameFrame \/ LaterFrame)

\* A frame that seems to be the one being assembled is that frame.
LEMMA NotTheSameNumber ==
  ASSUME GapAssumption, TypeOK, LaterFrame, sym \in {3, 4}
  PROVE  airFrame # curFrame
  <1>1. PICK d \in Nat \ {0} : /\ airFrame = (curFrame + d) % FrameNumbers
                               /\ gap >= 3 * (d - 1) + (sym - 2)
    BY DEF LaterFrame
  <1>2. /\ FrameNumbers \in Nat \ {0} /\ MaxGap \in Nat /\ gap \in 0 .. MaxGap
        /\ curFrame \in 0 .. FrameNumbers - 1
    BY CountAssumption DEF TypeOK
  <1>3. d \in 1 .. FrameNumbers - 1 /\ curFrame \in Int
    BY <1>1, <1>2 DEF GapAssumption
  <1>4. (curFrame + d) % FrameNumbers # curFrame % FrameNumbers
    BY <1>2, <1>3, ModApart
  <1>5. curFrame % FrameNumbers = curFrame
    BY <1>2
  <1>6. QED
    BY <1>1, <1>4, <1>5

\* As the device goes on without the assembler being told, the frame gets older.
LEMMA FrameAges ==
  ASSUME TypeOK, AssemblerInv, NextSymbol, UNCHANGED <<symFlags, curFrame, torn>>,
         gap' = IF sym = 5 THEN gap ELSE gap + 1,
         own' = IF sym = 5 THEN {} ELSE own
  PROVE  AssemblerInv'
  <1>1. /\ FrameNumbers \in Nat \ {0} /\ gap \in Nat /\ sym \in 2 .. 5
        /\ curFrame \in 0 .. FrameNumbers - 1 /\ airFrame \in 0 .. FrameNumbers - 1
    BY CountAssumption DEF TypeOK
  <1>2. CASE sym # 5 /\ SameFrame
    BY <1>1, <1>2 DEF AssemblerInv, SameFrame, NextSymbol
  <1>3. CASE sym # 5 /\ LaterFrame
    <2>1. PICK d \in Nat \ {0} : /\ airFrame = (curFrame + d) % FrameNumbers
                                 /\ gap >= 3 * (d - 1) + (sym - 2)
      BY <1>3 DEF LaterFrame
    <2>2. /\ airFrame' = (curFrame' + d) % FrameNumbers
          /\ gap' >= 3 * (d - 1) + (sym' - 2)
      BY <1>1, <1>3, <2>1 DEF NextSymbol
    <2>3. QED
      BY <2>2 DEF AssemblerInv, LaterFrame
  <1>4. CASE sym = 5
    <2>1. sym' = 2 /\ airFrame' = (airFrame + 1) % FrameNumbers /\ gap' = gap /\ curFrame' = curFrame
      BY <1>4 DEF NextSymbol
    <2>2. CASE symFlags = {}
      BY <1>4, <2>2 DEF AssemblerInv, SameFrame
    <2>3. CASE symFlags # {} /\ SameFrame
      <3>1. /\ airFrame' = (curFrame' + 1) % FrameNumbers
            /\ gap' >= 3 * (1 - 1) + (sym' - 2)
        BY <1>1, <2>1, <2>3 DEF SameFrame
      <3>2. QED
        BY <3>1 DEF AssemblerInv, LaterFrame
    <2>4. CASE LaterFrame
      <3>1. PICK d \in Nat \ {0} : /\ airFrame = (curFrame + d) % FrameNumbers
                                   /\ gap >= 3 * (d - 1) + (sym - 2)
        BY <2>4 DEF LaterFrame
      <3>2. (((curFrame + d) % FrameNumbers) + 1) % FrameNumbers
              = ((curFrame + d) + 1) % FrameNumbers
        <4>1. curFrame + d \in Int /\ 1 \in Int
          BY <1>1
        <4>2. QED
          BY <1>1, <4>1, ModSum
      <3>3. /\ airFrame' = (curFrame' + (d + 1)) % FrameNumbers
            /\ gap' >= 3 * ((d + 1) - 1) + (sym' - 2)
        BY <1>1, <1>4, <2>1, <3>1, <3>2
      <3>4. QED
        BY <3>3 DEF AssemblerInv, LaterFrame
    <2>5. QED
      BY <2>2, <2>3, <2>4 DEF AssemblerInv
  <1>5. QED
    BY <1>2, <1>3, <1>4 DEF AssemblerInv

\* A symbol of the frame that is on the air is added to symbols of that frame only.
LEMMA FicSymbolAssembles ==
  ASSUME GapAssumption, TypeOK, AssemblerInv, FicSymbol
  PROVE  AssemblerInv'
  <1>1. sym \in {2, 3, 4} /\ own \subseteq FicSyms /\ airFrame' = airFrame
    BY DEF FicSymbol, FicSyms, NextSymbol, TypeOK
  <1>2. sym # 2 /\ airFrame = curFrame => SameFrame
    BY <1>1, NotTheSameNumber DEF AssemblerInv
  <1>3. Flags \subseteq own' /\ own' \subseteq FicSyms
    BY <1>1, <1>2 DEF FicSymbol, Flags, SameFrame, FicSyms
  <1>4. Flags # {} => curFrame' = airFrame'
    BY <1>1 DEF FicSymbol, Flags
  <1>5. CASE Flags = FicSyms
    BY <1>3, <1>5 DEF FicSymbol, AssemblerInv, SameFrame
  <1>6. CASE Flags # FicSyms
    BY <1>3, <1>4, <1>6 DEF FicSymbol, AssemblerInv, SameFrame
  <1>7. QED
    BY <1>5, <1>6

\* As long as no loss is so long that the frame numbers come round, the symbols that are
\* decoded together are those of one transmission frame (fic_assemble's cur_frame and
\* sym_flags).
THEOREM OneFrameDecoded == GapAssumption /\ Spec => []FicFromOneFrame
  <1> SUFFICES ASSUME GapAssumption PROVE Spec => []FicFromOneFrame
    OBVIOUS
  <1>1. Init => AssemblerInv
    BY DEF Init, AssemblerInv, SameFrame
  <1>2. TypeOK /\ AssemblerInv /\ [Next]_vars => AssemblerInv'
    <2> SUFFICES ASSUME TypeOK, AssemblerInv, [Next]_vars PROVE AssemblerInv'
      OBVIOUS
    <2>1. CASE Fig01 \/ Fig02 \/ Fig11 \/ FigIgnored
      <3>1. \E e : Unpick(e)
        BY <2>1, Zenon DEF Fig01, Fig02, Fig11, FigIgnored
      <3>2. QED
        BY <3>1 DEF Unpick, assembler, air, AssemblerInv, SameFrame, LaterFrame
    <2>2. CASE Lose
      <3>1. sym # 5 /\ UNCHANGED <<symFlags, curFrame, torn, own>> /\ gap' = gap + 1
        BY <2>2 DEF Lose, FicSyms, assembler
      <3>2. QED
        BY <2>2, <3>1, FrameAges DEF Lose
    <2>3. CASE FicSymbol
      BY <2>3, FicSymbolAssembles
    <2>4. CASE OtherSymbol
      <3>1. sym = 5 /\ UNCHANGED <<symFlags, curFrame, torn, gap>> /\ own' = {}
        BY <2>4 DEF OtherSymbol, assembler
      <3>2. QED
        BY <2>4, <3>1, FrameAges DEF OtherSymbol
    <2>5. CASE UserSelect \/ Select \/ UNCHANGED vars
      BY <2>5 DEF UserSelect, Select, vars, assembler, air, AssemblerInv, SameFrame, LaterFrame
    <2>6. QED
      BY <2>1, <2>2, <2>3, <2>4, <2>5 DEF Next
  <1>3. AssemblerInv => FicFromOneFrame
    BY DEF AssemblerInv, FicFromOneFrame
  <1>4. QED
    BY <1>1, <1>2, <1>3, EnsembleTyped, PTL DEF Spec

-----------------------------------------------------------------------------
\* The list of services

\* A list in which no service is twice, of services that have the components they should
Once(l) == \A i, j \in 1 .. Len(l) : l[i].sid = l[j].sid => i = j
Matches(p) == p.pa = Components[p.sid].pa /\ p.sa = Components[p.sid].sa
TrueList(l) == Once(l) /\ \A k \in 1 .. Len(l) : Matches(l[k])

\* The list add_service works on: the one there is, or one service longer.
LEMMA ListedIs ==
  ASSUME NEW e \in Einf, NEW s \in Sids
  PROVE  \/ Listed(e, s) = e.srv
         \/ LET l == Listed(e, s)
                n == Len(e.srv)
            IN  /\ Len(l) = n + 1
                /\ \A i \in 1 .. n : l[i] = e.srv[i] /\ l[i].sid # s
                /\ l[n + 1].sid = s /\ l[n + 1].pa = NULL /\ l[n + 1].sa = NULL
  <1> DEFINE new == [sid |-> s, label |-> FALSE, pa |-> NULL, sa |-> NULL]
  <1>1. CASE find_service(e, s) # {}
    BY <1>1 DEF Listed
  <1>2. CASE find_service(e, s) = {}
    <2>1. Listed(e, s) = Append(e.srv, new)
      BY <1>2 DEF Listed
    <2>2. e.srv \in Seq(Service) /\ new \in Service
      BY DEF Einf, Service
    <2>3. \A i \in 1 .. Len(e.srv) : e.srv[i].sid # s
      BY <1>2, <2>2, LenProperties DEF find_service
    <2>4. QED
      BY <2>1, <2>2, <2>3, AppendProperties
  <1>3. QED
    BY <1>1, <1>2

\* What add_service does to the k-th service, and to the others
LEMMA AddedIs ==
  ASSUME NEW e \in Einf, NEW l \in Seq(Service), NEW k \in 1 .. Len(l),
         NEW c \in Subchids, NEW primary \in BOOLEAN,
         NEW a, a = Added(e, l, k, c, primary).srv
  PROVE  /\ Len(a) = Len(l)
         /\ \A i \in 1 .. Len(l) : i # k => a[i] = l[i]
         /\ a[k].sid = l[k].sid
         /\ a[k].pa = IF primary /\ l[k].pa = NULL THEN c ELSE l[k].pa
         /\ a[k].sa = IF ~primary /\ l[k].sa = NULL THEN c ELSE l[k].sa
  <1> DEFINE p == [l[k] EXCEPT !.pa = c]
             q == [l[k] EXCEPT !.sa = c]
  <1>1. l[k] \in Service
    BY ElementOfSeq
  <1>2. /\ p \in Service /\ p.sid = l[k].sid /\ p.pa = c /\ p.sa = l[k].sa
        /\ q \in Service /\ q.sid = l[k].sid /\ q.sa = c /\ q.pa = l[k].pa
    BY <1>1 DEF Service
  <1>3. Added(e, l, k, c, primary).srv =
          IF primary /\ l[k].pa = NULL THEN [l EXCEPT ![k] = p]
          ELSE IF ~primary /\ l[k].sa = NULL THEN [l EXCEPT ![k] = q]
          ELSE l
    BY DEF Added
  <1> HIDE DEF p, q
  <1>4. /\ Len([l EXCEPT ![k] = p]) = Len(l)
        /\ \A j \in 1 .. Len(l) : [l EXCEPT ![k] = p][j] = IF j = k THEN p ELSE l[j]
    BY <1>2, ExceptSeq
  <1>5. /\ Len([l EXCEPT ![k] = q]) = Len(l)
        /\ \A j \in 1 .. Len(l) : [l EXCEPT ![k] = q][j] = IF j = k THEN q ELSE l[j]
    BY <1>2, ExceptSeq
  <1>6. QED
    BY <1>2, <1>3, <1>4, <1>5

\* A list in which s may lack its components, or have some of them
PartOf(l, s) ==
    /\ Once(l)
    /\ \A k \in 1 .. Len(l) :
          IF l[k].sid = s THEN /\ l[k].pa \in {NULL, Components[s].pa}
                               /\ l[k].sa \in {NULL, Components[s].sa}
          ELSE Matches(l[k])

Has(l, s) == \E k \in 1 .. Len(l) : l[k].sid = s
HasPrimary(l, s)   == \A k \in 1 .. Len(l) : l[k].sid = s => l[k].pa = Components[s].pa
HasSecondary(l, s) == \A k \in 1 .. Len(l) : l[k].sid = s => l[k].sa = Components[s].sa

LEMMA AddServiceList ==
  ASSUME NEW e \in Einf, NEW s \in Sids, NEW c \in Subchids, NEW primary \in BOOLEAN,
         PartOf(e.srv, s),
         c = IF primary THEN Components[s].pa ELSE Components[s].sa
  PROVE  LET a == add_service(e, s, c, primary).srv
         IN  /\ PartOf(a, s) /\ Has(a, s)
             /\ primary => HasPrimary(a, s)
             /\ ~primary => HasSecondary(a, s)
             /\ /\ ~primary /\ HasPrimary(e.srv, s)
                /\ Components[s].pa = NULL \/ Has(e.srv, s)
                => HasPrimary(a, s)
  <1> DEFINE l == Listed(e, s)
             k == Place(e, s)
             a == add_service(e, s, c, primary).srv
  <1>1. /\ l \in Seq(Service) /\ k \in 1 .. Len(l) /\ l[k].sid = s
        /\ e.srv \in Seq(Service) /\ Len(e.srv) \in Nat /\ Len(l) \in Nat
        /\ NULL # c
    BY ListedType, LenProperties, MultiplexAssumption DEF Einf
  <1>2. l # e.srv => /\ ~Has(e.srv, s)
                     /\ Len(l) = Len(e.srv) + 1
                     /\ \A i \in 1 .. Len(e.srv) : l[i] = e.srv[i] /\ l[i].sid # s
                     /\ l[Len(l)].sid = s /\ l[Len(l)].pa = NULL /\ l[Len(l)].sa = NULL
    <2>1. CASE l = e.srv
      BY <2>1
    <2>2. CASE l # e.srv
      <3>1. /\ Len(l) = Len(e.srv) + 1
            /\ \A i \in 1 .. Len(e.srv) : l[i] = e.srv[i] /\ l[i].sid # s
            /\ l[Len(e.srv) + 1].sid = s
            /\ l[Len(e.srv) + 1].pa = NULL /\ l[Len(e.srv) + 1].sa = NULL
        BY <2>2, ListedIs, ZenonT(60)
      <3> HIDE DEF l
      <3>2. QED
        BY <3>1 DEF Has
    <2>3. QED
      BY <2>1, <2>2
  <1>3. /\ Len(a) = Len(l)
        /\ \A i \in 1 .. Len(l) : i # k => a[i] = l[i]
        /\ a[k].sid = l[k].sid
        /\ a[k].pa = IF primary /\ l[k].pa = NULL THEN c ELSE l[k].pa
        /\ a[k].sa = IF ~primary /\ l[k].sa = NULL THEN c ELSE l[k].sa
    <2>1. a = Added(e, l, k, c, primary).srv
      BY AddServiceIs
    <2> HIDE DEF l, k, a
    <2>2. QED
      BY <1>1, <2>1, AddedIs
  <1> HIDE DEF l, k, a
  <1>4. PartOf(l, s) /\ (~Has(e.srv, s) => l[k].pa = NULL)
    <2>1. CASE l = e.srv
      BY <1>1, <2>1 DEF Has
    <2>2. CASE l # e.srv
      <3>1. \A i \in 1 .. Len(l) : i = Len(l) \/ i \in 1 .. Len(e.srv)
        BY <1>1, <1>2, <2>2
      <3>2. Once(l)
        BY <1>1, <1>2, <2>2, <3>1, SMTT(30) DEF Once, PartOf
      <3>3. \A i \in 1 .. Len(l) : l[i].sid = s => i = Len(l)
        BY <1>2, <2>2, <3>1
      <3>4. QED
        BY <1>1, <1>2, <2>2, <3>1, <3>2, <3>3 DEF PartOf
    <2>3. QED
      BY <2>1, <2>2
  <1>5. \A i \in 1 .. Len(l) : (i # k => l[i].sid # s) /\ a[i].sid = l[i].sid
    BY <1>1, <1>3, <1>4 DEF PartOf, Once
  <1>6. PartOf(a, s) /\ Has(a, s)
    <2>1. Once(a)
      BY <1>3, <1>4, <1>5 DEF Once, PartOf
    <2>2. ASSUME NEW i \in 1 .. Len(a)
          PROVE  IF a[i].sid = s THEN /\ a[i].pa \in {NULL, Components[s].pa}
                                      /\ a[i].sa \in {NULL, Components[s].sa}
                 ELSE Matches(a[i])
      <3>1. CASE i = k
        BY <1>1, <1>3, <1>4, <3>1 DEF PartOf
      <3>2. CASE i # k
        BY <1>3, <1>4, <1>5, <3>2 DEF PartOf
      <3>3. QED
        BY <3>1, <3>2
    <2>3. QED
      BY <1>1, <1>3, <2>1, <2>2 DEF PartOf, Has
  <1>7. primary => HasPrimary(a, s)
    BY <1>1, <1>3, <1>4, <1>5 DEF PartOf, HasPrimary
  <1>8. ~primary => HasSecondary(a, s)
    BY <1>1, <1>3, <1>4, <1>5 DEF PartOf, HasSecondary
  <1>9. ASSUME ~primary, HasPrimary(e.srv, s), Components[s].pa = NULL \/ Has(e.srv, s)
        PROVE  HasPrimary(a, s)
    <2>1. l[k].pa = Components[s].pa
      BY <1>1, <1>2, <1>4, <1>9 DEF HasPrimary
    <2>2. QED
      BY <1>1, <1>3, <1>5, <1>9, <2>1 DEF HasPrimary
  <1>10. QED
    BY <1>6, <1>7, <1>8, <1>9 DEF a

\* A FIG 0/2 leaves the service with all its components.
LEMMA ComposedList ==
  ASSUME NEW e \in Einf, NEW s \in Sids, TrueList(e.srv)
  PROVE  TrueList(Composed(e, s).srv)
  <1> DEFINE pa == Components[s].pa
             sa == Components[s].sa
             f  == IF pa = NULL THEN e ELSE add_service(e, s, pa, TRUE)
             g  == IF sa = NULL THEN f ELSE add_service(f, s, sa, FALSE)
  <1>1. pa \in Subchids \cup {NULL} /\ sa \in Subchids \cup {NULL}
    BY MultiplexAssumption
  <1>2. f \in Einf
    BY <1>1, AddServiceType
  <1>3. Composed(e, s) = g
    BY Zenon DEF Composed
  <1>4. PartOf(e.srv, s) /\ HasPrimary(e.srv, s) /\ HasSecondary(e.srv, s)
    BY DEF TrueList, PartOf, Matches, HasPrimary, HasSecondary
  <1>5. PartOf(f.srv, s) /\ HasPrimary(f.srv, s) /\ (pa = NULL \/ Has(f.srv, s))
    <2>1. CASE pa = NULL
      BY <1>4, <2>1
    <2>2. CASE pa # NULL
      <3>1. f = add_service(e, s, pa, TRUE) /\ pa \in Subchids
        BY <1>1, <2>2
      <3>2. QED
        BY <1>4, <3>1, AddServiceList, Zenon
    <2>3. QED
      BY <2>1, <2>2
  <1>6. PartOf(g.srv, s) /\ HasPrimary(g.srv, s) /\ HasSecondary(g.srv, s)
    <2>1. CASE sa = NULL
      BY <1>5, <2>1 DEF PartOf, HasSecondary
    <2>2. CASE sa # NULL
      <3>1. g = add_service(f, s, sa, FALSE) /\ sa \in Subchids
        BY <1>1, <2>2
      <3> HIDE DEF f, g
      <3>2. QED
        BY <1>2, <1>5, <3>1, AddServiceList, Zenon
    <2>3. QED
      BY <2>1, <2>2
  <1> HIDE DEF f, g
  <1>7. QED
    BY <1>3, <1>6 DEF TrueList, PartOf, Matches, HasPrimary, HasSecondary

LEMMA RelabelledList ==
  ASSUME NEW e \in Einf, NEW s \in Sids, TrueList(e.srv)
  PROVE  TrueList(Relabelled(e, s).srv)
  <1>1. /\ Len(Relabelled(e, s).srv) = Len(e.srv)
        /\ \A k \in 1 .. Len(e.srv) : /\ Relabelled(e, s).srv[k].sid = e.srv[k].sid
                                      /\ Relabelled(e, s).srv[k].pa = e.srv[k].pa
                                      /\ Relabelled(e, s).srv[k].sa = e.srv[k].sa
    BY RelabelledIs, Zenon
  <1>2. QED
    BY <1>1 DEF TrueList, Once, Matches

LEMMA TrueListNext ==
  ASSUME einf \in Einf, TrueList(einf.srv), [Next]_vars
  PROVE  TrueList(einf.srv)'
  <1>1. CASE \E c \in Subchids, d \in BOOLEAN : einf' = add_subchannel(einf, c, d)
    <2>1. einf'.srv = einf.srv
      BY <1>1 DEF add_subchannel, Einf
    <2>2. QED
      BY <2>1 DEF TrueList, Once
  <1>2. CASE \E s \in Sids : einf' = Composed(einf, s)
    BY <1>2, ComposedList
  <1>3. CASE \E s \in Sids : einf' = Relabelled(einf, s)
    BY <1>3, RelabelledList
  <1>4. QED
    BY <1>1, <1>2, <1>3, EnsembleSteps

LEMMA TrueListInit ==
  ASSUME Init
  PROVE  TrueList(einf.srv)
  BY EmptySeq DEF Init, TrueList, Once

\* Whatever the order of the FIGs, a service is listed once, with its own components
\* (find_service and add_service).
THEOREM ListedTruly == Spec => []EnsembleTrue
  <1> DEFINE Inv == TypeOK /\ TrueList(einf.srv)
  <1>1. Spec => []Inv
    <2>1. Inv /\ [Next]_vars => (TrueList(einf.srv))'
      BY TrueListNext DEF TypeOK, Einf
    <2>2. QED
      BY <2>1, TrueListInit, EnsembleTyped, PTL DEF Spec
  <1>2. Inv => EnsembleTrue
    <2> SUFFICES ASSUME Inv, NEW k \in DOMAIN einf.srv
                 PROVE  /\ find_service(einf, einf.srv[k].sid) = {k}
                        /\ [pa |-> einf.srv[k].pa, sa |-> einf.srv[k].sa]
                             = Components[einf.srv[k].sid]
      BY DEF EnsembleTrue
    <2>1. einf.srv \in Seq(Service) /\ DOMAIN einf.srv = 1 .. Len(einf.srv)
      BY LenProperties DEF TypeOK
    <2>2. find_service(einf, einf.srv[k].sid) = {k}
      BY <2>1 DEF find_service, TrueList, Once
    <2>3. einf.srv[k] \in Service
      BY <2>1, ElementOfSeq
    <2>4. Components[einf.srv[k].sid]
            = [pa |-> Components[einf.srv[k].sid].pa, sa |-> Components[einf.srv[k].sid].sa]
      BY <2>3, MultiplexAssumption DEF Service
    <2>5. QED
      BY <2>1, <2>2, <2>4 DEF TrueList, Matches
  <1>3. QED
    BY <1>1, <1>2, PTL

-----------------------------------------------------------------------------
\* The subchannels

LEMMA AddServiceSchan ==
  ASSUME NEW e \in Einf, NEW s \in Sids, NEW b \in Subchids, NEW primary \in BOOLEAN,
         NEW c \in Subchids
  PROVE  /\ add_service(e, s, b, primary).schan[c].known = e.schan[c].known
         /\ Right(e, c) => Right(add_service(e, s, b, primary), c)
  <1>1. add_service(e, s, b, primary).schan = [e.schan EXCEPT ![b].dabplus = (b \in DabPlus)]
    BY AddServiceIs, Zenon DEF Added
  <1>2. e.schan \in Schan
    BY DEF Einf
  <1>3. QED
    BY <1>1, <1>2 DEF Right, Schan

LEMMA SchanNext ==
  ASSUME einf \in Einf, [Next]_vars, NEW c \in Subchids
  PROVE  /\ einf.schan[c].known => einf'.schan[c].known
         /\ Right(einf, c) => Right(einf', c)
  <1>1. CASE \E b \in Subchids, d \in BOOLEAN : einf' = add_subchannel(einf, b, d)
    BY <1>1 DEF add_subchannel, Right, Einf, Schan
  <1>2. ASSUME NEW s \in Sids, einf' = Composed(einf, s)
        PROVE  /\ einf.schan[c].known => einf'.schan[c].known
               /\ Right(einf, c) => Right(einf', c)
    <2> DEFINE pa == Components[s].pa
               sa == Components[s].sa
               f  == IF pa = NULL THEN einf ELSE add_service(einf, s, pa, TRUE)
    <2>1. pa \in Subchids \cup {NULL} /\ sa \in Subchids \cup {NULL}
      BY MultiplexAssumption
    <2>2. f \in Einf
      BY <2>1, AddServiceType
    <2>3. f.schan[c].known = einf.schan[c].known /\ (Right(einf, c) => Right(f, c))
      <3>1. CASE pa = NULL
        BY <3>1
      <3>2. CASE pa # NULL
        <4>1. f = add_service(einf, s, pa, TRUE) /\ pa \in Subchids
          BY <2>1, <3>2
        <4> HIDE DEF f, pa
        <4>2. QED
          BY <4>1, AddServiceSchan, ZenonT(30)
      <3>3. QED
        BY <3>1, <3>2
    <2>4. einf' = IF sa = NULL THEN f ELSE add_service(f, s, sa, FALSE)
      BY <1>2, Zenon DEF Composed
    <2> HIDE DEF f
    <2>5. QED
      BY <2>1, <2>2, <2>3, <2>4, AddServiceSchan
  <1>3. CASE \E s \in Sids : einf' = Relabelled(einf, s)
    BY <1>3, RelabelledIs DEF Right
  <1>4. QED
    BY <1>1, <1>2, <1>3, EnsembleSteps

\* What is known of a subchannel, and right, stays so whatever is repeated
\* (add_subchannel overwrites the entry with every FIG 0/1).
THEOREM TypesStayRight == Spec => TypeNeverLost
  <1>1. TypeOK /\ [Next]_vars => [\A c \in Subchids : Right(einf, c) => Right(einf', c)]_vars
    BY SchanNext DEF TypeOK, Einf
  <1>2. QED
    BY <1>1, EnsembleTyped, PTL DEF Spec, TypeNeverLost

-----------------------------------------------------------------------------
\* The selection

\* The choice the user has made is of a component of a service, and what has been started
\* is that choice, of which everything was known.
SelectionInv ==
    /\ selSrv.sch # NULL =>
         /\ selSrv.sid \in Sids
         /\ selSrv.sch \in {Components[selSrv.sid].pa, Components[selSrv.sid].sa}
    /\ selected => selSrv.sch # NULL /\ einf.schan[selSrv.sch].known

LEMMA SelectionNext ==
  ASSUME TypeOK, TrueList(einf.srv), SelectionInv, [Next]_vars
  PROVE  SelectionInv'
  <1> USE DEF SelectionInv
  <1>1. einf \in Einf
    BY DEF TypeOK, Einf
  <1>2. selSrv.sch \in Subchids /\ einf.schan[selSrv.sch].known
           => einf'.schan[selSrv.sch].known
    BY <1>1, SchanNext
  <1>3. selSrv.sch # NULL => selSrv.sch \in Subchids
    BY DEF TypeOK
  <1>4. CASE UserSelect
    <2>1. einf' = einf /\ selected' = selected /\ selSrv.sch = NULL
      BY <1>4 DEF UserSelect, ensemble
    <2>2. \/ selSrv'.sch = NULL
          \/ \E i : selSrv' = Choice(einf, i)
      BY <1>4, <2>1 DEF UserSelect, TypeOK
    <2>3. ASSUME NEW k \in 1 .. Len(einf.srv)
          PROVE  einf.srv[k].sid \in Sids /\ Matches(einf.srv[k])
      <3>1. einf.srv[k] \in Service
        BY <1>1, ElementOfSeq DEF Einf
      <3>2. QED
        BY <3>1 DEF Service, TrueList
    <2>4. ASSUME NEW i, selSrv' = Choice(einf, i), selSrv'.sch # NULL
          PROVE  /\ selSrv'.sid \in Sids
                 /\ selSrv'.sch \in {Components[selSrv'.sid].pa, Components[selSrv'.sid].sa}
      BY <1>1, <2>1, <2>3, <2>4, ChoiceIs DEF Matches
    <2>5. QED
      BY <2>1, <2>2, <2>4
  <1>5. CASE Select
    BY <1>5 DEF Select, ensemble
  <1>6. CASE Fig01 \/ Fig02 \/ Fig11 \/ FigIgnored
    <2>1. \E e : Unpick(e)
      BY <1>6, Zenon DEF Fig01, Fig02, Fig11, FigIgnored
    <2>2. UNCHANGED user
      BY <2>1 DEF Unpick
    <2>3. QED
      BY <1>2, <1>3, <2>2 DEF user
  <1>7. CASE Lose \/ FicSymbol \/ OtherSymbol \/ UNCHANGED vars
    BY <1>7 DEF Lose, FicSymbol, OtherSymbol, vars, ensemble, user
  <1>8. QED
    BY <1>4, <1>5, <1>6, <1>7 DEF Next

\* What startsym is given is known, and is a component of the service the user chose.
THEOREM StartsWhatWasChosen == Spec => []SelectedIsKnown
  <1>1. Init => SelectionInv
    BY DEF Init, SelectionInv
  <1>2. TypeOK /\ TrueList(einf.srv) /\ SelectionInv /\ [Next]_vars
           => (TrueList(einf.srv))' /\ SelectionInv'
    BY TrueListNext, SelectionNext DEF TypeOK, Einf
  <1>3. SelectionInv => SelectedIsKnown
    BY DEF SelectionInv, SelectedIsKnown
  <1>4. QED
    BY <1>1, <1>2, <1>3, TrueListInit, EnsembleTyped, PTL DEF Spec

-----------------------------------------------------------------------------
\* num_srvs counts the components in the list: f[k] are those in front of service k.

Count(p) == (IF p.pa = NULL THEN 0 ELSE 1) + (IF p.sa = NULL THEN 0 ELSE 1)
Before(l, f) ==
    /\ f \in [1 .. Len(l) + 1 -> Nat]
    /\ f[1] = 0
    /\ \A k \in 1 .. Len(l) : f[k + 1] = f[k] + Count(l[k])
Counted(l, n) == \E f : Before(l, f) /\ f[Len(l) + 1] = n

\* Lists that have the same counts, one more service, or one more component
LEMMA CountedSame ==
  ASSUME NEW l, NEW a, NEW n, Counted(l, n), Len(a) = Len(l),
         \A k \in 1 .. Len(l) : a[k].pa = l[k].pa /\ a[k].sa = l[k].sa
  PROVE  Counted(a, n)
  BY DEF Counted, Before, Count

LEMMA CountedLonger ==
  ASSUME NEW l, NEW a, NEW n, Counted(l, n), Len(l) \in Nat, Len(a) = Len(l) + 1,
         \A k \in 1 .. Len(l) : a[k] = l[k],
         a[Len(l) + 1].pa = NULL, a[Len(l) + 1].sa = NULL
  PROVE  Counted(a, n)
  <1>1. PICK f : Before(l, f) /\ f[Len(l) + 1] = n
    BY DEF Counted
  <1> DEFINE g == [k \in 1 .. Len(a) + 1 |-> IF k \in 1 .. Len(l) + 1 THEN f[k] ELSE n]
  <1>2. n \in Nat /\ g \in [1 .. Len(a) + 1 -> Nat] /\ g[1] = 0
    BY <1>1 DEF Before
  <1>3. ASSUME NEW k \in 1 .. Len(a) PROVE g[k + 1] = g[k] + Count(a[k])
    <2>1. CASE k \in 1 .. Len(l)
      BY <1>1, <2>1 DEF Before
    <2>2. CASE k = Len(l) + 1
      BY <1>1, <1>2, <2>2 DEF Count
    <2>3. QED
      BY <2>1, <2>2
  <1>4. g[Len(a) + 1] = n
    OBVIOUS
  <1> HIDE DEF g
  <1>5. QED
    BY <1>2, <1>3, <1>4 DEF Counted, Before

LEMMA CountedMore ==
  ASSUME NEW l, NEW a, NEW n, Counted(l, n), Len(l) \in Nat, Len(a) = Len(l),
         NEW k \in 1 .. Len(l), Count(a[k]) = Count(l[k]) + 1,
         \A j \in 1 .. Len(l) : j # k => a[j] = l[j]
  PROVE  Counted(a, n + 1)
  <1>1. PICK f : Before(l, f) /\ f[Len(l) + 1] = n
    BY DEF Counted
  <1> DEFINE g == [j \in 1 .. Len(a) + 1 |-> IF j <= k THEN f[j] ELSE f[j] + 1]
  <1>2. /\ f \in [1 .. Len(l) + 1 -> Nat] /\ f[1] = 0
        /\ \A j \in 1 .. Len(l) : f[j + 1] = f[j] + Count(l[j])
    BY <1>1 DEF Before
  <1>3. g \in [1 .. Len(a) + 1 -> Nat] /\ g[1] = 0
    BY <1>2
  <1>4. ASSUME NEW j \in 1 .. Len(a) PROVE g[j + 1] = g[j] + Count(a[j])
    <2> j \in 1 .. Len(l) /\ j + 1 \in 1 .. Len(l) + 1 /\ j \in 1 .. Len(l) + 1
      OBVIOUS
    <2>1. f[j + 1] = f[j] + Count(l[j]) /\ f[j] \in Nat
      BY <1>2
    <2> Count(l[j]) \in Nat
      BY DEF Count
    <2>2. /\ g[j] = IF j <= k THEN f[j] ELSE f[j] + 1
          /\ g[j + 1] = IF j + 1 <= k THEN f[j + 1] ELSE f[j + 1] + 1
      OBVIOUS
    <2> HIDE DEF g
    <2>3. CASE j = k
      <3>1. Count(a[j]) = Count(l[j]) + 1
        BY <2>3
      <3>2. g[j] = f[j] /\ g[j + 1] = f[j + 1] + 1
        BY <2>2, <2>3
      <3>3. QED
        BY <2>1, <3>1, <3>2
    <2>4. CASE j # k
      <3>1. a[j] = l[j] /\ (j <= k => j + 1 <= k)
        BY <2>4
      <3>2. QED
        BY <2>1, <2>2, <3>1
    <2>5. QED
      BY <2>3, <2>4
  <1>5. g[Len(a) + 1] = n + 1
    BY <1>1
  <1> HIDE DEF g
  <1>6. QED
    BY <1>3, <1>4, <1>5 DEF Counted, Before

LEMMA AddServiceCounted ==
  ASSUME NEW e \in Einf, NEW s \in Sids, NEW c \in Subchids, NEW primary \in BOOLEAN,
         Counted(e.srv, e.num_srvs)
  PROVE  Counted(add_service(e, s, c, primary).srv, add_service(e, s, c, primary).num_srvs)
  <1> DEFINE l == Listed(e, s)
             k == Place(e, s)
             b == Added(e, l, k, c, primary)
             a == b.srv
             n == e.num_srvs
             new == (primary /\ l[k].pa = NULL) \/ (~primary /\ l[k].sa = NULL)
  <1>1. /\ l \in Seq(Service) /\ k \in 1 .. Len(l)
        /\ Len(e.srv) \in Nat /\ Len(l) \in Nat /\ n \in Nat /\ NULL # c
    BY ListedType, LenProperties, MultiplexAssumption DEF Einf
  <1>2. Counted(l, n)
    <2>1. CASE l = e.srv
      BY <2>1
    <2>2. CASE l # e.srv
      <3>1. /\ Len(l) = Len(e.srv) + 1
            /\ \A i \in 1 .. Len(e.srv) : l[i] = e.srv[i]
            /\ l[Len(e.srv) + 1].pa = NULL /\ l[Len(e.srv) + 1].sa = NULL
        BY <2>2, ListedIs, ZenonT(60)
      <3> HIDE DEF l, n
      <3>2. QED
        BY <1>1, <3>1, CountedLonger DEF n
    <2>3. QED
      BY <2>1, <2>2
  <1>3. add_service(e, s, c, primary) = b
    BY AddServiceIs
  <1>4. b.num_srvs = IF new THEN n + 1 ELSE n
    BY DEF Added
  <1> HIDE DEF l, k, n, b
  <1>5. /\ Len(a) = Len(l)
        /\ \A i \in 1 .. Len(l) : i # k => a[i] = l[i]
        /\ a[k].pa = IF primary /\ l[k].pa = NULL THEN c ELSE l[k].pa
        /\ a[k].sa = IF ~primary /\ l[k].sa = NULL THEN c ELSE l[k].sa
    BY <1>1, AddedIs DEF b
  <1>6. CASE new
    <2>1. Count(a[k]) = Count(l[k]) + 1
      BY <1>1, <1>5, <1>6 DEF Count
    <2>2. Counted(a, n + 1)
      BY <1>1, <1>2, <1>5, <2>1, CountedMore
    <2>3. QED
      BY <1>3, <1>4, <1>6, <2>2
  <1>7. CASE ~new
    <2>1. \A i \in 1 .. Len(l) : a[i].pa = l[i].pa /\ a[i].sa = l[i].sa
      BY <1>1, <1>5, <1>7
    <2>2. Counted(a, n)
      BY <1>2, <1>5, <2>1, CountedSame
    <2>3. QED
      BY <1>3, <1>4, <1>7, <2>2
  <1>8. QED
    BY <1>6, <1>7

LEMMA CountedNext ==
  ASSUME einf \in Einf, Counted(einf.srv, einf.num_srvs), [Next]_vars
  PROVE  Counted(einf'.srv, einf'.num_srvs)
  <1>1. CASE \E c \in Subchids, d \in BOOLEAN : einf' = add_subchannel(einf, c, d)
    <2>1. einf'.srv = einf.srv /\ einf'.num_srvs = einf.num_srvs
      BY <1>1 DEF add_subchannel, Einf
    <2>2. QED
      BY <2>1
  <1>2. ASSUME NEW s \in Sids, einf' = Composed(einf, s)
        PROVE  Counted(einf'.srv, einf'.num_srvs)
    <2> DEFINE pa == Components[s].pa
               sa == Components[s].sa
               f  == IF pa = NULL THEN einf ELSE add_service(einf, s, pa, TRUE)
    <2>1. pa \in Subchids \cup {NULL} /\ sa \in Subchids \cup {NULL}
      BY MultiplexAssumption
    <2>2. f \in Einf
      BY <2>1, AddServiceType
    <2>3. Counted(f.srv, f.num_srvs)
      <3>1. CASE pa = NULL
        BY <3>1
      <3>2. CASE pa # NULL
        <4>1. f = add_service(einf, s, pa, TRUE) /\ pa \in Subchids
          BY <2>1, <3>2
        <4> HIDE DEF f, pa
        <4>2. QED
          BY <4>1, AddServiceCounted
      <3>3. QED
        BY <3>1, <3>2
    <2>4. einf' = IF sa = NULL THEN f ELSE add_service(f, s, sa, FALSE)
      BY <1>2, Zenon DEF Composed
    <2> HIDE DEF f, sa
    <2>5. CASE sa = NULL
      BY <2>3, <2>4, <2>5
    <2>6. CASE sa # NULL
      <3>1. einf' = add_service(f, s, sa, FALSE) /\ sa \in Subchids
        BY <2>1, <2>4, <2>6
      <3>2. QED
        BY <2>2, <2>3, <3>1, AddServiceCounted
    <2>7. QED
      BY <2>5, <2>6
  <1>3. ASSUME NEW s \in Sids, einf' = Relabelled(einf, s)
        PROVE  Counted(einf'.srv, einf'.num_srvs)
    <2>1. /\ Len(einf'.srv) = Len(einf.srv) /\ einf'.num_srvs = einf.num_srvs
          /\ \A k \in 1 .. Len(einf.srv) : /\ einf'.srv[k].pa = einf.srv[k].pa
                                           /\ einf'.srv[k].sa = einf.srv[k].sa
      BY <1>3, RelabelledIs, Zenon
    <2>2. QED
      BY <2>1, CountedSame
  <1>4. QED
    BY <1>1, <1>2, <1>3, EnsembleSteps

LEMMA CountedInit ==
  ASSUME Init
  PROVE  Counted(einf.srv, einf.num_srvs)
  <1>1. einf.srv = <<>> /\ Len(<<>>) = 0 /\ einf.num_srvs = 0
    BY EmptySeq DEF Init
  <1> DEFINE f == [k \in 1 .. 1 |-> 0]
  <1>2. Before(<<>>, f) /\ f[Len(<<>>) + 1] = 0
    BY <1>1 DEF Before
  <1>3. QED
    BY <1>1, <1>2 DEF Counted

-----------------------------------------------------------------------------
\* The numbers of the display and of the selection

\* What Numbers computes is what comes before each service.
LEMMA NumbersIs ==
  ASSUME NEW n \in Nat, NEW height \in [1 .. n -> Nat], NEW f \in [1 .. n + 1 -> Nat],
         f[1] = 0, \A k \in 1 .. n : f[k + 1] = f[k] + height[k]
  PROVE  Numbers(height) = [k \in 1 .. n |-> f[k]]
  <1> DEFINE w == [k \in 1 .. n |-> f[k]]
             Solves(g) == g = [k \in 1 .. n |-> IF k = 1 THEN 0 ELSE g[k - 1] + height[k - 1]]
  <1>1. Numbers(height) = CHOOSE g : Solves(g)
    BY DEF Numbers
  <1>2. Solves(w)
    <2>1. ASSUME NEW k \in 1 .. n
          PROVE  f[k] = IF k = 1 THEN 0 ELSE w[k - 1] + height[k - 1]
      <3>1. CASE k = 1
        BY <3>1
      <3>2. CASE k # 1
        <4>1. k - 1 \in 1 .. n /\ (k - 1) + 1 = k
          BY <3>2
        <4>2. w[k - 1] = f[k - 1] /\ f[k] = f[k - 1] + height[k - 1]
          BY <4>1
        <4>3. QED
          BY <3>2, <4>2
      <3>3. QED
        BY <3>1, <3>2
    <2>2. QED
      BY <2>1
  <1>3. ASSUME NEW g, Solves(g) PROVE g = w
    <2> DEFINE Differ == {k \in 1 .. n : g[k] # w[k]}
    <2>1. CASE Differ = {}
      <3>1. g = [k \in 1 .. n |-> g[k]]
        BY <1>3
      <3>2. \A k \in 1 .. n : g[k] = w[k]
        BY <2>1
      <3>3. [k \in 1 .. n |-> g[k]] = [k \in 1 .. n |-> w[k]]
        BY <3>2
      <3>4. QED
        BY <3>1, <3>3
    <2>2. CASE Differ # {}
      <3>1. PICK k \in Differ : \A j \in Differ : k <= j
        <4>1. Differ \subseteq Nat
          OBVIOUS
        <4> HIDE DEF Differ
        <4>2. QED
          BY <2>2, <4>1, NatMin
      <3>2. k \in 1 .. n /\ g[k] # w[k]
        BY <3>1
      <3>3. /\ g[k] = IF k = 1 THEN 0 ELSE g[k - 1] + height[k - 1]
            /\ w[k] = IF k = 1 THEN 0 ELSE w[k - 1] + height[k - 1]
        BY <1>2, <1>3, <3>2
      <3>4. k # 1 => g[k - 1] = w[k - 1]
        BY <3>1, <3>2
      <3>5. QED
        BY <3>2, <3>3, <3>4
    <2>3. QED
      BY <2>1, <2>2
  <1> HIDE DEF w, Solves
  <1>4. QED
    BY <1>1, <1>2, <1>3 DEF w

\* When every service has a component, each has its numbers to itself,
LEMMA Increasing ==
  ASSUME NEW l, Len(l) \in Nat, NEW f, Before(l, f),
         NEW j \in 1 .. Len(l), NEW i \in 1 .. Len(l) + 1, j < i
  PROVE  f[j] + Count(l[j]) <= f[i]
  <1> DEFINE n == Len(l)
             Less == {m \in j + 1 .. n + 1 : ~(f[j + 1] <= f[m])}
  <1>1. f \in [1 .. n + 1 -> Nat] /\ \A k \in 1 .. n : f[k + 1] = f[k] + Count(l[k])
    BY DEF Before
  <1>2. Less = {}
    <2> SUFFICES ASSUME Less # {} PROVE FALSE
      OBVIOUS
    <2>1. PICK m \in Less : \A p \in Less : m <= p
      <3>1. Less \subseteq Nat
        OBVIOUS
      <3>2. QED
        BY <3>1, NatMin
    <2>2. m \in j + 1 .. n + 1 /\ ~(f[j + 1] <= f[m])
      BY <2>1
    <2>3. m # j + 1
      BY <1>1, <2>2
    <2>4. m - 1 \in j + 1 .. n + 1 /\ m - 1 \in 1 .. n /\ m - 1 \notin Less
      BY <2>1, <2>2, <2>3
    <2>5. f[j + 1] <= f[m - 1]
      BY <2>4
    <2>6. f[m] = f[m - 1] + Count(l[m - 1]) /\ Count(l[m - 1]) \in Nat
      <3>1. (m - 1) + 1 = m
        BY <2>2
      <3>2. f[(m - 1) + 1] = f[m - 1] + Count(l[m - 1])
        BY <1>1, <2>4
      <3>3. Count(l[m - 1]) \in Nat
        BY DEF Count
      <3>4. QED
        BY <3>1, <3>2, <3>3
    <2>7. f[j + 1] \in Nat /\ f[m - 1] \in Nat
      BY <1>1, <2>4, SMTT(30)
    <2> HIDE DEF Less
    <2>8. QED
      BY <2>2, <2>5, <2>6, <2>7
  <1>3. f[j + 1] <= f[i]
    BY <1>2
  <1>4. QED
    BY <1>1, <1>3

\* and every number is one of some service.
LEMMA Covered ==
  ASSUME NEW l, Len(l) \in Nat, NEW f, Before(l, f), NEW i \in Nat, i < f[Len(l) + 1]
  PROVE  \E k \in 1 .. Len(l) : f[k] <= i /\ i < f[k] + Count(l[k])
  <1> DEFINE n == Len(l)
             Upto == {k \in 1 .. n + 1 : f[k] <= i}
  <1>1. f \in [1 .. n + 1 -> Nat] /\ f[1] = 0 /\ \A k \in 1 .. n : f[k + 1] = f[k] + Count(l[k])
    BY DEF Before
  <1>2. PICK k \in Upto : \A j \in Upto : j <= k
    <2>1. 1 \in Upto /\ Upto \subseteq Nat /\ n + 1 \in Nat /\ \A j \in Upto : j <= n + 1
      BY <1>1
    <2> HIDE DEF Upto
    <2>2. QED
      BY <2>1, NatMax
  <1>3. k \in 1 .. n /\ f[k] <= i
    BY <1>1, <1>2
  <1>4. k + 1 \in 1 .. n + 1 /\ k + 1 \notin Upto
    BY <1>2, <1>3
  <1>5. i < f[k + 1]
    <2>1. f[k + 1] \in Nat /\ ~(f[k + 1] <= i)
      BY <1>1, <1>4
    <2>2. QED
      BY <2>1
  <1>6. QED
    BY <1>1, <1>3, <1>5

\* What a number selects, when every service has a primary component
AllPrimary(l) == \A k \in 1 .. Len(l) : l[k].pa # NULL

LEMMA ChoiceOf ==
  ASSUME NEW e \in Einf, AllPrimary(e.srv), NEW f, Before(e.srv, f),
         NEW k \in 1 .. Len(e.srv), NEW second \in {0, 1},
         second = 1 => e.srv[k].sa # NULL
  PROVE  Choice(e, f[k] + second) =
           [sid |-> e.srv[k].sid, sch |-> IF second = 1 THEN e.srv[k].sa ELSE e.srv[k].pa]
  <1> DEFINE l == e.srv
             n == Len(l)
             i == f[k] + second
             at == Numbers([m \in DOMAIN l |-> SelHeight(l[m])])
             secondary(m) == at[m] = i - 1 /\ l[m].sa # NULL
             hits == {m \in DOMAIN l : at[m] = i \/ secondary(m)}
             K == CHOOSE m \in hits : \A p \in hits : p <= m
  <1>1. n \in Nat /\ DOMAIN l = 1 .. n
    BY LenProperties DEF Einf
  <1>2. /\ f \in [1 .. n + 1 -> Nat] /\ f[1] = 0
        /\ \A m \in 1 .. n : f[m + 1] = f[m] + Count(l[m])
    BY DEF Before
  <1>3. \A m \in 1 .. n : /\ SelHeight(l[m]) = Count(l[m])
                          /\ Count(l[m]) = IF l[m].sa = NULL THEN 1 ELSE 2
    BY DEF AllPrimary, SelHeight, Count
  <1>4. \A m \in 1 .. n : at[m] = f[m]
    <2> DEFINE height == [m \in 1 .. n |-> SelHeight(l[m])]
    <2>1. height \in [1 .. n -> Nat] /\ \A m \in 1 .. n : f[m + 1] = f[m] + height[m]
      <3>1. \A m \in 1 .. n : SelHeight(l[m]) \in Nat
        BY DEF SelHeight
      <3>2. \A m \in 1 .. n : height[m] = SelHeight(l[m])
        OBVIOUS
      <3>3. height \in [1 .. n -> Nat]
        BY <3>1
      <3> HIDE DEF height, n, l
      <3>4. QED
        BY <1>2, <1>3, <3>2, <3>3
    <2>2. at = Numbers(height)
      BY <1>1
    <2> HIDE DEF height
    <2>3. at = [m \in 1 .. n |-> f[m]]
      BY <1>1, <1>2, <2>1, <2>2, NumbersIs
    <2> HIDE DEF at
    <2>4. QED
      BY <2>3
  <1>5. Choice(e, i) =
           IF hits = {} THEN selSrv
           ELSE [sid |-> l[K].sid, sch |-> IF secondary(K) THEN l[K].sa ELSE l[K].pa]
    BY Zenon DEF Choice
  <1> HIDE DEF at
  <1>6. \A m \in 1 .. n : f[m] \in Nat
    BY <1>1, <1>2
  <1>7. k \in hits
    BY <1>1, <1>4, <1>6
  <1>8. ASSUME NEW m \in hits PROVE m = k
    <2>1. m \in 1 .. n /\ f[m] <= i /\ i < f[m] + Count(l[m])
      BY <1>1, <1>3, <1>4, <1>6, SMTT(30)
    <2>2. f[k] <= i /\ i < f[k] + Count(l[k])
      BY <1>3, <1>6
    <2>3. Count(l[m]) \in Nat /\ Count(l[k]) \in Nat
      BY DEF Count
    <2>4. /\ m < k => f[m] + Count(l[m]) <= f[k]
          /\ k < m => f[k] + Count(l[k]) <= f[m]
      BY <1>1, <2>1, Increasing
    <2>5. i \in Nat /\ f[m] \in Nat /\ f[k] \in Nat
      BY <1>6, <2>1
    <2> HIDE DEF i, hits
    <2>6. QED
      BY <2>1, <2>2, <2>3, <2>4, <2>5, SMTT(30)
  <1>9. hits = {k}
    BY <1>7, <1>8
  <1>10. K = k
    BY <1>9
  <1>11. secondary(k) <=> second = 1
    BY <1>4, <1>6
  <1> HIDE DEF hits, K, secondary
  <1>12. QED
    BY <1>5, <1>9, <1>10, <1>11

LEMMA DisplayIs ==
  ASSUME NEW e \in Einf, AllPrimary(e.srv), NEW f, Before(e.srv, f)
  PROVE  Displayed(e) =
           {<<f[k], e.srv[k].sid, e.srv[k].pa>> : k \in 1 .. Len(e.srv)}
           \cup {<<f[k] + 1, e.srv[k].sid, e.srv[k].sa>> :
                   k \in {j \in 1 .. Len(e.srv) : e.srv[j].sa # NULL}}
  <1> DEFINE l == e.srv
             n == Len(l)
             at == Numbers([k \in DOMAIN l |-> DispHeight(l[k])])
  <1>1. n \in Nat /\ DOMAIN l = 1 .. n
    BY LenProperties DEF Einf
  <1>2. \A k \in 1 .. n : DispHeight(l[k]) = Count(l[k]) /\ (DispHeight(l[k]) = 2 <=> l[k].sa # NULL)
    BY DEF AllPrimary, DispHeight, Count
  <1>3. \A k \in 1 .. n : at[k] = f[k]
    <2> DEFINE height == [k \in 1 .. n |-> DispHeight(l[k])]
    <2>1. height \in [1 .. n -> Nat] /\ \A k \in 1 .. n : f[k + 1] = f[k] + height[k]
      BY <1>2 DEF Before, DispHeight
    <2>2. f \in [1 .. n + 1 -> Nat] /\ f[1] = 0
      BY DEF Before
    <2>3. at = Numbers(height)
      BY <1>1
    <2> HIDE DEF height
    <2>4. at = [k \in 1 .. n |-> f[k]]
      BY <1>1, <2>1, <2>2, <2>3, NumbersIs
    <2> HIDE DEF at
    <2>5. QED
      BY <2>4
  <1>4. Displayed(e) =
          {<<at[k], l[k].sid, l[k].pa>> : k \in DOMAIN l}
          \cup {<<at[k] + 1, l[k].sid, l[k].sa>> : k \in {j \in DOMAIN l : DispHeight(l[j]) = 2}}
    BY Zenon DEF Displayed
  <1> HIDE DEF at
  <1>5. {j \in DOMAIN l : DispHeight(l[j]) = 2} = {j \in 1 .. n : l[j].sa # NULL}
    BY <1>1, <1>2
  <1>6. {<<at[k], l[k].sid, l[k].pa>> : k \in DOMAIN l} = {<<f[k], l[k].sid, l[k].pa>> : k \in 1 .. n}
    BY <1>1, <1>3
  <1>7. {<<at[k] + 1, l[k].sid, l[k].sa>> : k \in {j \in 1 .. n : l[j].sa # NULL}} =
        {<<f[k] + 1, l[k].sid, l[k].sa>> : k \in {j \in 1 .. n : l[j].sa # NULL}}
    BY <1>3
  <1>8. QED
    BY <1>4, <1>5, <1>6, <1>7

LEMMA DisplayMatches ==
  ASSUME NEW e \in Einf, Counted(e.srv, e.num_srvs), AllPrimary(e.srv)
  PROVE  Displayed(e) =
           {<<i, Choice(e, i).sid, Choice(e, i).sch>> : i \in 0 .. e.num_srvs - 1}
  <1> DEFINE l == e.srv
             n == Len(l)
             Line(i) == <<i, Choice(e, i).sid, Choice(e, i).sch>>
             Lines == {Line(i) : i \in 0 .. e.num_srvs - 1}
  <1>1. PICK f : Before(l, f) /\ f[n + 1] = e.num_srvs
    BY DEF Counted
  <1> DEFINE first(k)  == <<f[k], l[k].sid, l[k].pa>>
             second(k) == <<f[k] + 1, l[k].sid, l[k].sa>>
             Firsts  == {first(k) : k \in 1 .. n}
             Seconds == {second(k) : k \in {j \in 1 .. n : l[j].sa # NULL}}
  <1>2. Displayed(e) = Firsts \cup Seconds
    BY <1>1, DisplayIs
  <1>3. n \in Nat /\ e.num_srvs \in Nat /\ \A k \in 1 .. n + 1 : f[k] \in Nat
    BY <1>1, LenProperties DEF Einf, Before
  <1>4. \A k \in 1 .. n : Count(l[k]) = IF l[k].sa = NULL THEN 1 ELSE 2
    BY DEF AllPrimary, Count
  <1>5. \A k \in 1 .. n : f[k] + Count(l[k]) <= e.num_srvs
    BY <1>1, <1>3, Increasing
  <1>a. ASSUME NEW k \in 1 .. n, NEW b \in {0, 1}, b = 1 => l[k].sa # NULL
      PROVE  Choice(e, f[k] + b) =
               [sid |-> l[k].sid, sch |-> IF b = 1 THEN l[k].sa ELSE l[k].pa]
    BY <1>1, <1>a, ChoiceOf, Zenon
  <1>6. ASSUME NEW k \in 1 .. n
        PROVE  /\ f[k] \in 0 .. e.num_srvs - 1
               /\ Line(f[k]) = first(k)
    <2>1. f[k] \in 0 .. e.num_srvs - 1 /\ f[k] + 0 = f[k]
      BY <1>3, <1>4, <1>5
    <2>2. Choice(e, f[k] + 0) = [sid |-> l[k].sid, sch |-> l[k].pa]
      <3>1. 0 \in {0, 1} /\ ~(0 = 1)
        OBVIOUS
      <3>2. Choice(e, f[k] + 0) =
               [sid |-> l[k].sid, sch |-> IF 0 = 1 THEN l[k].sa ELSE l[k].pa]
        BY <1>a, <3>1, Zenon
      <3>3. QED
        BY <3>1, <3>2, Zenon
    <2>3. QED
      BY <2>1, <2>2
  <1>7. ASSUME NEW k \in 1 .. n, l[k].sa # NULL
        PROVE  /\ f[k] + 1 \in 0 .. e.num_srvs - 1
               /\ Line(f[k] + 1) = second(k)
    <2>1. f[k] + 1 \in 0 .. e.num_srvs - 1
      BY <1>3, <1>4, <1>5, <1>7
    <2>2. Choice(e, f[k] + 1) = [sid |-> l[k].sid, sch |-> l[k].sa]
      <3>1. 1 \in {0, 1}
        OBVIOUS
      <3>2. Choice(e, f[k] + 1) =
               [sid |-> l[k].sid, sch |-> IF 1 = 1 THEN l[k].sa ELSE l[k].pa]
        BY <1>a, <1>7, <3>1, Zenon
      <3>3. QED
        BY <3>2, Zenon
    <2>3. QED
      BY <2>1, <2>2
  <1>8. ASSUME NEW i \in 0 .. e.num_srvs - 1
        PROVE  Line(i) \in Firsts \cup Seconds
    <2>1. PICK k \in 1 .. n : f[k] <= i /\ i < f[k] + Count(l[k])
      <3>1. i \in Nat /\ i < f[n + 1]
        BY <1>1, <1>3
      <3>2. QED
        BY <1>1, <1>3, <3>1, Covered
    <2>2. i = f[k] \/ (i = f[k] + 1 /\ l[k].sa # NULL)
      BY <1>3, <1>4, <2>1
    <2> HIDE DEF Line, first, second
    <2>3. QED
      BY <1>6, <1>7, <2>2
  <1> HIDE DEF Line, first, second
  <1>9. Firsts \cup Seconds \subseteq Lines
    BY <1>6, <1>7
  <1>10. Lines \subseteq Firsts \cup Seconds
    BY <1>8
  <1>11. Displayed(e) = Lines
    BY <1>2, <1>9, <1>10
  <1>12. QED
    BY <1>11 DEF Line

\* Every number that is offered selects the service and subchannel displayed beside it:
\* disp_ensemble and user_select_service count alike.
THEOREM NumbersAgree == Spec => []SelectionMatchesDisplay
  <1>1. TypeOK /\ Counted(einf.srv, einf.num_srvs) /\ [Next]_vars
           => Counted(einf.srv, einf.num_srvs)'
    BY CountedNext DEF TypeOK, Einf
  <1>2. TypeOK /\ Counted(einf.srv, einf.num_srvs) => SelectionMatchesDisplay
    <2> SUFFICES ASSUME TypeOK, Counted(einf.srv, einf.num_srvs),
                        \A k \in DOMAIN einf.srv : einf.srv[k].pa # NULL
                 PROVE  Displayed(einf) =
                          {<<i, Choice(einf, i).sid, Choice(einf, i).sch>> :
                             i \in 0 .. einf.num_srvs - 1}
      BY DEF SelectionMatchesDisplay
    <2>1. einf \in Einf /\ AllPrimary(einf.srv)
      <3>1. einf \in Einf
        BY DEF TypeOK, Einf
      <3>2. DOMAIN einf.srv = 1 .. Len(einf.srv)
        BY <3>1, LenProperties DEF Einf
      <3>3. QED
        BY <3>1, <3>2 DEF AllPrimary
    <2>2. QED
      BY <2>1, DisplayMatches
  <1>3. QED
    BY <1>1, <1>2, CountedInit, EnsembleTyped, PTL DEF Spec
=============================================================================
