--------------------------- MODULE L2AccessProofs ---------------------------
(***************************************************************************)
(* Safety of L2Access for any number of sets and miss buffer entries.      *)
(* Walks, Refill, LsuTurn and LsuPath need nothing of CP0.  Turns says who *)
(* runs when CP0 does not use its invalidate-all wire.  The rest is about  *)
(* operations that are serial, which they are when CP0 does not probe      *)
(* either (OneOperAtATime fails otherwise): Holds says that a machine past *)
(* its first grant holds the arbiter, and Reads follows the read of each   *)
(* machine that writes back through the pipeline.                          *)
(***************************************************************************)
EXTENDS L2Access, TLAPS

\* The first grant of a refill, its read in both stages, and its write
Refill ==
  /\ ptwOn <=> wrReq1 \/ wrReq2
  /\ wrReq1 => raw.type = "read"
  /\ wrReq2 => finalVld /\ final.type = "read"
  /\ tlboperOn => ~ptwOn

\* The states of each machine
StatesOf(f) ==
  CASE f = "invasid" -> {"idle", "rd", "wfc", "wt", "nwt"}
    [] f = "invall"  -> {"idle", "wfc"}
    [] f = "invva"   -> {"idle", "rd", "cmp", "wr", "wt", "cmplt"}
    [] f = "tlbwr"   -> {"idle", "wfg", "tag", "wfc"}
    [] OTHER         -> {"idle", "wfg", "wfc"}

Machines == \A f \in Fsm : st[f] \in StatesOf(f)

\* What CP0 asks for is what it may ask for.
Asks == mcir \subseteq Cp0Ops /\ (cp0All => "all" \in Cp0Ops)

\* While an operation of the LSU runs only those run that began in the cycle in
\* which it did: the probe, and the invalidate-all of CP0's wire.
LsuTurn ==
  /\ lsuFlop => /\ LsuOper /\ ~lsuCmplt /\ lsuReq \in Busy
                /\ Busy \subseteq {lsuReq, "tlbp", "invall"}
  /\ lsuCmplt => LsuOper /\ ~lsuFlop

\* No lookup is in the first stage when the LSU's operation ends, nor in the second
\* one in the cycle after.  A probe that began with it ends by an access they share,
\* and so does not take the arbiter from it between an access and its completion.
LsuPath ==
  /\ lsuFlop =>
       /\ st["tlbp"] = "wfg" => st["invasid"] \in {"idle", "rd"} /\ st["invva"] \in {"idle", "rd"}
       /\ st["tlbp"] = "wfc" => st["invasid"] \in {"idle", "wfc"} /\ st["invva"] \in {"idle", "cmp"}
       /\ st["invasid"] = "wfc" \/ st["invva"] \in {"cmp", "wt"} => tlboperOn
       /\ st["invasid"] \in {"wt", "nwt"} \/ st["invva"] = "cmplt" => raw.type \notin Lookup
       /\ st["invall"] = "wfc" /\ cnt > 0 => raw.type \notin Lookup
  /\ lsuCmplt /\ finalVld => final.type \notin Lookup

\* What CP0 must not do: for Turns, use its invalidate-all wire; for the rest, probe
\* either.
NoWire    == "all" \notin Cp0Ops
Cp0Serial == Cp0Ops \cap {"tlbp", "all"} = {}

\* Whose operation runs: that of the one bit of MCIR, or the LSU's and with it at
\* most a probe, whose bit is then set.
Turns ==
  /\ \A f, g \in mcir : f = g
  /\ lsuFlop => Busy \subseteq {lsuReq} \cup ({"tlbp"} \cap mcir)
  /\ ~lsuFlop => Busy \subseteq mcir
  /\ lsuCmplt => Busy \subseteq {"tlbp"}

\* The same without a probe
Turn ==
  /\ ~cp0All /\ "tlbp" \notin mcir
  /\ \A f, g \in mcir : f = g
  /\ lsuFlop => LsuOper /\ Busy = {lsuReq} /\ ~lsuCmplt
  /\ ~lsuFlop => Busy \subseteq mcir
  /\ lsuCmplt => LsuOper /\ Busy = {}

\* A machine past its first grant holds the arbiter, and nobody else does; then
\* no lookup follows it into the pipeline.
Past(f) ==
  \/ st[f] \in {"tag", "wt", "nwt", "cmp", "wr", "cmplt"}
  \/ st[f] = "wfc" /\ (f = "invall" => cnt > 0)

Holds ==
  /\ \A f \in Fsm : Past(f) => tlboperOn
  /\ Busy = {} => ~tlboperOn
  /\ tlboperOn => raw.type \notin Lookup

\* The read of a machine that will write back: in the first stage, behind its write of
\* the set before at most, or in the second one in this cycle
Own(f)      == Acc("oper", {f}, FALSE)
OwnWrite(f) == Acc("oper", {f}, TRUE)

Reading(f) ==
  \/ raw = Own(f) /\ (JtlbCmplt => final = OwnWrite(f))
  \/ raw = NoAcc /\ finalVld /\ final = Own(f)

Found(f) == raw = NoAcc /\ final = Own(f)

Reads ==
  /\ st["tlbwr"] = "wfg" => raw.type # "oper"
  /\ st["tlbwr"] = "tag" => Reading("tlbwr") /\ (JtlbCmplt => ~final.wr)
  /\ st["tlbwr"] = "wfc" /\ ~wtGrant => Found("tlbwr")
  /\ st["invasid"] = "rd" => (raw.type = "oper" => raw = OwnWrite("invasid"))
  /\ st["invasid"] = "wfc" => Reading("invasid")
  /\ st["invasid"] = "wt" => Found("invasid")
  /\ st["invva"] = "rd" => raw.type # "oper"
  /\ st["invva"] = "cmp" => Reading("invva") /\ (JtlbCmplt => ~final.wr)
  /\ st["invva"] = "wr" => Found("invva")

IInv ==
  /\ TypeOK /\ Machines /\ Asks
  /\ OneWalkPerMiss /\ NoOrphanedMiss
  /\ Refill /\ LsuTurn /\ LsuPath
SInv == Turn /\ Holds /\ Reads

-----------------------------------------------------------------------------
LEMMA InitSafe == Init => IInv /\ Turns /\ SInv
<1> SUFFICES ASSUME Init PROVE IInv /\ Turns /\ SInv
  OBVIOUS
<1> USE DEF Init, TlbOperInit, L2ArbInit, MissBufInit, Fsm, Cp0Fsm, LsuFsm
<1>1. TypeOK
  <2>1. TlbOperTypeOK
    <3>1. st \in [Fsm -> FsmState]
      BY DEF FsmState
    <3>2. cnt \in 0 .. InvLast
      BY InvLastAssumption
    <3> QED
      BY <3>1, <3>2 DEF TlbOperTypeOK
  <2>2. raw \in [type : Lookup \cup {"none", "read", "oper"}, by : SUBSET Fsm, wr : BOOLEAN]
    BY DEF NoAcc, Acc
  <2>3. L2ArbTypeOK(Fsm)
    BY <2>2 DEF L2ArbTypeOK
  <2>4. MissBufTypeOK
    BY DEF MissBufTypeOK
  <2> QED
    BY <2>1, <2>3, <2>4 DEF TypeOK
<1>2. OneWalkPerMiss /\ NoOrphanedMiss
  BY DEF OneWalkPerMiss, NoOrphanedMiss, InPtw
<1>3. Refill
  BY DEF Refill
<1>4. Machines
  BY DEF Machines, StatesOf
<1>5. Asks /\ LsuTurn /\ LsuPath /\ Turns /\ Turn
  BY DEF Asks, LsuTurn, LsuPath, Turns, Turn, Busy, LsuOper
<1>6. Holds
  BY DEF Holds, Past, NoAcc, Acc, Lookup
<1>7. Reads
  BY DEF Reads
<1> QED
  BY <1>1, <1>2, <1>3, <1>4, <1>5, <1>6, <1>7 DEF IInv, SInv

\* What lets an access in.
LEMMA GrantFacts ==
  ASSUME NEW p, NEW o, NEW i \in {"none"} \cup Lookup, NEW g,
         g = Grant(p, o, i)
  PROVE  /\ g \in {"write", "read", "oper", "none", "itlb", "dtlb"}
         /\ g = "write" <=> WriteGrant
         /\ g = "read" => Open /\ p /\ ~tlboperOn
         /\ g = "oper" => Open /\ ~p /\ o
         /\ g \in Lookup => Open /\ ~tlboperOn /\ ~o
<1>1. CASE WriteGrant
  <2>1. g = "write"
    BY <1>1 DEF Grant, WriteGrant, Open
  <2> QED
    BY <1>1, <2>1 DEF Lookup
<1>2. CASE ~WriteGrant /\ Open /\ p /\ ~tlboperOn
  BY <1>2 DEF Grant, Lookup
<1>3. CASE ~WriteGrant /\ Open /\ ~p /\ o
  BY <1>3 DEF Grant, Lookup
<1>4. CASE ~WriteGrant /\ Open /\ ~p /\ ~o /\ ~tlboperOn
  BY <1>4 DEF Grant, Lookup
<1>5. CASE ~WriteGrant /\ (~Open \/ (p /\ tlboperOn) \/ (~p /\ ~o /\ tlboperOn))
  BY <1>5 DEF Grant, Lookup
<1> QED
  BY <1>1, <1>2, <1>3, <1>4, <1>5

\* A cycle with its inputs
Inputs(issue, hit, report, held, ready) ==
  /\ report \in Report /\ hit \in Result
  /\ ready \in BOOLEAN /\ held \in BOOLEAN /\ (held => ~ready \/ pdeReq = {})
  /\ issue \in {"none"} \cup Lookup
  /\ Cycle(issue, hit, report, held, ready)

LEMMA NextInputs ==
  ASSUME Next
  PROVE  \E issue, hit, report, held, ready : Inputs(issue, hit, report, held, ready)
<1>1. PICK report \in Report, hit \in Result :
        \E ready \in (IF MissWaits THEN BOOLEAN ELSE {FALSE}) :
        \E held \in (IF pdeReq = {} \/ ready THEN {FALSE} ELSE BOOLEAN) :
        \E issue \in {"none"} \cup (IF LookupOpen THEN Lookup ELSE {}) :
          Cycle(issue, hit, report, held, ready)
  BY DEF Next
<1>2. PICK ready \in (IF MissWaits THEN BOOLEAN ELSE {FALSE}) :
        \E held \in (IF pdeReq = {} \/ ready THEN {FALSE} ELSE BOOLEAN) :
        \E issue \in {"none"} \cup (IF LookupOpen THEN Lookup ELSE {}) :
          Cycle(issue, hit, report, held, ready)
  BY <1>1
<1>3. PICK held \in (IF pdeReq = {} \/ ready THEN {FALSE} ELSE BOOLEAN) :
        \E issue \in {"none"} \cup (IF LookupOpen THEN Lookup ELSE {}) :
          Cycle(issue, hit, report, held, ready)
  BY <1>2
<1>4. PICK issue \in {"none"} \cup (IF LookupOpen THEN Lookup ELSE {}) :
        Cycle(issue, hit, report, held, ready)
  BY <1>3
<1>5. Inputs(issue, hit, report, held, ready)
  BY <1>1, <1>2, <1>3, <1>4 DEF Inputs
<1> QED
  BY <1>5

\* The access let in, the entry allocated and the walk completed in a cycle
Let(report, issue) == Grant(PtwArbReq(report), Requesting(JtlbCmplt) # {}, issue)
Allocated(hit) ==
  IF finalVld /\ final.type \in Lookup /\ ~hit
  THEN Alloc(final.type = "dtlb") ELSE {}
Done(report, issue) ==
  IF report.kind = "fault" \/ Let(report, issue) = "read" THEN report.walk ELSE {}
Oper(report, issue) == Let(report, issue) = "oper"
Wr == \E f \in Requesting(JtlbCmplt) : Writes(f, JtlbCmplt)

LEMMA Edges ==
  ASSUME NEW issue, NEW hit, NEW report, NEW held, NEW ready,
         Inputs(issue, hit, report, held, ready)
  PROVE  /\ MissBufEdge(Allocated(hit), Done(report, issue), PtwAbort, held, ready)
         /\ L2ArbEdge(Let(report, issue), Requesting(JtlbCmplt), Wr,
                      OperCmplt(Oper(report, issue), JtlbCmplt))
         /\ CtcqEdge
         /\ Cp0Edge(Oper(report, issue), JtlbCmplt)
         /\ TlbOperEdge(Oper(report, issue), JtlbCmplt, hit)
BY DEF Inputs, Cycle, Let, Allocated, Done, Oper, Wr

\* What was let in.
LEMMA LetFacts ==
  ASSUME NEW issue, NEW hit, NEW report, NEW held, NEW ready,
         Inputs(issue, hit, report, held, ready)
  PROVE  /\ Let(report, issue) \in {"write", "read", "oper", "none", "itlb", "dtlb"}
         /\ Let(report, issue) = "write" <=> WriteGrant
         /\ Let(report, issue) = "read" => Open /\ ~tlboperOn
         /\ Let(report, issue) = "oper" => Open /\ Requesting(JtlbCmplt) # {}
         /\ Let(report, issue) \in Lookup => Open /\ ~tlboperOn /\ Requesting(JtlbCmplt) = {}
BY GrantFacts DEF Inputs, Let

-----------------------------------------------------------------------------
(***************************************************************************)
(* The miss buffer: one walk for each miss.                                *)
(***************************************************************************)
LEMMA AllocatedFree ==
  ASSUME NEW hit
  PROVE  Allocated(hit) \subseteq MbEntry \ vld
BY DtlbDepthAssumption DEF Allocated, Alloc, MbEntry

LEMMA DoneWalks ==
  ASSUME NEW issue, NEW hit, NEW report, NEW held, NEW ready,
         Inputs(issue, hit, report, held, ready)
  PROVE  Done(report, issue) \subseteq walks
<1>1. report.walk \subseteq walks
  BY DEF Inputs, Report, NoReport
<1> QED
  BY <1>1 DEF Done

\* A request is made for a miss that has none.
LEMMA Requests ==
  ASSUME NEW ready, NEW hit, OneWalkPerMiss
  PROVE  /\ EntryGrant(ready) \subseteq vld \ sent
         /\ BypassGrant(ready, Allocated(hit)) \subseteq Allocated(hit)
         /\ EntryGrant(ready) \cap InPtw = {}
         /\ BypassGrant(ready, Allocated(hit)) \cap InPtw = {}
         /\ ~ready => EntryGrant(ready) = {} /\ BypassGrant(ready, Allocated(hit)) = {}
BY AllocatedFree DEF EntryGrant, BypassGrant, FirstRdy, Rdy, OneWalkPerMiss

LEMMA WalksStep ==
  ASSUME NEW issue, NEW hit, NEW report, NEW held, NEW ready,
         Inputs(issue, hit, report, held, ready), OneWalkPerMiss
  PROVE  OneWalkPerMiss'
<1> DEFINE alloc  == Allocated(hit)
           done   == Done(report, issue)
           entry  == EntryGrant(ready)
           bypass == BypassGrant(ready, alloc)
<1>1. /\ vld' = (vld \cup alloc) \ done
      /\ sent' = bypass \cup
           ((IF PtwAbort THEN {} ELSE (sent \cup entry) \ (done \cap vld)) \ alloc)
      /\ pdeReq' = IF PtwAbort THEN {}
                   ELSE IF entry \cup bypass # {} THEN entry \cup bypass
                   ELSE IF held THEN pdeReq ELSE {}
      /\ walks' = IF PtwAbort THEN {}
                  ELSE (walks \ done) \cup (IF held THEN {} ELSE pdeReq)
  BY Edges DEF MissBufEdge
<1>2. done \subseteq walks /\ alloc \cap vld = {}
  BY DoneWalks, AllocatedFree
<1>3. /\ entry \subseteq vld \ sent /\ bypass \subseteq alloc
      /\ entry \cap InPtw = {} /\ bypass \cap InPtw = {}
      /\ held => pdeReq = {} \/ entry \cup bypass = {}
  BY Requests DEF Inputs
<1>4. InPtw \subseteq vld /\ InPtw \subseteq sent /\ pdeReq \cap walks = {}
  BY DEF OneWalkPerMiss
<1> HIDE DEF alloc, done, entry, bypass
<1>5. CASE PtwAbort
  BY <1>1, <1>5 DEF OneWalkPerMiss, InPtw
<1>6. CASE ~PtwAbort
  <2>1. pdeReq' \cap walks' = {}
    BY <1>1, <1>3, <1>4, <1>6 DEF InPtw
  <2>2. pdeReq' \subseteq vld' \cap sent'
    BY <1>1, <1>2, <1>3, <1>4, <1>6 DEF InPtw
  <2>3. walks' \subseteq vld' \cap sent'
    BY <1>1, <1>2, <1>3, <1>4, <1>6 DEF InPtw
  <2> QED
    BY <2>1, <2>2, <2>3 DEF OneWalkPerMiss, InPtw
<1> QED
  BY <1>5, <1>6

-----------------------------------------------------------------------------
(***************************************************************************)
(* The miss buffer implements WalkService.                                 *)
(***************************************************************************)
LEMMA Single ==
  ASSUME NEW issue, NEW hit, NEW report, NEW held, NEW ready,
         Inputs(issue, hit, report, held, ready), TypeOK, OneWalkPerMiss
  PROVE  /\ Allocated(hit) \in Service!AtMostOne(MbEntry \ vld)
         /\ Done(report, issue) \in Service!AtMostOne(InPtw)
         /\ EntryGrant(ready) \cup BypassGrant(ready, Allocated(hit))
              \in Service!AtMostOne(MbEntry)
<1>1. MbEntry \subseteq Nat /\ vld \subseteq MbEntry
  BY DtlbDepthAssumption DEF MbEntry, TypeOK, MissBufTypeOK
<1>2. \A i, j \in Allocated(hit) : i = j
  <2>1. ASSUME NEW i \in Alloc(TRUE), NEW j \in Alloc(TRUE) PROVE i = j
    <3>1. /\ i \in 1 .. DtlbDepth /\ j \in 1 .. DtlbDepth
          /\ i \notin vld /\ j \notin vld
          /\ \A k \in 1 .. i - 1 : k \in vld
          /\ \A k \in 1 .. j - 1 : k \in vld
      BY <2>1, DtlbDepthAssumption DEF Alloc, MbEntry
    <3> QED
      BY <3>1, DtlbDepthAssumption
  <2>2. \A i, j \in Alloc(FALSE) : i = j
    BY DEF Alloc
  <2>3. Allocated(hit) \in {Alloc(TRUE), Alloc(FALSE), {}}
    BY DEF Allocated
  <2> QED
    BY <2>1, <2>2, <2>3
<1>3. \A i, j \in FirstRdy : i = j
  BY <1>1 DEF FirstRdy, Rdy
<1>4. report.walk = {} \/ \E w \in walks : report.walk = {w}
  BY DEF Inputs, Report, NoReport
<1>5. Allocated(hit) \subseteq MbEntry \ vld
  BY AllocatedFree
<1>6. EntryGrant(ready) = {} \/ BypassGrant(ready, Allocated(hit)) = {}
  BY DEF EntryGrant, BypassGrant, FirstRdy
<1>7. EntryGrant(ready) \subseteq FirstRdy /\ FirstRdy \subseteq MbEntry
  BY <1>1 DEF EntryGrant, FirstRdy, Rdy
<1>8. BypassGrant(ready, Allocated(hit)) \subseteq Allocated(hit)
  BY Requests
<1>9. ASSUME NEW S, NEW T, S \subseteq T, \A i, j \in S : i = j
      PROVE  S \in Service!AtMostOne(T)
  BY <1>9 DEF Service!AtMostOne
<1>10. Done(report, issue) \in Service!AtMostOne(InPtw)
  BY <1>4 DEF Done, InPtw, Service!AtMostOne
<1>11. LET begun == EntryGrant(ready) \cup BypassGrant(ready, Allocated(hit))
       IN  begun \subseteq MbEntry /\ \A i, j \in begun : i = j
  BY <1>2, <1>3, <1>5, <1>6, <1>7, <1>8
<1> QED
  BY <1>2, <1>5, <1>9, <1>10, <1>11

LEMMA ServiceStep ==
  ASSUME NEW issue, NEW hit, NEW report, NEW held, NEW ready,
         Inputs(issue, hit, report, held, ready), TypeOK, OneWalkPerMiss
  PROVE  Service!Next
<1> DEFINE alloc  == Allocated(hit)
           done   == Done(report, issue)
           entry  == EntryGrant(ready)
           bypass == BypassGrant(ready, alloc)
<1>1. /\ vld' = (vld \cup alloc) \ done
      /\ pdeReq' = IF PtwAbort THEN {}
                   ELSE IF entry \cup bypass # {} THEN entry \cup bypass
                   ELSE IF held THEN pdeReq ELSE {}
      /\ walks' = IF PtwAbort THEN {}
                  ELSE (walks \ done) \cup (IF held THEN {} ELSE pdeReq)
  BY Edges DEF MissBufEdge
<1>2. /\ alloc \in Service!AtMostOne(MbEntry \ vld)
      /\ done \in Service!AtMostOne(InPtw)
      /\ entry \cup bypass \in Service!AtMostOne(MbEntry)
  BY Single
<1>3. /\ entry \subseteq vld \ sent /\ bypass \subseteq alloc
      /\ entry \cap InPtw = {} /\ bypass \cap InPtw = {}
      /\ held => pdeReq = {} \/ entry \cup bypass = {}
      /\ done \subseteq walks /\ alloc \cap vld = {}
  BY Requests, DoneWalks, AllocatedFree DEF Inputs
<1>4. InPtw \subseteq vld /\ InPtw \subseteq sent /\ pdeReq \cap walks = {}
  BY DEF OneWalkPerMiss
<1> HIDE DEF alloc, done, entry, bypass
<1>5. CASE PtwAbort
  <2>1. InPtw' = {}
    BY <1>1, <1>5 DEF InPtw
  <2> QED
    BY <1>1, <1>2, <2>1 DEF Service!Next, Service!DropAll
<1>6. CASE ~PtwAbort
  <2>1. InPtw' = (InPtw \ done) \cup (entry \cup bypass)
    BY <1>1, <1>3, <1>4, <1>6 DEF InPtw
  <2>2. entry \cup bypass \in Service!AtMostOne(vld' \ InPtw)
    BY <1>1, <1>2, <1>3, <1>4 DEF Service!AtMostOne, InPtw
  <2> QED
    BY <1>1, <1>2, <2>1, <2>2 DEF Service!Next
<1> QED
  BY <1>5, <1>6

-----------------------------------------------------------------------------
(***************************************************************************)
(* The arbiter.                                                            *)
(***************************************************************************)
LEMMA RefillStep ==
  ASSUME NEW issue, NEW hit, NEW report, NEW held, NEW ready,
         Inputs(issue, hit, report, held, ready), TypeOK, Refill
  PROVE  Refill'
<1> DEFINE g == Let(report, issue)
           c == OperCmplt(Oper(report, issue), JtlbCmplt)
<1>1. /\ tlboperOn' = (~(tlboperOn /\ c) /\ (g = "oper" \/ tlboperOn))
      /\ ptwOn' = (~(ptwOn /\ g = "write") /\ (g = "read" \/ ptwOn))
      /\ wrReq1' = (g = "read")
      /\ wrReq2' = ((wrReq1 /\ ~wrReq2) \/ (wrReq2 /\ g # "write"))
      /\ raw' = IF g \in {"none", "write"} THEN NoAcc
                ELSE IF g = "oper" THEN Acc("oper", Requesting(JtlbCmplt), Wr)
                ELSE Acc(g, {}, FALSE)
      /\ finalVld' = (raw # NoAcc)
      /\ final' = IF raw = NoAcc THEN final ELSE raw
  BY Edges DEF L2ArbEdge, Oper
<1>2. /\ g = "write" <=> wrReq2 /\ ~tlboperOn /\ ptwOn
      /\ g = "read" => ~ptwOn /\ ~tlboperOn
      /\ g = "oper" => ~ptwOn
  BY LetFacts DEF WriteGrant, Open
<1>3. {tlboperOn, ptwOn, wrReq1, wrReq2, finalVld} \subseteq BOOLEAN
  BY DEF TypeOK, L2ArbTypeOK
<1>4. /\ ptwOn <=> wrReq1 \/ wrReq2
      /\ wrReq1 => raw.type = "read"
      /\ tlboperOn => ~ptwOn
  BY DEF Refill
<1> HIDE DEF g, c
<1>5. ptwOn' <=> wrReq1' \/ wrReq2'
  BY <1>1, <1>2, <1>3, <1>4
<1>6. wrReq1' => raw'.type = "read"
  BY <1>1 DEF Acc
<1>7. wrReq2' => finalVld' /\ final'.type = "read"
  <2>1. wrReq2' => wrReq1
    BY <1>1, <1>2, <1>3, <1>4
  <2>2. raw.type = "read" => raw # NoAcc
    BY DEF NoAcc, Acc
  <2> QED
    BY <1>1, <1>4, <2>1, <2>2
<1>8. tlboperOn' => ~ptwOn'
  BY <1>1, <1>2, <1>3, <1>4
<1> QED
  BY <1>5, <1>6, <1>7, <1>8 DEF Refill

LEMMA ArbTypes ==
  ASSUME NEW issue, NEW hit, NEW report, NEW held, NEW ready,
         Inputs(issue, hit, report, held, ready), TypeOK
  PROVE  L2ArbTypeOK(Fsm)'
<1> DEFINE g == Let(report, issue)
           A == [type : Lookup \cup {"none", "read", "oper"}, by : SUBSET Fsm, wr : BOOLEAN]
<1>1. /\ tlboperOn' \in BOOLEAN /\ ptwOn' \in BOOLEAN /\ wrReq1' \in BOOLEAN
      /\ wrReq2' \in BOOLEAN /\ finalVld' \in BOOLEAN /\ wbufFull' \in BOOLEAN
      /\ raw' = IF g \in {"none", "write"} THEN NoAcc
                ELSE IF g = "oper" THEN Acc("oper", Requesting(JtlbCmplt), Wr)
                ELSE Acc(g, {}, FALSE)
      /\ final' = IF raw = NoAcc THEN final ELSE raw
  BY Edges DEF L2ArbEdge
<1>2. raw \in A /\ final \in A
  BY DEF TypeOK, L2ArbTypeOK
<1>3. g \in {"write", "read", "oper", "none"} \cup Lookup
  BY LetFacts DEF Lookup
<1>4. Requesting(JtlbCmplt) \in SUBSET Fsm /\ Wr \in BOOLEAN
  BY DEF Requesting, Wr
<1> HIDE DEF g
<1>5. raw' \in A /\ final' \in A
  BY <1>1, <1>2, <1>3, <1>4 DEF NoAcc, Acc, Lookup
<1> QED
  BY <1>1, <1>5 DEF L2ArbTypeOK

LEMMA MissBufTypes ==
  ASSUME NEW issue, NEW hit, NEW report, NEW held, NEW ready,
         Inputs(issue, hit, report, held, ready), TypeOK, OneWalkPerMiss
  PROVE  MissBufTypeOK'
<1>1. /\ Allocated(hit) \subseteq MbEntry
      /\ Done(report, issue) \subseteq walks
      /\ EntryGrant(ready) \subseteq vld
      /\ BypassGrant(ready, Allocated(hit)) \subseteq Allocated(hit)
  BY AllocatedFree, DoneWalks, Requests
<1>2. vld \subseteq MbEntry /\ sent \subseteq MbEntry /\ pdeReq \subseteq MbEntry
      /\ walks \subseteq MbEntry
  BY DEF TypeOK, MissBufTypeOK
<1>3. MissBufEdge(Allocated(hit), Done(report, issue), PtwAbort, held, ready)
  BY Edges
<1>4. /\ vld' \subseteq MbEntry /\ sent' \subseteq MbEntry
      /\ pdeReq' \subseteq MbEntry /\ walks' \subseteq MbEntry
  BY <1>1, <1>2, <1>3 DEF MissBufEdge
<1>5. MbEntry' = MbEntry
  BY DEF MbEntry
<1> QED
  BY <1>4, <1>5 DEF MissBufTypeOK

-----------------------------------------------------------------------------
(***************************************************************************)
(* The machines.                                                           *)
(***************************************************************************)
LEMMA MoveStates ==
  ASSUME NEW f \in Fsm, NEW grant, NEW cmplt, NEW hit,
         st[f] \in StatesOf(f), st[f] # "idle"
  PROVE  Move(f, grant, cmplt, hit) \in StatesOf(f)
<1> USE DEF StatesOf, Move
<1>1. CASE f = "invasid"
  BY <1>1
<1>2. CASE f = "invall"
  BY <1>2
<1>3. CASE f = "invva"
  BY <1>3
<1>4. CASE f = "tlbwr"
  BY <1>4
<1>5. CASE f \in {"tlbp", "tlbr", "tlbwi"}
  BY <1>5
<1> QED
  BY <1>1, <1>2, <1>3, <1>4, <1>5 DEF Fsm, Cp0Fsm, LsuFsm

LEMMA FirstStates ==
  ASSUME NEW f \in Fsm
  PROVE  /\ First(f) \in StatesOf(f)
         /\ First(f) = IF f \in {"invasid", "invva"} THEN "rd"
                       ELSE IF f = "invall" THEN "wfc" ELSE "wfg"
BY DEF First, StatesOf, Fsm, Cp0Fsm, LsuFsm

LEMMA MachinesStep ==
  ASSUME NEW issue, NEW hit, NEW report, NEW held, NEW ready,
         Inputs(issue, hit, report, held, ready), TypeOK, Machines
  PROVE  Machines'
<1> SUFFICES ASSUME NEW f \in Fsm PROVE st'[f] \in StatesOf(f)
  BY DEF Machines, StatesOf
<1>1. st'[f] = IF st[f] # "idle" THEN Move(f, Oper(report, issue), JtlbCmplt, hit)
               ELSE IF Start(f) THEN First(f) ELSE "idle"
  BY Edges DEF TlbOperEdge
<1>2. "idle" \in StatesOf(f)
  BY DEF StatesOf, Fsm, Cp0Fsm, LsuFsm
<1>3. st[f] \in StatesOf(f)
  BY DEF Machines
<1> QED
  BY <1>1, <1>2, <1>3, MoveStates, FirstStates

LEMMA OperTypes ==
  ASSUME NEW issue, NEW hit, NEW report, NEW held, NEW ready,
         Inputs(issue, hit, report, held, ready), TypeOK, Machines
  PROVE  TlbOperTypeOK'
<1> DEFINE oper == Oper(report, issue)
<1>1. TlbOperEdge(oper, JtlbCmplt, hit) /\ CtcqEdge /\ Cp0Edge(oper, JtlbCmplt)
  BY Edges
<1> HIDE DEF oper
<1>2. st' \in [Fsm -> FsmState]
  <2>1. Machines'
    BY MachinesStep
  <2>2. \A f \in Fsm : StatesOf(f) \subseteq FsmState
    BY DEF StatesOf, FsmState, Fsm, Cp0Fsm, LsuFsm
  <2>3. st' = [f \in Fsm |-> st'[f]]
    BY <1>1 DEF TlbOperEdge
  <2> QED
    BY <2>1, <2>2, <2>3 DEF Machines, StatesOf
<1>3. cnt' \in 0 .. InvLast
  <2>1. cnt \in 0 .. InvLast
    BY DEF TypeOK, TlbOperTypeOK
  <2>2. CntDec(oper) => cnt # InvLast
    BY DEF CntDec, InvDone
  <2>3. cnt' = IF CntInit THEN 0 ELSE IF CntDec(oper) THEN cnt + 1 ELSE cnt
    BY <1>1 DEF TlbOperEdge
  <2> QED
    BY <2>1, <2>2, <2>3, InvLastAssumption
<1>4. lsuFlop' \in BOOLEAN /\ lsuCmplt' \in BOOLEAN /\ wtGrant' \in BOOLEAN
  BY <1>1 DEF TlbOperEdge
<1>5. lsuReq' \in LsuFsm \cup {"none"}
  BY <1>1 DEF CtcqEdge, TypeOK, TlbOperTypeOK
<1>6. cp0All' \in BOOLEAN /\ mcir' \subseteq Cp0Fsm
  <2>1. mcir \subseteq Cp0Fsm
    BY DEF TypeOK, TlbOperTypeOK
  <2>2. \E w \in SUBSET Cp0Fsm : RegsEdge(w, oper, JtlbCmplt)
    BY <1>1 DEF Cp0Edge
  <2>3. cp0All' \in BOOLEAN
    BY <1>1 DEF Cp0Edge
  <2> QED
    BY <2>1, <2>2, <2>3 DEF RegsEdge
<1> QED
  BY <1>2, <1>3, <1>4, <1>5, <1>6 DEF TlbOperTypeOK

-----------------------------------------------------------------------------
(***************************************************************************)
(* Operations one at a time.                                               *)
(***************************************************************************)
\* A machine asks and finishes only when it is out of its idle state, and goes
\* back to it when it finishes.
LEMMA OutOfIdle ==
  ASSUME NEW f \in Fsm, NEW grant, NEW cmplt
  PROVE  /\ Finish(f, grant, cmplt) => st[f] # "idle"
         /\ Req(f, cmplt) => st[f] # "idle"
BY DEF Finish, Req, Fsm, Cp0Fsm, LsuFsm

LEMMA MoveToIdle ==
  ASSUME NEW f \in Fsm, NEW grant, NEW cmplt, NEW hit,
         st[f] \in StatesOf(f), st[f] # "idle"
  PROVE  Move(f, grant, cmplt, hit) = "idle" <=> Finish(f, grant, cmplt)
<1> USE DEF StatesOf, Move
<1>1. CASE f = "invasid"
  BY <1>1
<1>2. CASE f = "invall"
  BY <1>2
<1>3. CASE f = "invva"
  BY <1>3
<1>4. CASE f = "tlbwr"
  BY <1>4
<1>5. CASE f \in {"tlbp", "tlbr", "tlbwi"}
  BY <1>5
<1> QED
  BY <1>1, <1>2, <1>3, <1>4, <1>5 DEF Fsm, Cp0Fsm, LsuFsm

\* Which machines are out of their idle state after a cycle.
LEMMA BusyAfter ==
  ASSUME NEW issue, NEW hit, NEW report, NEW held, NEW ready,
         Inputs(issue, hit, report, held, ready), Machines
  PROVE  /\ Busy' = (Busy \ Finishing(Oper(report, issue), JtlbCmplt)) \cup Starting
         /\ Finishing(Oper(report, issue), JtlbCmplt) \subseteq Busy
         /\ Requesting(JtlbCmplt) \subseteq Busy
         /\ Starting \cap Busy = {}
<1> DEFINE oper == Oper(report, issue)
<1>1. ASSUME NEW f \in Fsm
      PROVE  st'[f] # "idle" <=> (f \in Busy /\ ~Finish(f, oper, JtlbCmplt))
                                 \/ f \in Starting
  <2>1. st'[f] = IF st[f] # "idle" THEN Move(f, oper, JtlbCmplt, hit)
                 ELSE IF Start(f) THEN First(f) ELSE "idle"
    BY Edges DEF TlbOperEdge
  <2>2. CASE st[f] # "idle"
    BY <2>1, <2>2, MoveToIdle DEF Machines, Busy, Starting
  <2>3. CASE st[f] = "idle"
    BY <2>1, <2>3, FirstStates DEF Busy, Starting
  <2> QED
    BY <2>2, <2>3
<1> QED
  BY <1>1, OutOfIdle DEF Busy, Finishing, Requesting, Starting

LEMMA OneBusy ==
  ASSUME Turn
  PROVE  OneOperAtATime
BY DEF Turn, OneOperAtATime

\* Who starts, and that nothing runs then.
LEMMA StartAlone ==
  ASSUME Turn, NEW f \in Starting
  PROVE  /\ Busy = {} /\ ~lsuFlop
         /\ (f = lsuReq /\ LsuStart) \/ (f \in mcir /\ ~LsuOper)
         /\ LsuStart => f = lsuReq
<1>1. f \in Fsm /\ st[f] = "idle" /\ Start(f)
  BY DEF Starting
<1>2. ~cp0All /\ "tlbp" \notin mcir /\ \A g, h \in mcir : g = h
  BY DEF Turn
<1>3. (f = lsuReq /\ LsuStart) \/ (f \in mcir /\ ~LsuOper)
  <2>1. f \in mcir => f # "tlbp"
    BY <1>2
  <2>2. \/ lsuReq = f /\ LsuStart
        \/ f \in mcir /\ (f # "tlbp" => ~LsuOper)
    BY <1>1, <1>2 DEF Start
  <2> QED
    BY <2>1, <2>2
<1>4. CASE LsuStart
  BY <1>3, <1>4 DEF LsuStart, SmIdle, Turn
<1>5. CASE ~LsuStart
  <2>1. f \in mcir /\ ~LsuOper /\ f \notin Busy
    BY <1>1, <1>3, <1>5 DEF Busy
  <2>2. ~lsuFlop /\ Busy \subseteq mcir
    BY <2>1 DEF Turn
  <2> QED
    BY <1>2, <1>5, <2>1, <2>2
<1> QED
  BY <1>3, <1>4, <1>5

LEMMA Cp0After ==
  ASSUME NEW issue, NEW hit, NEW report, NEW held, NEW ready,
         Inputs(issue, hit, report, held, ready), Asks
  PROVE  /\ Asks'
         /\ ~RegsCmplt(Oper(report, issue), JtlbCmplt) => mcir \subseteq mcir'
         /\ ~cp0All /\ (\A f, g \in mcir : f = g) => \A f, g \in mcir' : f = g
<1> DEFINE oper == Oper(report, issue)
<1>1. Cp0Edge(oper, JtlbCmplt)
  BY Edges
<1>2. CASE mcir = {} /\ ~cp0All
  <2>1. PICK op \in Cp0Ops \cup {"none"} :
          cp0All' = (op = "all") /\ RegsEdge({op} \cap Cp0Fsm, oper, JtlbCmplt)
    BY <1>1, <1>2 DEF Cp0Edge
  <2>2. mcir' \subseteq {op} \cap Cp0Fsm
    BY <1>2, <2>1 DEF RegsEdge
  <2>3. "none" \notin Cp0Fsm /\ "none" # "all"
    BY DEF Cp0Fsm
  <2> QED
    BY <1>2, <2>1, <2>2, <2>3 DEF Asks
<1>3. CASE ~(mcir = {} /\ ~cp0All)
  <2>1. /\ cp0All' = (cp0All /\ ~Finish("invall", oper, JtlbCmplt))
        /\ mcir' = IF RegsCmplt(oper, JtlbCmplt) THEN {} ELSE mcir
    BY <1>1, <1>3 DEF Cp0Edge, RegsEdge
  <2> QED
    BY <2>1 DEF Asks
<1> QED
  BY <1>2, <1>3

\* While the LSU's operation runs none starts; with it starts at most one of CP0's.
LEMMA StartWithLsu ==
  ASSUME TypeOK, LsuTurn
  PROVE  /\ lsuFlop => Starting = {} /\ ~LsuStart
         /\ LsuStart => /\ Busy = {} /\ ~lsuFlop /\ lsuReq \in Starting /\ lsuReq \in LsuFsm
                        /\ Starting \subseteq {lsuReq, "tlbp", "invall"}
                        /\ "tlbp" \in Starting => "tlbp" \in mcir
                        /\ ~cp0All => Starting \subseteq {lsuReq, "tlbp"}
<1>1. lsuReq \in LsuFsm \cup {"none"} /\ mcir \subseteq Cp0Fsm
  BY DEF TypeOK, TlbOperTypeOK
<1>2. ASSUME lsuFlop PROVE Starting = {} /\ ~LsuStart
  <2>1. LsuOper /\ lsuReq \in Busy
    BY <1>2 DEF LsuTurn
  <2>2. ~SmIdle
    BY <2>1 DEF SmIdle
  <2>3. \A f \in Fsm : ~Start(f)
    BY <1>2, <2>1, <2>2 DEF Start, LsuStart
  <2> QED
    BY <2>2, <2>3 DEF Starting, LsuStart
<1>3. ASSUME LsuStart
      PROVE  /\ Busy = {} /\ ~lsuFlop /\ lsuReq \in Starting /\ lsuReq \in LsuFsm
             /\ Starting \subseteq {lsuReq, "tlbp", "invall"}
             /\ "tlbp" \in Starting => "tlbp" \in mcir
             /\ ~cp0All => Starting \subseteq {lsuReq, "tlbp"}
  <2>1. LsuOper /\ Busy = {}
    BY <1>3 DEF LsuStart, SmIdle
  <2>2. lsuReq \in LsuFsm /\ ~lsuFlop
    BY <1>1, <1>2, <1>3, <2>1 DEF LsuOper
  <2>3. lsuReq \in Starting
    BY <1>3, <2>1, <2>2 DEF Starting, Start, Busy, Fsm
  <2>4. \A f \in Starting : \/ f = lsuReq
                            \/ f = "invall" /\ cp0All
                            \/ f = "tlbp" /\ f \in mcir
    BY <2>1 DEF Starting, Start
  <2>5. "tlbp" # lsuReq
    BY <2>2 DEF LsuFsm
  <2> QED
    BY <2>1, <2>2, <2>3, <2>4, <2>5
<1> QED
  BY <1>2, <1>3

LEMMA LsuTurnStep ==
  ASSUME NEW issue, NEW hit, NEW report, NEW held, NEW ready,
         Inputs(issue, hit, report, held, ready), TypeOK, Machines, LsuTurn
  PROVE  /\ LsuTurn'
         /\ lsuFlop' => (LsuStart \/ lsuFlop) /\ lsuReq' = lsuReq
         /\ lsuFlop' /\ lsuFlop =>
              /\ Finishing(Oper(report, issue), JtlbCmplt) \cap LsuFsm = {}
              /\ Finishing(Oper(report, issue), JtlbCmplt) \subseteq {"tlbp"}
<1> DEFINE oper == Oper(report, issue)
           fin  == Finishing(oper, JtlbCmplt)
<1>1. /\ lsuFlop' = (LsuStart \/ (lsuFlop /\ ~LsuOperCmplt(oper, JtlbCmplt)))
      /\ lsuCmplt' = (lsuFlop /\ LsuOperCmplt(oper, JtlbCmplt))
  BY Edges DEF TlbOperEdge
<1>2. Busy' = (Busy \ fin) \cup Starting /\ fin \subseteq Busy
  BY BusyAfter
<1>3. /\ lsuFlop => Starting = {} /\ ~LsuStart
      /\ LsuStart => /\ Busy = {} /\ ~lsuFlop /\ lsuReq \in Starting
                     /\ Starting \subseteq {lsuReq, "tlbp", "invall"}
  BY StartWithLsu
<1>4. lsuFlop \/ LsuStart => LsuOper /\ ~lsuCmplt
  BY DEF LsuTurn, LsuStart
<1>5. LsuOper /\ ~lsuCmplt => lsuReq' = lsuReq
  BY Edges DEF CtcqEdge
<1>6. lsuFlop /\ lsuFlop' => fin \cap LsuFsm = {}
  BY <1>1, <1>3 DEF LsuOperCmplt
<1>7. lsuFlop => lsuReq \in LsuFsm
  BY DEF LsuTurn, LsuOper, TypeOK, TlbOperTypeOK
<1>8. lsuFlop /\ lsuFlop' => fin \subseteq {"tlbp"}
  BY <1>2, <1>6, <1>7 DEF LsuTurn, LsuFsm
<1>9. lsuFlop' => (LsuStart \/ lsuFlop) /\ lsuReq' = lsuReq
  BY <1>1, <1>4, <1>5
<1>10. ASSUME lsuFlop'
       PROVE  LsuOper' /\ ~lsuCmplt' /\ lsuReq' \in Busy' /\ Busy' \subseteq {lsuReq', "tlbp", "invall"}
  <2>1. CASE LsuStart
    BY <1>1, <1>2, <1>3, <1>4, <1>9, <1>10, <2>1 DEF LsuOper
  <2>2. CASE lsuFlop
    <3>1. ~lsuCmplt'
      BY <1>1, <1>3, <1>10, <2>2
    <3>2. lsuReq \notin fin
      BY <1>6, <1>7, <1>10, <2>2
    <3> QED
      BY <1>2, <1>3, <1>4, <1>9, <1>10, <2>2, <3>1, <3>2 DEF LsuTurn, LsuOper
  <2> QED
    BY <1>9, <1>10, <2>1, <2>2
<1>11. lsuCmplt' => LsuOper' /\ ~lsuFlop'
  BY <1>1, <1>3, <1>4, <1>5 DEF LsuOper
<1> QED
  BY <1>6, <1>8, <1>9, <1>10, <1>11 DEF LsuTurn

\* What is let in while an operation asks or holds the arbiter.
LEMMA NoLookup ==
  ASSUME NEW issue, NEW hit, NEW report, NEW held, NEW ready,
         Inputs(issue, hit, report, held, ready),
         tlboperOn \/ Requesting(JtlbCmplt) # {}
  PROVE  raw'.type \notin Lookup
<1>1. Let(report, issue) \notin Lookup
  BY LetFacts
<1>2. raw' = NoAcc \/ raw' = Acc("oper", Requesting(JtlbCmplt), Wr)
      \/ raw' = Acc(Let(report, issue), {}, FALSE)
  BY Edges DEF L2ArbEdge
<1> QED
  BY <1>1, <1>2 DEF Acc, NoAcc, Lookup

LEMMA LsuPathStep ==
  ASSUME NEW issue, NEW hit, NEW report, NEW held, NEW ready,
         Inputs(issue, hit, report, held, ready), TypeOK, Machines, LsuTurn, LsuPath
  PROVE  LsuPath'
<1> DEFINE oper == Oper(report, issue)
           fin  == Finishing(oper, JtlbCmplt)
<1>1. /\ lsuFlop' = (LsuStart \/ (lsuFlop /\ ~LsuOperCmplt(oper, JtlbCmplt)))
      /\ lsuCmplt' = (lsuFlop /\ LsuOperCmplt(oper, JtlbCmplt))
      /\ CntInit => cnt' = 0
      /\ \A f \in Fsm : st'[f] = IF st[f] # "idle" THEN Move(f, oper, JtlbCmplt, hit)
                                 ELSE IF Start(f) THEN First(f) ELSE "idle"
  BY Edges DEF TlbOperEdge
<1>2. {"tlbp", "invasid", "invva", "invall"} \subseteq Fsm
  BY DEF Fsm, Cp0Fsm, LsuFsm
<1>3. CASE LsuStart /\ ~lsuFlop
  <2>1. Busy = {}
    BY <1>3, StartWithLsu
  <2>2. /\ st'["tlbp"] \in {"idle", "wfg"} /\ st'["invasid"] \in {"idle", "rd"}
        /\ st'["invva"] \in {"idle", "rd"}
    BY <1>1, <1>2, <2>1 DEF Busy, First
  <2>3. st'["invall"] = "wfc" => "invall" \in Starting
    BY <1>1, <1>2, <2>1 DEF Busy, Starting
  <2>4. st'["invall"] = "wfc" => ~(cnt' > 0)
    BY <1>1, <2>3 DEF CntInit
  <2>5. ~lsuCmplt'
    BY <1>1, <1>3
  <2> QED
    BY <2>2, <2>4, <2>5 DEF LsuPath
<1>4. CASE lsuFlop /\ lsuFlop'
  <2>1. Starting = {} /\ fin \subseteq {"tlbp"}
    BY <1>4, StartWithLsu, LsuTurnStep
  <2>2. ~lsuCmplt'
    BY <1>1, <1>4, StartWithLsu
  <2>3. \A f \in Fsm : st'[f] = IF st[f] # "idle" THEN Move(f, oper, JtlbCmplt, hit)
                                ELSE "idle"
    BY <1>1, <2>1 DEF Starting
  <2>4. tlboperOn' <=> ~(tlboperOn /\ fin # {}) /\ (oper \/ tlboperOn)
    <3>1. tlboperOn' = (~(tlboperOn /\ OperCmplt(oper, JtlbCmplt))
                         /\ (Let(report, issue) = "oper" \/ tlboperOn))
      BY Edges DEF L2ArbEdge
    <3> QED
      BY <3>1 DEF Oper, OperCmplt
  <2>5. fin # {} => st["tlbp"] = "wfc" /\ JtlbCmplt
    BY <2>1 DEF Finishing, Finish
  <2>6. ~Finish("invasid", oper, JtlbCmplt) /\ ~Finish("invva", oper, JtlbCmplt)
    BY <1>2, <2>1 DEF Finishing
  <2>7. /\ st["invasid"] \in {"idle", "rd", "wfc", "wt", "nwt"}
        /\ st["invva"] \in {"idle", "rd", "cmp", "wr", "wt", "cmplt"}
        /\ st["tlbp"] \in {"idle", "wfg", "wfc"}
    BY <1>2 DEF Machines, StatesOf
  <2>8. st'["invasid"] = IF st["invasid"] # "idle" THEN Move("invasid", oper, JtlbCmplt, hit)
                         ELSE "idle"
    BY <1>2, <2>3
  <2>9. st'["invva"] = IF st["invva"] # "idle" THEN Move("invva", oper, JtlbCmplt, hit)
                       ELSE "idle"
    BY <1>2, <2>3
  <2>10. st'["tlbp"] = IF st["tlbp"] # "idle" THEN Move("tlbp", oper, JtlbCmplt, hit)
                       ELSE "idle"
    BY <1>2, <2>3
  <2>11. /\ st'["invasid"] = "idle" => st["invasid"] = "idle"
         /\ st'["invasid"] = "rd"  => \/ st["invasid"] = "rd" /\ ~oper
                                      \/ st["invasid"] \in {"wt", "nwt"}
         /\ st'["invasid"] = "wfc" => \/ st["invasid"] = "wfc" /\ ~JtlbCmplt
                                      \/ st["invasid"] = "rd" /\ oper
         /\ st'["invasid"] \in {"wt", "nwt"} => \/ st["invasid"] = "wfc" /\ JtlbCmplt
                                                \/ st["invasid"] = "wt"
         /\ st["invasid"] = "idle" => st'["invasid"] = "idle"
         /\ st["invasid"] = "rd" => st'["invasid"] = IF oper THEN "wfc" ELSE "rd"
         /\ st["invasid"] = "wfc" /\ ~JtlbCmplt => st'["invasid"] = "wfc"
    BY <2>6, <2>7, <2>8 DEF Move
  <2>12. /\ st["invva"] = "idle" => st'["invva"] = "idle"
         /\ st["invva"] = "rd" => st'["invva"] = IF oper THEN "cmp" ELSE "rd"
         /\ st["invva"] = "cmp" /\ ~JtlbCmplt => st'["invva"] = "cmp"
         /\ st'["invva"] = "cmp" => \/ st["invva"] = "cmp" /\ ~JtlbCmplt
                                    \/ st["invva"] = "rd" /\ oper
         /\ st'["invva"] = "wt" => \/ st["invva"] = "wt"
                                   \/ st["invva"] = "wr" /\ oper
         /\ st'["invva"] = "cmplt" => st["invva"] \in {"cmp", "wt"}
    BY <2>6, <2>7, <2>9 DEF Move, Finish
  <2>13. /\ st'["tlbp"] = "wfg" => st["tlbp"] = "wfg" /\ ~oper
         /\ st'["tlbp"] = "wfc" => \/ st["tlbp"] = "wfg" /\ oper
                                   \/ st["tlbp"] = "wfc" /\ ~JtlbCmplt
    BY <2>7, <2>10 DEF Move, Finish
  <2>14. /\ st["tlbp"] = "wfg" => st["invasid"] \in {"idle", "rd"} /\ st["invva"] \in {"idle", "rd"}
         /\ st["tlbp"] = "wfc" => st["invasid"] \in {"idle", "wfc"} /\ st["invva"] \in {"idle", "cmp"}
         /\ st["invasid"] = "wfc" \/ st["invva"] \in {"cmp", "wt"} => tlboperOn
    BY <1>4 DEF LsuPath
  <2>15. st'["tlbp"] = "wfg" => st'["invasid"] \in {"idle", "rd"} /\ st'["invva"] \in {"idle", "rd"}
    BY <2>11, <2>12, <2>13, <2>14
  <2>16. st'["tlbp"] = "wfc" => st'["invasid"] \in {"idle", "wfc"} /\ st'["invva"] \in {"idle", "cmp"}
    BY <2>11, <2>12, <2>13, <2>14
  <2>17. st'["invasid"] = "wfc" \/ st'["invva"] \in {"cmp", "wt"} => tlboperOn'
    <3>1. st'["invasid"] = "wfc" => tlboperOn'
      BY <2>4, <2>5, <2>11, <2>14
    <3>2. st'["invva"] \in {"cmp", "wt"} => tlboperOn'
      BY <2>4, <2>5, <2>12, <2>14
    <3> QED
      BY <3>1, <3>2
  <2>18. st["invasid"] = "wt" \/ st["invall"] = "wfc" => Requesting(JtlbCmplt) # {}
    BY <1>2 DEF Requesting, Req
  <2>19. st'["invasid"] \in {"wt", "nwt"} \/ st'["invva"] = "cmplt" => raw'.type \notin Lookup
    BY <2>11, <2>12, <2>14, <2>18, NoLookup
  <2>20. st'["invall"] = "wfc" => raw'.type \notin Lookup
    <3>1. st'["invall"] = "wfc" => st["invall"] # "idle"
      BY <1>2, <2>3
    <3>2. st["invall"] # "idle" => st["invall"] = "wfc"
      BY <1>2 DEF Machines, StatesOf
    <3> QED
      BY <2>18, <3>1, <3>2, NoLookup
  <2> QED
    BY <2>2, <2>15, <2>16, <2>17, <2>19, <2>20 DEF LsuPath
<1>5. CASE lsuFlop /\ ~lsuFlop'
  <2>1. ASSUME NEW f \in LsuFsm, Finish(f, oper, JtlbCmplt) PROVE raw.type \notin Lookup
    <3>1. CASE f = "invasid"
      BY <1>5, <2>1, <3>1 DEF Finish, LsuPath
    <3>2. CASE f = "invva"
      BY <1>5, <2>1, <3>2 DEF Finish, LsuPath
    <3>3. CASE f = "invall"
      <4>1. st["invall"] = "wfc" /\ cnt > 0
        BY <2>1, <3>3, InvLastAssumption DEF Finish, InvDone
      <4> QED
        BY <1>5, <4>1 DEF LsuPath
    <3> QED
      BY <3>1, <3>2, <3>3 DEF LsuFsm
  <2>2. lsuCmplt' => raw.type \notin Lookup
    BY <1>1, <2>1 DEF LsuOperCmplt, Finishing
  <2>3. finalVld' => final' = raw
    BY Edges DEF L2ArbEdge
  <2> QED
    BY <1>5, <2>2, <2>3 DEF LsuPath
<1>6. CASE ~lsuFlop /\ ~LsuStart
  BY <1>1, <1>6 DEF LsuPath
<1>7. lsuFlop \in BOOLEAN /\ lsuFlop' \in BOOLEAN
  BY <1>1 DEF TypeOK, TlbOperTypeOK
<1> QED
  BY <1>3, <1>4, <1>5, <1>6, <1>7

LEMMA TurnsStep ==
  ASSUME NEW issue, NEW hit, NEW report, NEW held, NEW ready,
         Inputs(issue, hit, report, held, ready),
         NoWire, TypeOK, Machines, Asks, LsuTurn, Turns
  PROVE  Turns'
<1> DEFINE oper == Oper(report, issue)
           fin  == Finishing(oper, JtlbCmplt)
<1>0. ~cp0All
  BY DEF Asks, NoWire
<1>1. /\ lsuFlop' = (LsuStart \/ (lsuFlop /\ ~LsuOperCmplt(oper, JtlbCmplt)))
      /\ lsuCmplt' = (lsuFlop /\ LsuOperCmplt(oper, JtlbCmplt))
  BY Edges DEF TlbOperEdge
<1>2. Busy' = (Busy \ fin) \cup Starting /\ fin \subseteq Busy /\ Starting \cap Busy = {}
  BY BusyAfter
<1>3. /\ ~RegsCmplt(oper, JtlbCmplt) => mcir \subseteq mcir'
      /\ \A f, g \in mcir' : f = g
  BY <1>0, Cp0After DEF Turns
<1>4. lsuFlop' => lsuReq' = lsuReq
  BY LsuTurnStep
<1>5. CASE lsuFlop
  <2>1. Starting = {} /\ ~LsuStart /\ lsuReq \in Busy /\ lsuReq \in LsuFsm
    BY <1>5, StartWithLsu DEF LsuTurn, LsuOper, TypeOK, TlbOperTypeOK
  <2>2. mcir \subseteq mcir'
    BY <1>3, <1>5 DEF RegsCmplt
  <2>3. Busy \subseteq {lsuReq} \cup ({"tlbp"} \cap mcir) /\ "tlbp" \notin LsuFsm
    BY <1>5 DEF Turns, LsuFsm
  <2>4. LsuOperCmplt(oper, JtlbCmplt) <=> lsuReq \in fin
    BY <1>2, <2>1, <2>3 DEF LsuOperCmplt
  <2>5. CASE lsuReq \in fin
    BY <1>1, <1>2, <1>3, <1>5, <2>1, <2>2, <2>3, <2>4, <2>5 DEF Turns
  <2>6. CASE lsuReq \notin fin
    BY <1>1, <1>2, <1>3, <1>4, <1>5, <2>1, <2>2, <2>3, <2>4, <2>6 DEF Turns
  <2> QED
    BY <2>5, <2>6
<1>6. CASE LsuStart /\ ~lsuFlop
  <2>1. Busy = {} /\ Starting \subseteq {lsuReq} \cup ({"tlbp"} \cap mcir)
    BY <1>0, <1>6, StartWithLsu
  <2>2. mcir \subseteq mcir'
    BY <1>2, <1>3, <2>1 DEF RegsCmplt, OperCmplt
  <2>3. lsuFlop' /\ ~lsuCmplt'
    BY <1>1, <1>6
  <2> QED
    BY <1>2, <1>3, <1>4, <2>1, <2>2, <2>3 DEF Turns
<1>7. CASE ~LsuStart /\ ~lsuFlop
  <2>1. ~lsuFlop' /\ ~lsuCmplt'
    BY <1>1, <1>7
  <2>2. Busy \subseteq mcir /\ Starting \subseteq mcir
    BY <1>0, <1>7 DEF Turns, Starting, Start
  <2>3. Busy' \subseteq mcir'
    <3>1. CASE fin = {}
      <4>1. ~RegsCmplt(oper, JtlbCmplt)
        BY <3>1 DEF RegsCmplt, OperCmplt
      <4> QED
        BY <1>2, <1>3, <2>2, <4>1
    <3>2. CASE fin # {}
      <4>1. \A f, g \in mcir : f = g
        BY DEF Turns
      <4>2. Busy \ fin = {} /\ Starting = {}
        BY <1>2, <2>2, <3>2, <4>1
      <4> QED
        BY <1>2, <4>2
    <3> QED
      BY <3>1, <3>2
  <2> QED
    BY <1>3, <2>1, <2>3 DEF Turns
<1>8. lsuFlop \in BOOLEAN
  BY DEF TypeOK, TlbOperTypeOK
<1> QED
  BY <1>5, <1>6, <1>7, <1>8

\* Without a probe one operation runs at a time.
LEMMA TurnWithoutProbe ==
  Cp0Serial /\ Asks /\ LsuTurn /\ Turns => Turn
<1> SUFFICES ASSUME Cp0Serial, Asks, LsuTurn, Turns PROVE Turn
  OBVIOUS
<1>1. ~cp0All /\ "tlbp" \notin mcir
  BY DEF Asks, Cp0Serial
<1>2. lsuCmplt => Busy = {}
  BY <1>1 DEF Turns, LsuTurn
<1> QED
  BY <1>1, <1>2 DEF Turns, LsuTurn, Turn

-----------------------------------------------------------------------------
(***************************************************************************)
(* The operation that runs has the L2 TLB to itself.                       *)
(***************************************************************************)
\* A machine that runs runs alone: what it lets in is its own access.
LEMMA Alone ==
  ASSUME Turn, NEW f \in Busy
  PROVE  Busy = {f} /\ Starting = {} /\ Requesting(JtlbCmplt) \subseteq {f}
<1>1. Busy = {f}
  BY OneBusy DEF OneOperAtATime
<1>2. Starting = {}
  BY <1>1, StartAlone
<1>3. Requesting(JtlbCmplt) \subseteq {f}
  BY <1>1, OutOfIdle DEF Requesting, Busy
<1> QED
  BY <1>1, <1>2, <1>3

\* What happens to the machine that runs, and to the pipeline, in a cycle.
LEMMA Runs ==
  ASSUME NEW issue, NEW hit, NEW report, NEW held, NEW ready,
         Inputs(issue, hit, report, held, ready), Turn, NEW f \in Busy
  PROVE  /\ st'[f] = Move(f, Oper(report, issue), JtlbCmplt, hit)
         /\ Oper(report, issue) =>
              /\ Req(f, JtlbCmplt)
              /\ raw' = Acc("oper", {f}, Writes(f, JtlbCmplt))
<1>1. st'[f] = Move(f, Oper(report, issue), JtlbCmplt, hit)
  BY Edges DEF TlbOperEdge, Busy
<1>2. ASSUME Oper(report, issue)
      PROVE  Req(f, JtlbCmplt) /\ raw' = Acc("oper", {f}, Writes(f, JtlbCmplt))
  <2>1. Requesting(JtlbCmplt) = {f}
    BY <1>2, Alone, LetFacts DEF Oper
  <2>2. raw' = Acc("oper", {f}, Wr)
    BY <1>2, <2>1, Edges DEF L2ArbEdge, Oper
  <2>3. Wr = Writes(f, JtlbCmplt)
    BY <2>1 DEF Wr, Writes
  <2> QED
    BY <2>1, <2>2, <2>3 DEF Requesting
<1> QED
  BY <1>1, <1>2

\* While an operation holds the arbiter only its own accesses enter.
LEMMA Quiet ==
  ASSUME NEW issue, NEW hit, NEW report, NEW held, NEW ready,
         Inputs(issue, hit, report, held, ready), tlboperOn, ~Oper(report, issue)
  PROVE  /\ raw' = NoAcc
         /\ final' = IF raw = NoAcc THEN final ELSE raw
         /\ finalVld' = (raw # NoAcc)
<1>1. Let(report, issue) = "none"
  BY LetFacts DEF WriteGrant, Oper, Lookup
<1> QED
  BY <1>1, Edges DEF L2ArbEdge

\* What enters when no operation does.
LEMMA NotOper ==
  ASSUME NEW issue, NEW hit, NEW report, NEW held, NEW ready,
         Inputs(issue, hit, report, held, ready), ~Oper(report, issue)
  PROVE  raw'.type # "oper"
<1>1. raw' = NoAcc \/ raw' = Acc(Let(report, issue), {}, FALSE)
  BY Edges DEF L2ArbEdge, Oper
<1> QED
  BY <1>1 DEF Oper, Acc, NoAcc

\* A machine finishes past its first grant.
LEMMA FinishPast ==
  ASSUME NEW f \in Fsm, NEW grant, NEW cmplt, Finish(f, grant, cmplt)
  PROVE  Past(f)
<1> USE DEF Finish, Past, InvDone
<1>1. CASE f = "invall"
  BY <1>1, InvLastAssumption
<1>2. CASE f \in {"invasid", "invva"}
  BY <1>2
<1>3. CASE f = "tlbwr"
  BY <1>3
<1>4. CASE f \in {"tlbp", "tlbr", "tlbwi"}
  BY <1>4
<1> QED
  BY <1>1, <1>2, <1>3, <1>4 DEF Fsm, Cp0Fsm, LsuFsm

LEMMA HoldsStep ==
  ASSUME NEW issue, NEW hit, NEW report, NEW held, NEW ready,
         Inputs(issue, hit, report, held, ready),
         TypeOK, Machines, Turn, Holds
  PROVE  Holds'
<1> DEFINE oper == Oper(report, issue)
           fin  == Finishing(oper, JtlbCmplt)
<1>1. tlboperOn' <=> ~(tlboperOn /\ fin # {}) /\ (oper \/ tlboperOn)
  <2>1. tlboperOn' = (~(tlboperOn /\ OperCmplt(oper, JtlbCmplt))
                       /\ (Let(report, issue) = "oper" \/ tlboperOn))
    BY Edges DEF L2ArbEdge
  <2> QED
    BY <2>1 DEF Oper, OperCmplt
<1>2. Busy' = (Busy \ fin) \cup Starting /\ fin \subseteq Busy
  BY BusyAfter
<1>3. \A f \in fin : f \in Fsm /\ Past(f)
  BY FinishPast DEF Finishing
<1>4. \A f \in Fsm : Past(f) => tlboperOn
  BY DEF Holds
<1>5. ASSUME NEW f \in Fsm, Past(f)' PROVE tlboperOn'
  <2>1. f \in Busy' /\ st'[f] # "idle"
    BY <1>5 DEF Past, Busy
  <2>2. CASE f \in Busy
    <3>1. fin = {} /\ ~Finish(f, oper, JtlbCmplt)
      BY <1>2, <2>1, <2>2, Alone DEF Finishing
    <3>2. st'[f] = Move(f, oper, JtlbCmplt, hit)
      BY <2>2, Runs
    <3>3. Past(f) \/ oper
      <4>1. st[f] \in StatesOf(f) /\ st[f] # "idle"
        BY <2>2 DEF Machines, Busy
      <4>2. CASE f = "invall"
        <5>1. st[f] = "wfc"
          BY <4>1, <4>2 DEF StatesOf
        <5>2. \A g \in Fsm : g # f => st[g] = "idle"
          BY <2>2, Alone DEF Busy
        <5>3. CntDec(oper) => oper
          BY <4>2, <5>2 DEF CntDec, Fsm, LsuFsm
        <5>4. cnt' > 0 => cnt > 0 \/ oper
          <6>1. cnt' = IF CntInit THEN 0 ELSE IF CntDec(oper) THEN cnt + 1 ELSE cnt
            BY Edges DEF TlbOperEdge
          <6> QED
            BY <5>3, <6>1
        <5>5. st'[f] = "wfc" => cnt' > 0
          BY <1>5, <4>2 DEF Past
        <5>6. st'[f] = "wfc"
          BY <3>1, <3>2, <4>2, <5>1 DEF Move
        <5> QED
          BY <5>1, <5>4, <5>5, <5>6 DEF Past
      <4>3. CASE f # "invall"
        <5>1. CASE Past(f)
          BY <5>1
        <5>2. CASE ~Past(f)
          <6>1. st[f] \in {"wfg", "rd"}
            BY <4>1, <4>3, <5>2 DEF Past, StatesOf
          <6>2. oper \/ st'[f] = st[f]
            BY <3>1, <3>2, <6>1 DEF Move
          <6> QED
            BY <1>5, <6>1, <6>2 DEF Past
        <5> QED
          BY <5>1, <5>2
      <4> QED
        BY <4>2, <4>3
    <3> QED
      BY <1>1, <1>4, <3>1, <3>3
  <2>3. CASE f \notin Busy
    <3>1. f \in Starting /\ st'[f] = First(f)
      BY <1>2, <2>1, <2>3, Edges DEF TlbOperEdge, Starting
    <3>2. f = "invall" /\ st'[f] = "wfc"
      BY <1>5, <3>1, FirstStates DEF Past
    <3>3. CntInit
      BY <3>1, <3>2 DEF CntInit
    <3>4. cnt' = 0
      BY <3>3, Edges DEF TlbOperEdge
    <3> QED
      BY <1>5, <3>2, <3>4 DEF Past
  <2> QED
    BY <2>2, <2>3
<1>6. Busy' = {} => ~tlboperOn'
  <2>1. CASE Busy = {}
    <3>1. ~tlboperOn /\ Requesting(JtlbCmplt) = {}
      BY <2>1, BusyAfter DEF Holds
    <3>2. ~oper
      BY <3>1, LetFacts DEF Oper
    <3> QED
      BY <1>1, <3>1, <3>2
  <2>2. CASE Busy # {}
    BY <1>1, <1>2, <1>3, <1>4, <2>2
  <2> QED
    BY <2>1, <2>2
<1>7. tlboperOn' => raw'.type \notin Lookup
  <2>1. ASSUME tlboperOn' PROVE Let(report, issue) \notin Lookup
    BY <1>1, <2>1, LetFacts DEF Oper, Lookup
  <2>2. raw' = NoAcc \/ raw' = Acc("oper", Requesting(JtlbCmplt), Wr)
        \/ raw' = Acc(Let(report, issue), {}, FALSE)
    BY Edges DEF L2ArbEdge
  <2> QED
    BY <2>1, <2>2 DEF Acc, NoAcc, Lookup
<1> QED
  BY <1>5, <1>6, <1>7 DEF Holds

\* A read enters the first stage, and moves on to the second one alone.
LEMMA ReadEnters ==
  ASSUME NEW issue, NEW hit, NEW report, NEW held, NEW ready,
         Inputs(issue, hit, report, held, ready), Turn,
         NEW f \in Busy, Oper(report, issue), ~Writes(f, JtlbCmplt)
  PROVE  /\ raw' = Own(f)
         /\ JtlbCmplt' => raw.type = "oper" /\ final' = raw
<1>1. raw' = Acc("oper", {f}, Writes(f, JtlbCmplt))
  BY Runs
<1>2. raw' = Own(f)
  BY <1>1 DEF Own, Writes
<1>3. finalVld' => final' = raw
  BY Edges DEF L2ArbEdge
<1> QED
  BY <1>2, <1>3 DEF JtlbCmplt

LEMMA ReadMoves ==
  ASSUME NEW issue, NEW hit, NEW report, NEW held, NEW ready,
         Inputs(issue, hit, report, held, ready),
         tlboperOn, ~Oper(report, issue), NEW f, Reading(f), ~JtlbCmplt
  PROVE  Reading(f)' /\ ~final'.wr
<1>1. raw = Own(f)
  BY DEF Reading, JtlbCmplt, Own, Acc
<1>2. raw # NoAcc
  BY <1>1 DEF Own, Acc, NoAcc
<1>3. raw' = NoAcc /\ final' = Own(f) /\ finalVld'
  BY <1>1, <1>2, Quiet
<1> QED
  BY <1>3 DEF Reading, Own, Acc

LEMMA ReadStays ==
  ASSUME NEW issue, NEW hit, NEW report, NEW held, NEW ready,
         Inputs(issue, hit, report, held, ready),
         tlboperOn, ~Oper(report, issue), NEW f,
         Found(f) \/ (Reading(f) /\ JtlbCmplt /\ ~final.wr)
  PROVE  Found(f)'
<1>1. raw = NoAcc /\ final = Own(f)
  BY DEF Reading, Found, OwnWrite, Acc
<1> QED
  BY <1>1, Quiet DEF Found, Own

\* A machine that reads before it writes does not write meanwhile.
LEMMA ReadsNotWrites ==
  /\ st["tlbwr"] = "wfg" => ~Writes("tlbwr", JtlbCmplt)
  /\ st["invasid"] = "rd" => ~Writes("invasid", JtlbCmplt)
  /\ st["invva"] = "rd" => ~Writes("invva", JtlbCmplt)
BY DEF Writes, WritesBack

LEMMA StartQuiet ==
  ASSUME NEW issue, NEW hit, NEW report, NEW held, NEW ready,
         Inputs(issue, hit, report, held, ready), Machines, Turn, Starting # {}
  PROVE  ~Oper(report, issue)
<1>1. Busy = {}
  BY StartAlone
<1>2. Requesting(JtlbCmplt) = {}
  BY <1>1, BusyAfter
<1> QED
  BY <1>2, LetFacts DEF Oper

LEMMA TlbwrReads ==
  ASSUME NEW issue, NEW hit, NEW report, NEW held, NEW ready,
         Inputs(issue, hit, report, held, ready),
         TypeOK, Machines, Turn, Holds, Reads
  PROVE  /\ st'["tlbwr"] = "wfg" => raw'.type # "oper"
         /\ st'["tlbwr"] = "tag" => Reading("tlbwr")' /\ (JtlbCmplt' => ~final'.wr)
         /\ st'["tlbwr"] = "wfc" /\ ~wtGrant' => Found("tlbwr")'
<1> DEFINE oper == Oper(report, issue)
           f    == "tlbwr"
<1>1. CASE f \notin Busy
  <2>1. st'[f] # "idle" => f \in Starting /\ st'[f] = "wfg"
    BY <1>1, Edges, FirstStates DEF TlbOperEdge, Busy, Starting, Fsm, Cp0Fsm
  <2> QED
    BY <2>1, StartQuiet, NotOper
<1>2. CASE f \in Busy
  <2>1. st'[f] = Move(f, oper, JtlbCmplt, hit) /\ (oper => Req(f, JtlbCmplt))
    BY <1>2, Runs
  <2>2. st[f] \in {"wfg", "tag", "wfc"}
    BY <1>2 DEF Busy, Machines, StatesOf
  <2>3. CASE st[f] = "wfg"
    <3>1. CASE oper
      <4>1. st'[f] = "tag"
        BY <2>1, <2>3, <3>1 DEF Move, Finish
      <4>2. raw' = Own(f) /\ ~JtlbCmplt'
        BY <1>2, <2>3, <3>1, ReadsNotWrites, ReadEnters DEF Reads
      <4> QED
        BY <4>1, <4>2 DEF Reading
    <3>2. CASE ~oper
      <4>1. st'[f] = "wfg"
        BY <2>1, <2>3, <3>2 DEF Move, Finish
      <4> QED
        BY <3>2, <4>1, NotOper
    <3> QED
      BY <3>1, <3>2
  <2>4. CASE st[f] = "tag"
    <3>1. tlboperOn /\ Reading(f) /\ (JtlbCmplt => ~final.wr)
      BY <1>2, <2>4 DEF Holds, Past, Reads, Busy
    <3>2. CASE JtlbCmplt
      <4>1. st'[f] = "wfc"
        BY <2>1, <2>4, <3>2 DEF Move, Finish
      <4>2. ~wtGrant' => ~oper
        <5>1. WritesBack(f, JtlbCmplt)
          BY <2>4, <3>2 DEF WritesBack, Req
        <5>2. wtGrant' = (st[f] # "idle" /\ ((WritesBack(f, JtlbCmplt) /\ oper)
                            \/ (wtGrant /\ ~Finish(f, oper, JtlbCmplt))))
          BY Edges DEF TlbOperEdge
        <5> QED
          BY <2>4, <5>1, <5>2
      <4> QED
        BY <3>1, <3>2, <4>1, <4>2, ReadStays
    <3>3. CASE ~JtlbCmplt
      <4>1. st'[f] = "tag"
        BY <2>1, <2>4, <3>3 DEF Move, Finish
      <4>2. ~oper
        BY <2>1, <2>4, <3>3 DEF Req
      <4> QED
        BY <3>1, <3>3, <4>1, <4>2, ReadMoves
    <3> QED
      BY <3>2, <3>3
  <2>5. CASE st[f] = "wfc"
    <3>1. tlboperOn /\ (~wtGrant => Found(f))
      BY <1>2, <2>5 DEF Holds, Past, Reads, Busy
    <3>2. st'[f] \in {"idle", "wfc"}
      BY <2>1, <2>5 DEF Move
    <3>3. ASSUME st'[f] = "wfc", ~wtGrant' PROVE ~oper /\ ~wtGrant
      <4>1. ~Finish(f, oper, JtlbCmplt)
        BY <2>1, <3>3 DEF Move
      <4>2. wtGrant' = (st[f] # "idle" /\ ((WritesBack(f, JtlbCmplt) /\ oper)
                            \/ (wtGrant /\ ~Finish(f, oper, JtlbCmplt))))
        BY Edges DEF TlbOperEdge
      <4>3. ~wtGrant
        BY <2>5, <3>3, <4>1, <4>2
      <4>4. WritesBack(f, JtlbCmplt)
        BY <2>5, <4>3 DEF WritesBack, Req
      <4> QED
        BY <2>5, <3>3, <4>2, <4>3, <4>4
    <3> QED
      BY <3>1, <3>2, <3>3, ReadStays
  <2> QED
    BY <2>2, <2>3, <2>4, <2>5
<1> QED
  BY <1>1, <1>2

LEMMA InvasidReads ==
  ASSUME NEW issue, NEW hit, NEW report, NEW held, NEW ready,
         Inputs(issue, hit, report, held, ready),
         TypeOK, Machines, Turn, Holds, Reads
  PROVE  /\ st'["invasid"] = "rd" => (raw'.type = "oper" => raw' = OwnWrite("invasid"))
         /\ st'["invasid"] = "wfc" => Reading("invasid")'
         /\ st'["invasid"] = "wt" => Found("invasid")'
<1> DEFINE oper == Oper(report, issue)
           f    == "invasid"
<1>1. CASE f \notin Busy
  <2>1. st'[f] # "idle" => f \in Starting /\ st'[f] = "rd"
    BY <1>1, Edges, FirstStates DEF TlbOperEdge, Busy, Starting, Fsm, LsuFsm
  <2> QED
    BY <2>1, StartQuiet, NotOper
<1>2. CASE f \in Busy
  <2>1. /\ st'[f] = Move(f, oper, JtlbCmplt, hit)
        /\ oper => Req(f, JtlbCmplt) /\ raw' = Acc("oper", {f}, Writes(f, JtlbCmplt))
    BY <1>2, Runs
  <2>2. st[f] \in {"rd", "wfc", "wt", "nwt"}
    BY <1>2 DEF Busy, Machines, StatesOf
  <2>3. CASE st[f] = "rd"
    <3>1. CASE oper
      <4>1. st'[f] = "wfc"
        BY <2>1, <2>3, <3>1 DEF Move, Finish
      <4>2. raw' = Own(f) /\ (JtlbCmplt' => final' = OwnWrite(f))
        BY <1>2, <2>3, <3>1, ReadsNotWrites, ReadEnters DEF Reads
      <4> QED
        BY <4>1, <4>2 DEF Reading
    <3>2. CASE ~oper
      <4>1. st'[f] = "rd"
        BY <2>1, <2>3, <3>2 DEF Move, Finish
      <4> QED
        BY <3>2, <4>1, NotOper
    <3> QED
      BY <3>1, <3>2
  <2>4. CASE st[f] = "wfc"
    <3>1. tlboperOn /\ Reading(f) /\ ~oper
      BY <1>2, <2>1, <2>4 DEF Holds, Past, Reads, Busy, Req
    <3>2. CASE JtlbCmplt
      <4>1. st'[f] = IF hit THEN "wt" ELSE "nwt"
        BY <2>1, <2>4, <3>2 DEF Move, Finish
      <4>2. hit => ~final.wr
        BY DEF Inputs, Result
      <4> QED
        BY <3>1, <3>2, <4>1, <4>2, ReadStays
    <3>3. CASE ~JtlbCmplt
      <4>1. st'[f] = "wfc"
        BY <2>1, <2>4, <3>3 DEF Move, Finish
      <4> QED
        BY <3>1, <3>3, <4>1, ReadMoves
    <3> QED
      BY <3>2, <3>3
  <2>5. CASE st[f] = "wt"
    <3>1. tlboperOn /\ Found(f)
      BY <1>2, <2>5 DEF Holds, Past, Reads, Busy
    <3>2. CASE oper
      <4>1. st'[f] \in {"idle", "rd"}
        BY <2>1, <2>5, <3>2 DEF Move, Finish
      <4>2. raw' = OwnWrite(f)
        BY <2>1, <2>5, <3>2 DEF OwnWrite, Writes, WritesBack
      <4> QED
        BY <4>1, <4>2
    <3>3. CASE ~oper
      <4>1. st'[f] = "wt"
        BY <2>1, <2>5, <3>3 DEF Move, Finish
      <4> QED
        BY <3>1, <3>3, <4>1, ReadStays
    <3> QED
      BY <3>2, <3>3
  <2>6. CASE st[f] = "nwt"
    <3>1. st'[f] \in {"idle", "rd"}
      BY <2>1, <2>6 DEF Move
    <3>2. ~oper
      BY <2>1, <2>6 DEF Req
    <3> QED
      BY <3>1, <3>2, NotOper
  <2> QED
    BY <2>2, <2>3, <2>4, <2>5, <2>6
<1> QED
  BY <1>1, <1>2

LEMMA InvvaReads ==
  ASSUME NEW issue, NEW hit, NEW report, NEW held, NEW ready,
         Inputs(issue, hit, report, held, ready),
         TypeOK, Machines, Turn, Holds, Reads
  PROVE  /\ st'["invva"] = "rd" => raw'.type # "oper"
         /\ st'["invva"] = "cmp" => Reading("invva")' /\ (JtlbCmplt' => ~final'.wr)
         /\ st'["invva"] = "wr" => Found("invva")'
<1> DEFINE oper == Oper(report, issue)
           f    == "invva"
<1>1. CASE f \notin Busy
  <2>1. st'[f] # "idle" => f \in Starting /\ st'[f] = "rd"
    BY <1>1, Edges, FirstStates DEF TlbOperEdge, Busy, Starting, Fsm, LsuFsm
  <2> QED
    BY <2>1, StartQuiet, NotOper
<1>2. CASE f \in Busy
  <2>1. st'[f] = Move(f, oper, JtlbCmplt, hit) /\ (oper => Req(f, JtlbCmplt))
    BY <1>2, Runs
  <2>2. st[f] \in {"rd", "cmp", "wr", "wt", "cmplt"}
    BY <1>2 DEF Busy, Machines, StatesOf
  <2>3. CASE st[f] = "rd"
    <3>1. CASE oper
      <4>1. st'[f] = "cmp"
        BY <2>1, <2>3, <3>1 DEF Move, Finish
      <4>2. raw' = Own(f) /\ ~JtlbCmplt'
        BY <1>2, <2>3, <3>1, ReadsNotWrites, ReadEnters DEF Reads
      <4> QED
        BY <4>1, <4>2 DEF Reading
    <3>2. CASE ~oper
      <4>1. st'[f] = "rd"
        BY <2>1, <2>3, <3>2 DEF Move, Finish
      <4> QED
        BY <3>2, <4>1, NotOper
    <3> QED
      BY <3>1, <3>2
  <2>4. CASE st[f] = "cmp"
    <3>1. tlboperOn /\ Reading(f) /\ (JtlbCmplt => ~final.wr) /\ ~oper
      BY <1>2, <2>1, <2>4 DEF Holds, Past, Reads, Busy, Req
    <3>2. CASE JtlbCmplt
      <4>1. st'[f] = IF hit THEN "wr" ELSE "cmplt"
        BY <2>1, <2>4, <3>2 DEF Move, Finish
      <4> QED
        BY <3>1, <3>2, <4>1, ReadStays
    <3>3. CASE ~JtlbCmplt
      <4>1. st'[f] = "cmp"
        BY <2>1, <2>4, <3>3 DEF Move, Finish
      <4> QED
        BY <3>1, <3>3, <4>1, ReadMoves
    <3> QED
      BY <3>2, <3>3
  <2>5. CASE st[f] = "wr"
    <3>1. tlboperOn /\ Found(f)
      BY <1>2, <2>5 DEF Holds, Past, Reads, Busy
    <3>2. CASE oper
      BY <2>1, <2>5, <3>2 DEF Move, Finish
    <3>3. CASE ~oper
      <4>1. st'[f] = "wr"
        BY <2>1, <2>5, <3>3 DEF Move, Finish
      <4> QED
        BY <3>1, <3>3, <4>1, ReadStays
    <3> QED
      BY <3>2, <3>3
  <2>6. CASE st[f] \in {"wt", "cmplt"}
    BY <2>1, <2>6 DEF Move, Finish
  <2> QED
    BY <2>2, <2>3, <2>4, <2>5, <2>6
<1> QED
  BY <1>1, <1>2

LEMMA ReadsStep ==
  ASSUME NEW issue, NEW hit, NEW report, NEW held, NEW ready,
         Inputs(issue, hit, report, held, ready),
         TypeOK, Machines, Turn, Holds, Reads
  PROVE  Reads'
BY TlbwrReads, InvasidReads, InvvaReads DEF Reads

-----------------------------------------------------------------------------
(***************************************************************************)
(* A miss whose walk was dropped asks again.                               *)
(***************************************************************************)
LEMMA OrphansStep ==
  ASSUME NEW issue, NEW hit, NEW report, NEW held, NEW ready,
         Inputs(issue, hit, report, held, ready),
         TypeOK, OneWalkPerMiss, LsuTurn, LsuPath, NoOrphanedMiss
  PROVE  NoOrphanedMiss'
<1> DEFINE alloc  == Allocated(hit)
           done   == Done(report, issue)
           entry  == EntryGrant(ready)
           bypass == BypassGrant(ready, alloc)
<1>1. /\ sent' = bypass \cup
           ((IF PtwAbort THEN {} ELSE (sent \cup entry) \ (done \cap vld)) \ alloc)
      /\ pdeReq' = IF PtwAbort THEN {}
                   ELSE IF entry \cup bypass # {} THEN entry \cup bypass
                   ELSE IF held THEN pdeReq ELSE {}
      /\ walks' = IF PtwAbort THEN {}
                  ELSE (walks \ done) \cup (IF held THEN {} ELSE pdeReq)
  BY Edges DEF MissBufEdge
<1>2. /\ bypass \subseteq alloc /\ done \subseteq walks /\ walks \subseteq vld
      /\ held => pdeReq = {} \/ entry \cup bypass = {}
  BY Requests, DoneWalks DEF Inputs, OneWalkPerMiss, InPtw
<1>3. /\ LsuOper /\ ~lsuCmplt => LsuOper'
      /\ lsuCmplt => PtwAbort
  BY Edges DEF CtcqEdge, LsuOper, PtwAbort, LsuTurn
<1>4. lsuCmplt => alloc = {}
  BY DEF LsuPath, Allocated
<1> HIDE DEF alloc, done, entry, bypass
<1>5. CASE PtwAbort
  <2>1. sent' = bypass \/ sent' = {}
    BY <1>1, <1>5
  <2>2. sent' # {} => ~lsuCmplt
    BY <1>2, <1>4, <2>1
  <2>3. LsuOper
    BY <1>5 DEF PtwAbort
  <2> QED
    BY <1>3, <2>2, <2>3 DEF NoOrphanedMiss
<1>6. CASE ~PtwAbort
  <2>1. sent' \ InPtw' \subseteq sent \ InPtw
    BY <1>1, <1>2, <1>6 DEF InPtw
  <2> QED
    BY <1>3, <1>6, <2>1 DEF NoOrphanedMiss
<1> QED
  BY <1>5, <1>6

-----------------------------------------------------------------------------
(***************************************************************************)
(* The theorems.  First the invariants: IInv whatever CP0 does, SInv when  *)
(* it neither probes nor uses its wire.                                    *)
(***************************************************************************)
LEMMA IInvInvariant == Spec => []IInv
<1>1. Init => IInv
  BY InitSafe
<1>2. IInv /\ [Next]_vars => IInv'
  <2> SUFFICES ASSUME IInv, [Next]_vars PROVE IInv'
    OBVIOUS
  <2>1. CASE Next
    <3>1. PICK issue, hit, report, held, ready : Inputs(issue, hit, report, held, ready)
      BY <2>1, NextInputs
    <3>2. TypeOK'
      BY <3>1, OperTypes, ArbTypes, MissBufTypes DEF IInv, TypeOK
    <3>3. OneWalkPerMiss' /\ NoOrphanedMiss'
      BY <3>1, WalksStep, OrphansStep DEF IInv
    <3>4. Machines' /\ Asks' /\ LsuTurn'
      BY <3>1, MachinesStep, Cp0After, LsuTurnStep DEF IInv
    <3>5. Refill' /\ LsuPath'
      BY <3>1, RefillStep, LsuPathStep DEF IInv
    <3> QED
      BY <3>2, <3>3, <3>4, <3>5 DEF IInv
  <2>2. CASE UNCHANGED vars
    <3> USE <2>2 DEF vars, operVars, askVars, arbVars, mbVars
    <3>1. TypeOK'
      BY DEF IInv, TypeOK, TlbOperTypeOK, L2ArbTypeOK, MissBufTypeOK, MbEntry
    <3>2. OneWalkPerMiss' /\ NoOrphanedMiss' /\ Refill' /\ Machines'
      BY DEF IInv, OneWalkPerMiss, NoOrphanedMiss, InPtw, LsuOper, Refill, Machines, StatesOf
    <3>3. Asks' /\ LsuTurn' /\ LsuPath'
      BY DEF IInv, Asks, LsuTurn, LsuPath, LsuOper, Busy, Lookup
    <3> QED
      BY <3>1, <3>2, <3>3 DEF IInv
  <2> QED
    BY <2>1, <2>2
<1> QED
  BY <1>1, <1>2, PTL DEF Spec

LEMMA TurnsInvariant ==
  ASSUME NoWire
  PROVE  Spec => [](IInv /\ Turns)
<1>1. Init => Turns
  BY InitSafe
<1>2. IInv /\ Turns /\ [Next]_vars => Turns'
  <2> SUFFICES ASSUME IInv, Turns, [Next]_vars PROVE Turns'
    OBVIOUS
  <2>1. CASE Next
    <3>1. PICK issue, hit, report, held, ready : Inputs(issue, hit, report, held, ready)
      BY <2>1, NextInputs
    <3> QED
      BY <3>1, TurnsStep DEF IInv
  <2>2. CASE UNCHANGED vars
    BY <2>2 DEF vars, operVars, askVars, Turns, Busy
  <2> QED
    BY <2>1, <2>2
<1> QED
  BY <1>1, <1>2, IInvInvariant, PTL DEF Spec

LEMMA TurnInvariant ==
  ASSUME Cp0Serial
  PROVE  Spec => [](IInv /\ Turn)
<1>1. NoWire
  BY DEF Cp0Serial, NoWire
<1>2. Spec => [](IInv /\ Turns)
  BY <1>1, TurnsInvariant
<1>3. IInv /\ Turns => Turn
  BY TurnWithoutProbe DEF IInv
<1> QED
  BY <1>2, <1>3, PTL

LEMMA SInvInvariant ==
  ASSUME Cp0Serial
  PROVE  Spec => [](IInv /\ SInv)
<1>1. Init => Holds /\ Reads
  BY InitSafe DEF SInv
<1>2. IInv /\ Turn /\ Holds /\ Reads /\ [Next]_vars => Holds' /\ Reads'
  <2> SUFFICES ASSUME IInv, Turn, Holds, Reads, [Next]_vars PROVE Holds' /\ Reads'
    OBVIOUS
  <2>1. CASE Next
    <3>1. PICK issue, hit, report, held, ready : Inputs(issue, hit, report, held, ready)
      BY <2>1, NextInputs
    <3> QED
      BY <3>1, HoldsStep, ReadsStep DEF IInv
  <2>2. CASE UNCHANGED vars
    <3> USE <2>2 DEF vars, operVars, askVars, arbVars, mbVars
    <3>1. Holds'
      BY DEF Holds, Past, Busy
    <3>2. Reads'
      BY DEF Reads, Reading, Found, JtlbCmplt
    <3> QED
      BY <3>1, <3>2
  <2> QED
    BY <2>1, <2>2
<1>3. Spec => [](IInv /\ Turn)
  BY TurnInvariant
<1>4. Turn /\ Holds /\ Reads => SInv
  BY DEF SInv
<1> QED
  BY <1>1, <1>2, <1>3, <1>4, PTL DEF Spec

\* The machines, the pipeline and the miss buffer keep their types.
THEOREM TypeCorrect == Spec => []TypeOK
<1>1. IInv => TypeOK
  BY DEF IInv
<1> QED
  BY <1>1, IInvInvariant, PTL

\* Across bypass, completion, abort and retry a miss has at most one walk, and a
\* walk has its miss, however many entries there are and whatever CP0 does.
THEOREM OneWalk == Spec => []OneWalkPerMiss
<1>1. IInv => OneWalkPerMiss
  BY DEF IInv
<1> QED
  BY <1>1, IInvInvariant, PTL

\* Each execution is one of WalkService, whatever CP0 does: no walk is lost on the
\* way unless all are dropped, and none is begun twice.
THEOREM Refinement == Spec => ImplementsWalkService
<1>1. Init => Service!Init
  BY DEF Init, MissBufInit, Service!Init, InPtw
<1>2. IInv /\ [Next]_vars => [Service!Next]_Service!vars
  <2> SUFFICES ASSUME IInv, [Next]_vars PROVE [Service!Next]_Service!vars
    OBVIOUS
  <2>1. CASE Next
    <3>1. PICK issue, hit, report, held, ready : Inputs(issue, hit, report, held, ready)
      BY <2>1, NextInputs
    <3> QED
      BY <3>1, ServiceStep DEF IInv
  <2>2. CASE UNCHANGED vars
    BY <2>2 DEF vars, mbVars, InPtw, Service!vars
  <2> QED
    BY <2>1, <2>2
<1> QED
  BY <1>1, <1>2, IInvInvariant, PTL DEF Spec, Service!Spec, ImplementsWalkService

\* A TLB operation that has been let in and a refill exclude each other, whatever
\* CP0 does.
THEOREM RefillsExcluded == Spec => []OperExcludesRefill
<1>1. IInv => OperExcludesRefill
  BY DEF IInv, Refill, OperExcludesRefill
<1> QED
  BY <1>1, IInvInvariant, PTL

\* No miss waits for a walk that an operation has dropped after that operation is
\* over, whatever CP0 does.
THEOREM NoOrphans == Spec => []NoOrphanedMiss
<1>1. IInv => NoOrphanedMiss
  BY DEF IInv
<1> QED
  BY <1>1, IInvInvariant, PTL

\* When CP0 does not probe and does not use its wire, at most one machine runs.
THEOREM Serial ==
  ASSUME Cp0Serial
  PROVE  Spec => []OneOperAtATime
<1>1. SInv => OneOperAtATime
  BY OneBusy DEF SInv
<1> QED
  BY <1>1, SInvInvariant, PTL

\* Then the arbiter is released with the last operation, for any number of sets;
THEOREM Released ==
  ASSUME Cp0Serial
  PROVE  Spec => []OperReleasesArbiter
<1>1. SInv => OperReleasesArbiter
  BY DEF SInv, Holds, OperReleasesArbiter, SmIdle
<1> QED
  BY <1>1, SInvInvariant, PTL

\* each write of a refill or an operation goes to the ways its own read found;
THEOREM WritesFollow ==
  ASSUME Cp0Serial
  PROVE  Spec => []WriteFollowsItsRead
<1>1. IInv /\ SInv => WriteFollowsItsRead
  <2> SUFFICES ASSUME IInv, SInv PROVE WriteFollowsItsRead
    OBVIOUS
  <2>1. WriteGrant => finalVld /\ final.type = "read"
    BY DEF IInv, Refill, WriteGrant
  <2>2. ASSUME NEW f \in Fsm, WritesBack(f, JtlbCmplt) PROVE final = Own(f)
    <3>1. Reads /\ Machines
      BY DEF IInv, SInv
    <3>2. CASE f = "tlbwr"
      <4>1. \/ st[f] = "tag" /\ JtlbCmplt
            \/ st[f] = "wfc" /\ ~wtGrant
        BY <2>2, <3>2 DEF WritesBack, Req
      <4> QED
        BY <3>1, <3>2, <4>1 DEF Reads, Reading, Found, OwnWrite, Acc
    <3>3. CASE f = "invasid"
      BY <2>2, <3>1, <3>3 DEF WritesBack, Reads, Found
    <3>4. CASE f = "invva"
      BY <2>2, <3>1, <3>4 DEF WritesBack, Reads, Found
    <3> QED
      BY <2>2, <3>2, <3>3, <3>4 DEF WritesBack
  <2> QED
    BY <2>1, <2>2 DEF WriteFollowsItsRead, Own
<1> QED
  BY <1>1, SInvInvariant, PTL

\* The invalidation by ASID leaves its wait by its read of the set, or, which is where
\* AsidScansEverySet fails, by its write of the set before with that read behind it: what
\* it passes over is the set after one that it has written.
SkipsOnlyAfterItsWrite ==
  st["invasid"] = "wfc" /\ JtlbCmplt =>
    final = Own("invasid") \/ (final = OwnWrite("invasid") /\ raw = Own("invasid"))

\* No access of another machine ends that wait, for any number of sets.
THEOREM AsidSkips ==
  ASSUME Cp0Serial
  PROVE  Spec => []SkipsOnlyAfterItsWrite
<1>1. SInv => SkipsOnlyAfterItsWrite
  BY DEF SInv, Reads, Reading, SkipsOnlyAfterItsWrite
<1> QED
  BY <1>1, SInvInvariant, PTL

\* CP0 is told that its operation is done when it is, if it does not use its wire.
THEOREM Cp0Told ==
  ASSUME NoWire
  PROVE  Spec => Cp0DoneIsDone
<1> DEFINE A == \A f \in mcir \ mcir' : st[f] # "idle" /\ st'[f] = "idle"
<1>1. IInv /\ Turns /\ [Next]_vars => [A]_vars
  <2> SUFFICES ASSUME IInv, Turns, Next PROVE A
    OBVIOUS
  <2>1. PICK issue, hit, report, held, ready : Inputs(issue, hit, report, held, ready)
    BY NextInputs
  <2>2. Machines /\ Asks
    BY DEF IInv
  <2> SUFFICES ASSUME NEW f \in mcir, f \notin mcir'
               PROVE  st[f] # "idle" /\ st'[f] = "idle"
    OBVIOUS
  <2>3. RegsCmplt(Oper(report, issue), JtlbCmplt)
    BY <2>1, <2>2, Cp0After
  <2>4. ~lsuFlop /\ Finishing(Oper(report, issue), JtlbCmplt) # {}
    BY <2>3 DEF RegsCmplt, OperCmplt
  <2>5. Busy \subseteq mcir /\ \A g, h \in mcir : g = h
    BY <2>4 DEF Turns
  <2>6. f \in Finishing(Oper(report, issue), JtlbCmplt) /\ f \in Busy
    BY <2>1, <2>2, <2>4, <2>5, BusyAfter
  <2>7. f \notin Starting
    BY <2>6 DEF Starting, Busy
  <2>8. f \notin Busy'
    BY <2>1, <2>2, <2>6, <2>7, BusyAfter
  <2> QED
    BY <2>6, <2>8 DEF Busy
<1> QED
  BY <1>1, TurnsInvariant, PTL DEF Spec, Cp0DoneIsDone

\* The one way in which two machines run at once, if CP0 does not use its wire: the
\* probe, which starts by the flop where the others look at the request, and the
\* operation of the LSU with which it began.
OnlyProbeOverlaps ==
  \A f, g \in Busy : f = g \/ (lsuFlop /\ {f, g} = {"tlbp", lsuReq})

\* Serial fails by this and by nothing else.
THEOREM ProbeOverlaps ==
  ASSUME NoWire
  PROVE  Spec => []OnlyProbeOverlaps
<1>1. Turns => OnlyProbeOverlaps
  BY DEF Turns, OnlyProbeOverlaps
<1> QED
  BY <1>1, TurnsInvariant, PTL

=============================================================================
