--------------------------- MODULE DtlbMissProofs ---------------------------
(***************************************************************************)
(* Proofs about DtlbMiss, for every number of entries and credits, every   *)
(* set of instructions and pages and with or without flushes: its safety   *)
(* invariants hold.                                                        *)
(***************************************************************************)
EXTENDS DtlbMiss, FiniteSetTheorems, WellFoundedInduction, TLAPS

MissTypeOK ==
  /\ ag \in [Port -> Inst \cup {NoInst}]
  /\ missq \in [Port -> Inst \cup {NoInst}]
  /\ mb \in [Entry -> {Idle} \cup [st : State \ {"idle"}, inst : Inst]]

-----------------------------------------------------------------------------
(***************************************************************************)
(* What the helper operators return.                                       *)
(***************************************************************************)
LEMMA LeastNat ==
  ASSUME NEW T \in SUBSET Nat, T # {}
  PROVE  \E x \in T : \A y \in T : x <= y
<1>1. PICK x \in T : \A y \in T : ~(<<y, x>> \in OpToRel(<, Nat))
  BY NatLessThanWellFounded, WFMin
<1>2. \A y \in T : ~(y < x)
  BY <1>1 DEF OpToRel
<1> QED
  BY <1>2

LEMMA LowestIsLeast ==
  ASSUME NEW S \in SUBSET Nat
  PROVE  /\ Lowest(S) \subseteq S
         /\ \A e, f \in Lowest(S) : e = f
         /\ S # {} => Lowest(S) # {}
<1>1. S # {} => Lowest(S) # {}
  BY LeastNat DEF Lowest
<1> QED
  BY <1>1 DEF Lowest

\* A port allocates at most one idle entry, and the two ports never the same one.
LEMMA AllocIsFree ==
  ASSUME MissTypeOK
  PROVE  /\ \A p \in Port : /\ Alloc(p, flush) \subseteq In("idle")
                            /\ \A e, f \in Alloc(p, flush) : e = f
                            /\ Alloc(p, flush) # {} => AllocReq(p, flush)
         /\ Alloc(0, flush) \cap Alloc(1, flush) = {}
<1>1. In("idle") \in SUBSET Nat
  BY SizeAssumption DEF In, Entry
<1>2. FreeA \subseteq In("idle") /\ \A e, f \in FreeA : e = f
  BY <1>1, LowestIsLeast DEF FreeA
<1>3. In("idle") \ FreeA \in SUBSET Nat
  BY <1>1
<1>4. FreeB \subseteq In("idle") \ FreeA /\ \A e, f \in FreeB : e = f
  BY <1>3, LowestIsLeast DEF FreeB
<1>5. ASSUME NEW p \in Port
      PROVE  /\ Alloc(p, flush) \subseteq In("idle")
             /\ \A e, f \in Alloc(p, flush) : e = f
             /\ Alloc(p, flush) # {} => AllocReq(p, flush)
  BY <1>2, <1>4 DEF Alloc
<1>6. Alloc(0, flush) \cap Alloc(1, flush) = {}
  <2>1. CASE ~AllocReq(0, flush) \/ ~AllocReq(1, flush)
    BY <2>1 DEF Alloc
  <2>2. CASE AllocReq(0, flush) /\ AllocReq(1, flush)
    <3>1. missq[0] # missq[1] /\ missq[0] \in Inst /\ missq[1] \in Inst
      BY <2>2 DEF AllocReq, Same4k, MissTypeOK, Port
    <3>2. missq[0] \in Int /\ missq[1] \in Int
      BY <3>1, InstAssumption DEF Inst
    <3>3. \/ missq[0] < missq[1] /\ ~(missq[1] < missq[0])
          \/ missq[1] < missq[0] /\ ~(missq[0] < missq[1])
      BY <3>1, <3>2
    <3>4. 1 - 0 = 1 /\ 1 - 1 = 0
      OBVIOUS
    <3> QED
      BY <1>4, <2>2, <3>3, <3>4 DEF Alloc
  <2> QED
    BY <2>1, <2>2
<1> QED
  BY <1>5, <1>6

\* An entry is allocated for the miss of one port.
LEMMA AllocForOne ==
  ASSUME MissTypeOK, NEW e \in Entry
  PROVE  \/ AllocFor(e, flush) = {} /\ \A p \in Port : e \notin Alloc(p, flush)
         \/ \E p \in Port : /\ e \in Alloc(p, flush) /\ AllocReq(p, flush)
                            /\ AllocFor(e, flush) = {missq[p]}
<1>1. Port = {0, 1}
  BY DEF Port
<1>2. CASE \A p \in Port : e \notin Alloc(p, flush)
  BY <1>2 DEF AllocFor
<1>3. CASE \E p \in Port : e \in Alloc(p, flush)
  <2>1. PICK p \in Port : e \in Alloc(p, flush)
    BY <1>3
  <2>2. \A q \in Port : e \in Alloc(q, flush) => q = p
    BY <1>1, <2>1, AllocIsFree
  <2>3. AllocFor(e, flush) = {missq[p]}
    BY <2>1, <2>2 DEF AllocFor
  <2> QED
    BY <2>1, <2>3, AllocIsFree
<1> QED
  BY <1>2, <1>3

-----------------------------------------------------------------------------
(***************************************************************************)
(* What a cycle does to an entry of the miss buffer.                       *)
(***************************************************************************)
\* The answer an entry takes, if any
Take(e) == IF ptw.id = e THEN {ptw} ELSE {a \in {Jtlb} : a.id = e}

Installed == {r.id : r \in Install(Jtlb, ptw)}
ExptHit   == UNION {ExptMatch(Look[p]) : p \in Port}

LEMMA EntryUpdate ==
  ASSUME MissTypeOK, NEW go, Cycle(go), NEW e \in Entry
  PROVE  mb'[e] = IF flush THEN Flushed(e, e \in Issue(flush), Take(e))
                  ELSE MbNext(e, AllocFor(e, flush), e \in Issue(flush), Take(e),
                              e \in Installed, e \in ExptHit)
BY DEF Cycle, L1DtlbEdge, Take, Installed, ExptHit

\* An entry keeps its miss or becomes idle, unless it was idle and is allocated.
LEMMA EntryStep ==
  ASSUME MissTypeOK, NEW go, Cycle(go), NEW e \in Entry
  PROVE  \/ mb'[e] = Idle
         \/ \E s \in State \ {"idle"} : mb[e].st # "idle" /\ mb'[e] = Slot(s, mb[e].inst)
         \/ \E s \in State \ {"idle"}, p \in Port :
              /\ e \in Alloc(p, flush) /\ AllocReq(p, flush)
              /\ mb'[e] = Slot(s, missq[p])
<1> DEFINE keeps == \E s \in State \ {"idle"} :
                      mb[e].st # "idle" /\ mb'[e] = Slot(s, mb[e].inst)
<1>0. mb[e] = Idle \/ mb[e] \in [st : State \ {"idle"}, inst : Inst]
  BY DEF MissTypeOK
<1>1. mb[e] = Idle \/ (mb[e].st # "idle" /\ mb[e].st \in State \ {"idle"} /\ mb[e] = Slot(mb[e].st, mb[e].inst))
  BY <1>0 DEF Idle, Slot
<1>2. Idle.st = "idle"
  BY DEF Idle, Slot
<1>3. CASE flush
  <2>1. mb'[e] = Flushed(e, e \in Issue(flush), Take(e))
    BY <1>3, EntryUpdate
  <2> QED
    BY <2>1 DEF Flushed, State
<1>4. CASE ~flush
  <2>1. mb'[e] = MbNext(e, AllocFor(e, flush), e \in Issue(flush), Take(e),
                        e \in Installed, e \in ExptHit)
    BY <1>4, EntryUpdate
  <2>2. CASE mb[e].st = "idle" /\ AllocFor(e, flush) # {}
    <3>1. PICK p \in Port : /\ e \in Alloc(p, flush) /\ AllocReq(p, flush)
                            /\ AllocFor(e, flush) = {missq[p]}
      BY <2>2, AllocForOne
    <3>2. mb'[e] = CHOOSE s \in {Slot(IF e \in Issue(flush) THEN "wfc" ELSE "wfg", i) :
                                   i \in {missq[p]}} : TRUE
      BY <2>1, <2>2, <3>1 DEF MbNext
    <3>3. mb'[e] = Slot(IF e \in Issue(flush) THEN "wfc" ELSE "wfg", missq[p])
      BY <3>2
    <3> QED
      BY <3>1, <3>3 DEF State
  <2>3. CASE mb[e].st = "idle" /\ AllocFor(e, flush) = {}
    <3>1. mb'[e] = mb[e]
      BY <2>1, <2>3 DEF MbNext
    <3> QED
      BY <1>1, <2>3, <3>1
  <2>4. CASE mb[e].st # "idle"
    <3>1. mb'[e] \in {Idle, mb[e]} \cup {Slot(s, mb[e].inst) : s \in {"wfc", "flt", "wfi"}}
      BY <2>1, <2>4 DEF MbNext
    <3> QED
      BY <1>1, <2>4, <3>1 DEF State
  <2> QED
    BY <2>2, <2>3, <2>4
<1> QED
  BY <1>3, <1>4

LEMMA MissTypeStep ==
  ASSUME MissTypeOK, NEW go, Cycle(go)
  PROVE  MissTypeOK'
<1>1. ag' \in [Port -> Inst \cup {NoInst}]
  BY DEF Cycle, LsuEdge
<1>2. missq' \in [Port -> Inst \cup {NoInst}]
  <2>1. \A p \in Port : Look[p] \in Inst \cup {NoInst}
    BY DEF Look, MissTypeOK
  <2>2. missq' = [p \in Port |-> IF Missed(Look[p]) /\ ~flush THEN Look[p] ELSE NoInst]
    BY DEF Cycle, L1DtlbEdge
  <2> QED
    BY <2>1, <2>2
<1>3. mb' \in [Entry -> {Idle} \cup [st : State \ {"idle"}, inst : Inst]]
  <2>1. mb' = [e \in Entry |-> mb'[e]]
    BY DEF Cycle, L1DtlbEdge
  <2>2. ASSUME NEW e \in Entry
        PROVE  mb'[e] \in {Idle} \cup [st : State \ {"idle"}, inst : Inst]
    <3>1. mb[e].st # "idle" => mb[e].inst \in Inst
      BY DEF MissTypeOK, Idle, Slot
    <3>2. \A p \in Port : AllocReq(p, flush) => missq[p] \in Inst
      BY DEF MissTypeOK, AllocReq
    <3>3. \A s \in State \ {"idle"}, i \in Inst :
            Slot(s, i) \in [st : State \ {"idle"}, inst : Inst]
      BY DEF Slot
    <3> QED
      BY <3>1, <3>2, <3>3, EntryStep
  <2> QED
    BY <2>1, <2>2
<1> QED
  BY <1>1, <1>2, <1>3 DEF MissTypeOK

LEMMA NoDuplicateStep ==
  ASSUME MissTypeOK, NoDuplicateMiss, NEW go, Cycle(go)
  PROVE  NoDuplicateMiss'
<1> SUFFICES ASSUME NEW e \in Entry, NEW f \in Entry, e # f,
                    mb'[e].st # "idle", mb'[f].st # "idle",
                    PageOf[mb'[e].inst] = PageOf[mb'[f].inst]
             PROVE  FALSE
  BY DEF NoDuplicateMiss, Valid, In
<1> DEFINE Old(x) == mb[x].st # "idle" /\ mb'[x].inst = mb[x].inst
           New(x) == \E p \in Port : /\ x \in Alloc(p, flush) /\ AllocReq(p, flush)
                                     /\ mb'[x].inst = missq[p]
<1>1. \A x \in Entry : mb'[x].st = "idle" \/ Old(x) \/ New(x)
  <2> TAKE x \in Entry
  <2>1. CASE mb'[x] = Idle
    BY <2>1 DEF Idle, Slot
  <2>2. CASE mb'[x] # Idle
    <3>1. CASE \E s \in State \ {"idle"} :
                 mb[x].st # "idle" /\ mb'[x] = Slot(s, mb[x].inst)
      BY <3>1 DEF Slot
    <3>2. CASE \E s \in State \ {"idle"}, p \in Port :
                 /\ x \in Alloc(p, flush) /\ AllocReq(p, flush)
                 /\ mb'[x] = Slot(s, missq[p])
      BY <3>2 DEF Slot
    <3> QED
      BY <2>2, <3>1, <3>2, EntryStep
  <2> QED
    BY <2>1, <2>2
<1>2. CASE Old(e) /\ Old(f)
  BY <1>2 DEF NoDuplicateMiss, Valid, In
<1>3. \A x, y \in Entry : Old(x) /\ New(y) => PageOf[mb'[x].inst] # PageOf[mb'[y].inst]
  BY DEF AllocReq, MbHit, Valid, In
<1>4. CASE New(e) /\ New(f)
  <2>1. PICK p \in Port : /\ e \in Alloc(p, flush) /\ AllocReq(p, flush)
                          /\ mb'[e].inst = missq[p]
    BY <1>4
  <2>2. PICK q \in Port : /\ f \in Alloc(q, flush) /\ AllocReq(q, flush)
                          /\ mb'[f].inst = missq[q]
    BY <1>4
  <2>3. p # q
    BY <2>1, <2>2, AllocIsFree
  <2>4. Same4k
    BY <2>1, <2>2, <2>3 DEF Same4k, AllocReq, Port
  <2> QED
    BY <2>1, <2>2, <2>3, <2>4 DEF AllocReq, Port
<1> QED
  BY <1>1, <1>2, <1>3, <1>4

-----------------------------------------------------------------------------
(***************************************************************************)
(* The request that leaves for the L2 TLB.                                 *)
(***************************************************************************)
\* At most one entry is issued: a ready one, or one allocated in this cycle.
LEMMA IssueOne ==
  ASSUME MissTypeOK
  PROVE  /\ \A e, f \in Issue(flush) : e = f
         /\ \A e \in Issue(flush) :
              /\ e \in Entry /\ credits # 0
              /\ \/ e \in Ready
                 \/ \E p \in Port : /\ e \in Alloc(p, flush) /\ AllocReq(p, flush)
                                    /\ AllocFor(e, flush) = {missq[p]}
<1>1. Ready \in SUBSET Nat /\ {e \in Ready : e >= ptr} \in SUBSET Nat
  BY SizeAssumption DEF Ready, In, Entry
<1>2. RoundRobin \subseteq Ready /\ \A e, f \in RoundRobin : e = f
  BY <1>1, LowestIsLeast DEF RoundRobin
<1>3. /\ \A e, f \in Bypass(flush) : e = f
      /\ \A e \in Bypass(flush) : \E p \in Port : e \in Alloc(p, flush)
  BY AllocIsFree DEF Bypass, Port
<1>4. Ready \subseteq Entry /\ \A p \in Port : Alloc(p, flush) \subseteq Entry
  BY AllocIsFree DEF Ready, In
<1>5. \A e, f \in Issue(flush) : e = f
  BY <1>2, <1>3 DEF Issue
<1>6. ASSUME NEW e \in Issue(flush)
      PROVE  /\ e \in Entry /\ credits # 0
             /\ \/ e \in Ready
                \/ \E p \in Port : /\ e \in Alloc(p, flush) /\ AllocReq(p, flush)
                                   /\ AllocFor(e, flush) = {missq[p]}
  <2>1. credits # 0
    BY <1>6 DEF Issue
  <2>2. e \in Ready \/ \E p \in Port : e \in Alloc(p, flush)
    BY <1>2, <1>3, <1>6 DEF Issue
  <2>3. e \in Entry
    BY <1>4, <2>2
  <2> QED
    BY <2>1, <2>2, <2>3, AllocForOne
<1> QED
  BY <1>5, <1>6

\* It carries the index of its entry and the instruction that misses.
LEMMA SentOne ==
  ASSUME MissTypeOK
  PROVE  /\ Issue(flush) = {} => Sent(flush) = {}
         /\ \A e \in Issue(flush) : \E i \in Inst :
              /\ Sent(flush) = {[id |-> e, inst |-> i]}
              /\ \/ e \in Ready /\ i = mb[e].inst
                 \/ e \notin Ready /\ AllocFor(e, flush) = {i}
<1>1. Issue(flush) = {} => Sent(flush) = {}
  BY DEF Sent
<1>2. ASSUME NEW e \in Issue(flush)
      PROVE  \E i \in Inst : /\ Sent(flush) = {[id |-> e, inst |-> i]}
                             /\ \/ e \in Ready /\ i = mb[e].inst
                                \/ e \notin Ready /\ AllocFor(e, flush) = {i}
  <2>1. Issue(flush) = {e}
    BY IssueOne
  <2> DEFINE carried == IF e \in Ready THEN {mb[e].inst} ELSE AllocFor(e, flush)
  <2>2. Sent(flush) = UNION {{[id |-> x, inst |-> i] :
                    i \in IF x \in Ready THEN {mb[x].inst} ELSE AllocFor(x, flush)} : x \in {e}}
    BY <2>1 DEF Sent
  <2>3. Sent(flush) = {[id |-> e, inst |-> i] : i \in carried}
    BY <2>2
  <2>4. \E i \in Inst : carried = {i} /\ (e \in Ready => i = mb[e].inst)
    <3>1. CASE e \in Ready
      <4>1. mb[e].inst \in Inst
        BY <3>1 DEF MissTypeOK, Ready, In, Idle, Slot
      <4> QED
        BY <3>1, <4>1
    <3>2. CASE e \notin Ready
      <4>1. PICK p \in Port : AllocReq(p, flush) /\ AllocFor(e, flush) = {missq[p]}
        BY <3>2, IssueOne
      <4>2. missq[p] \in Inst
        BY <4>1 DEF AllocReq, MissTypeOK
      <4> QED
        BY <3>2, <4>1, <4>2
    <3> QED
      BY <3>1, <3>2
  <2> QED
    BY <2>3, <2>4
<1> QED
  BY <1>1, <1>2

LEMMA SentInReq ==
  ASSUME MissTypeOK
  PROVE  /\ Sent(flush) \subseteq Req
         /\ \A r, q \in Sent(flush) : r = q
         /\ Sent(flush) = {} <=> Issue(flush) = {}
<1>1. CASE Issue(flush) = {}
  BY <1>1, SentOne
<1>2. CASE Issue(flush) # {}
  <2>1. PICK e \in Issue(flush) : TRUE
    BY <1>2
  <2>2. PICK i \in Inst : Sent(flush) = {[id |-> e, inst |-> i]}
    BY SentOne
  <2>3. [id |-> e, inst |-> i] \in Req
    BY IssueOne DEF Req
  <2> QED
    BY <1>2, <2>2, <2>3
<1> QED
  BY <1>1, <1>2

-----------------------------------------------------------------------------
(***************************************************************************)
(* The request queue and the pipeline.                                     *)
(***************************************************************************)
PipeTypeOK ==
  /\ reqq \in [QSlot -> Req \cup {NoReq}]
  /\ sent \subseteq QSlot
  /\ raw \in [slot : QSlot, req : Req, kind : {"none"}] \cup {NoAccess}
  /\ fin \in [slot : QSlot, req : Req, kind : Result] \cup {NoAccess}
  /\ walks \subseteq Req
  /\ ptw \in Answer \cup {NoAnswer}

\* The entries left and written in this cycle
Left    == Dealloc(fin.slot, fin.kind)
Written == IF Sent(flush) # {} THEN Free ELSE {}

LEMMA NoReqIsNone == NoReq \notin Req
BY SizeAssumption DEF NoReq, Req, Entry

LEMMA NoSlotIsNone == NoSlot \notin QSlot
BY QueDepthAssumption DEF NoSlot, QSlot

LEMMA FirstIsLeast ==
  ASSUME NEW S \in SUBSET QSlot
  PROVE  /\ First(S) \subseteq S
         /\ \A s, t \in First(S) : s = t
         /\ S # {} => First(S) # {}
<1>1. S \in SUBSET Nat
  BY QueDepthAssumption DEF QSlot
<1>2. First(S) = Lowest(S)
  BY DEF First, Lowest
<1> QED
  BY <1>1, <1>2, LowestIsLeast

\* Each entry of the queue is written, left or kept.
LEMMA QueueUpdate ==
  ASSUME MissTypeOK, PipeTypeOK, NEW go, Cycle(go)
  PROVE  /\ Left \subseteq Held \cap {fin.slot} /\ Written \subseteq QSlot \ Held
         /\ \A s, t \in Written : s = t
         /\ \A s \in Left : reqq'[s] = NoReq
         /\ \A s \in Written : Sent(flush) = {reqq'[s]}
         /\ \A s \in QSlot \ (Left \cup Written) : reqq'[s] = reqq[s]
         /\ reqq' \in [QSlot -> Req \cup {NoReq}]
         /\ Held' = (Held \ Left) \cup Written
<1>1. reqq' = [s \in QSlot |-> IF s \in Left THEN NoReq
                               ELSE IF s \in Written THEN CHOOSE r \in Sent(flush) : TRUE
                               ELSE reqq[s]]
  BY DEF Cycle, L2ReqQEdge, Left, Written
<1>2. Left \subseteq Held \cap {fin.slot}
  BY DEF Left, Dealloc
<1>3. Written \subseteq QSlot \ Held /\ \A s, t \in Written : s = t
  BY FirstIsLeast DEF Written, Free
<1>4. \A s \in Written : Sent(flush) = {CHOOSE r \in Sent(flush) : TRUE}
  <2>1. Sent(flush) # {} => Sent(flush) = {CHOOSE r \in Sent(flush) : TRUE}
    BY SentInReq
  <2> QED
    BY <2>1 DEF Written
<1>5. Held \subseteq QSlot
  BY DEF Held
<1>6. \A s \in Left : reqq'[s] = NoReq
  BY <1>1, <1>2, <1>5
<1>7. \A s \in Written : Sent(flush) = {reqq'[s]}
  BY <1>1, <1>2, <1>3, <1>4, <1>5
<1>8. \A s \in QSlot \ (Left \cup Written) : reqq'[s] = reqq[s]
  BY <1>1
<1>9. \A s \in Written : reqq'[s] \in Req
  BY <1>7, SentInReq
<1>10. reqq' \in [QSlot -> Req \cup {NoReq}]
  <2>1. \A s \in QSlot : reqq'[s] \in Req \cup {NoReq}
    BY <1>6, <1>8, <1>9 DEF PipeTypeOK
  <2>2. reqq' = [s \in QSlot |-> reqq'[s]]
    BY <1>1
  <2> QED
    BY <2>1, <2>2
<1>11. Held' = (Held \ Left) \cup Written
  <2>1. Held' = {s \in QSlot : reqq'[s] # NoReq}
    BY DEF Held
  <2>2. \A s \in QSlot \ (Left \cup Written) : reqq'[s] # NoReq <=> s \in Held
    BY <1>8 DEF Held
  <2>3. \A s \in Written : reqq'[s] # NoReq
    BY <1>9, NoReqIsNone
  <2> QED
    BY <1>2, <1>3, <1>5, <1>6, <2>1, <2>2, <2>3
<1> QED
  BY <1>2, <1>3, <1>6, <1>7, <1>8, <1>10, <1>11

-----------------------------------------------------------------------------
(***************************************************************************)
(* Credits count the entries left.                                         *)
(***************************************************************************)
CreditCount ==
  /\ credits \in 0 .. CreditMax
  /\ credits = CreditMax - Cardinality(Held)

LEMMA HeldFinite == IsFiniteSet(Held) /\ Cardinality(Held) \in Nat /\ Cardinality(QSlot) = QueDepth
                    /\ IsFiniteSet(QSlot)
<1>1. IsFiniteSet(QSlot) /\ Cardinality(QSlot) = QueDepth
  <2>1. 1 \in Int /\ QueDepth \in Int /\ QueDepth >= 1
    BY QueDepthAssumption
  <2> QED
    BY <2>1, FS_Interval DEF QSlot
<1>2. Held \in SUBSET QSlot
  BY DEF Held
<1>3. IsFiniteSet(Held)
  BY <1>1, <1>2, FS_Subset
<1> QED
  BY <1>1, <1>3, FS_CardinalityType

LEMMA RoomForRequest ==
  ASSUME MissTypeOK, CreditCount
  PROVE  Sent(flush) # {} => Free # {}
<1> SUFFICES ASSUME Sent(flush) # {} PROVE Free # {}
  OBVIOUS
<1>1. credits # 0
  BY SentInReq, IssueOne
<1>2. Cardinality(Held) < QueDepth
  BY <1>1, HeldFinite, CreditAssumption, SizeAssumption, QueDepthAssumption DEF CreditCount
<1>3. Held # QSlot
  BY <1>2, HeldFinite, QueDepthAssumption
<1>4. QSlot \ Held # {}
  BY <1>3 DEF Held
<1> QED
  BY <1>4, FirstIsLeast DEF Free

LEMMA CreditStep ==
  ASSUME MissTypeOK, PipeTypeOK, CreditCount, NEW go, Cycle(go)
  PROVE  CreditCount'
<1> DEFINE kept == Held \ Left
           less == IF Left = {} THEN 0 ELSE 1
           more == IF Sent(flush) = {} THEN 0 ELSE 1
<1>1. Held' = kept \cup Written
  BY QueueUpdate
<1>2. IsFiniteSet(kept) /\ Cardinality(kept) = Cardinality(Held) - less
  <2>1. CASE Left = {}
    <3>1. kept = Held
      BY <2>1
    <3> QED
      BY <2>1, <3>1, HeldFinite
  <2>2. CASE Left # {}
    <3>1. Left = {fin.slot} /\ fin.slot \in Held
      BY <2>2, QueueUpdate
    <3> QED
      BY <2>2, <3>1, HeldFinite, FS_RemoveElement
  <2> QED
    BY <2>1, <2>2
<1>3. Cardinality(kept \cup Written) = Cardinality(kept) + more
  <2>1. CASE Sent(flush) = {}
    <3>1. Written = {}
      BY <2>1 DEF Written
    <3>2. kept \cup Written = kept
      BY <3>1
    <3>3. Cardinality(kept) \in Nat
      BY <1>2, FS_CardinalityType
    <3> QED
      BY <2>1, <3>2, <3>3
  <2>2. CASE Sent(flush) # {}
    <3>1. Written # {}
      BY <2>2, RoomForRequest DEF Written
    <3>2. PICK s \in Written : Written = {s} /\ s \notin kept
      BY <3>1, QueueUpdate
    <3> QED
      BY <1>2, <2>2, <3>2, FS_AddElement
  <2> QED
    BY <2>1, <2>2
<1>4. Cardinality(Held') = Cardinality(Held) - less + more
  BY <1>1, <1>2, <1>3
<1>5. credits' = CreditAfter(Issue(flush) # {}, Left # {})
  BY DEF Cycle, L1DtlbEdge, Left
<1>6. credits' = credits + less - more
  BY <1>5, SentInReq, SizeAssumption DEF CreditAfter, CreditCount
<1>7. more = 1 => credits # 0
  BY SentInReq, IssueOne
<1>8. credits' = CreditMax - Cardinality(Held')
  BY <1>4, <1>6, HeldFinite, SizeAssumption DEF CreditCount
<1>9. Cardinality(Held') \in Nat
  <2>1. IsFiniteSet(kept \cup Written)
    BY <1>2, QueueUpdate, HeldFinite, FS_Union, FS_Subset DEF Written, Free
  <2> QED
    BY <1>1, <2>1, FS_CardinalityType
<1>10. credits' >= 0
  BY <1>6, <1>7 DEF CreditCount
<1> QED
  BY <1>6, <1>8, <1>9, <1>10, SizeAssumption DEF CreditCount

-----------------------------------------------------------------------------
(***************************************************************************)
(* The pipeline holds what is marked as sent.                              *)
(***************************************************************************)
\* go is one entry that waits, or the one written in this cycle.
LEMMA GoOne ==
  ASSUME MissTypeOK, PipeTypeOK, NEW grant \in BOOLEAN, NEW go, go = Issued(Sent(flush), grant)
  PROVE  /\ \A s, t \in go : s = t
         /\ go \subseteq Waiting \/ go \subseteq Written
<1>1. Waiting \in SUBSET QSlot /\ QSlot \ Held \in SUBSET QSlot
  BY DEF Waiting, Held
<1>2. First(Waiting) \subseteq Waiting /\ \A s, t \in First(Waiting) : s = t
  BY <1>1, FirstIsLeast
<1>3. \A s, t \in Free : s = t
  BY <1>1, FirstIsLeast DEF Free
<1>4. CASE go = First(Waiting)
  BY <1>2, <1>4
<1>5. CASE Sent(flush) # {} /\ go = Free
  BY <1>3, <1>5 DEF Written
<1>6. CASE go = {}
  BY <1>6
<1> QED
  BY <1>4, <1>5, <1>6 DEF Issued

\* The first stage takes the request of the entry issued, the second that of the first.
LEMMA StageUpdate ==
  ASSUME MissTypeOK, PipeTypeOK, ResultOfItsRequest, NEW grant \in BOOLEAN, NEW go,
         go = Issued(Sent(flush), grant), Cycle(go)
  PROVE  /\ \/ go = {} /\ raw' = NoAccess
            \/ \E s \in QSlot : /\ go = {s} /\ s \notin sent /\ s \in Held' /\ s \notin Left
                                /\ raw' = [slot |-> s, req |-> reqq'[s], kind |-> "none"]
         /\ \/ raw = NoAccess /\ fin' = NoAccess
            \/ \E k \in Result : /\ raw # NoAccess
                                 /\ fin' = [slot |-> raw.slot, req |-> raw.req, kind |-> k]
<1> DEFINE req(s) == IF reqq[s] # NoReq THEN {reqq[s]} ELSE Sent(flush)
           in     == UNION {{[slot |-> s, req |-> r, kind |-> "none"] : r \in req(s)} : s \in go}
<1>1. /\ raw' \in IF go = {} THEN {NoAccess} ELSE in
      /\ fin' \in IF raw = NoAccess THEN {NoAccess} ELSE {[raw EXCEPT !.kind = k] : k \in Result}
  BY DEF Cycle, L2Edge
<1>2. go = {} => raw' = NoAccess
  BY <1>1
<1>3. ASSUME go # {}
      PROVE  \E s \in QSlot : /\ go = {s} /\ s \notin sent /\ s \in Held' /\ s \notin Left
                              /\ raw' = [slot |-> s, req |-> reqq'[s], kind |-> "none"]
  <2>1. PICK s \in go : go = {s}
    BY <1>3, GoOne
  <2>2. PICK r \in req(s) : raw' = [slot |-> s, req |-> r, kind |-> "none"]
    BY <1>1, <1>3, <2>1
  <2>3. sent \subseteq Held /\ Left \subseteq sent
    <3>1. \A x \in {raw, fin} \ {NoAccess} : x.req \in Req /\ x.slot \in QSlot /\ reqq[x.slot] = x.req
      BY DEF PipeTypeOK, ResultOfItsRequest
    <3>2. \A x \in {raw, fin} : x.slot # NoSlot => x # NoAccess
      BY DEF NoAccess
    <3>3. sent \subseteq Held
      BY <3>1, <3>2, NoReqIsNone DEF ResultOfItsRequest, Held
    <3>4. Left \subseteq sent
      BY QueueUpdate, NoSlotIsNone DEF ResultOfItsRequest, Held
    <3> QED
      BY <3>3, <3>4
  <2>4. CASE s \in Waiting
    <3>1. s \in Held /\ s \notin sent /\ s \notin Left /\ s \notin Written
      BY <2>3, <2>4, QueueUpdate DEF Waiting
    <3>2. reqq'[s] = reqq[s] /\ s \in QSlot /\ reqq[s] # NoReq
      BY <3>1, QueueUpdate DEF Held
    <3>3. s \in Held'
      BY <3>1, QueueUpdate
    <3> QED
      BY <2>1, <2>2, <3>1, <3>2, <3>3
  <2>5. CASE s \in Written
    <3>1. s \in QSlot /\ s \notin Held /\ Sent(flush) = {reqq'[s]} /\ s \in Held'
      BY <2>5, QueueUpdate
    <3>2. reqq[s] = NoReq
      BY <3>1 DEF Held
    <3>3. r = reqq'[s]
      BY <2>2, <3>1, <3>2
    <3> QED
      BY <2>1, <2>2, <2>3, <3>1, <3>3, QueueUpdate
  <2> QED
    BY <2>1, <2>4, <2>5, GoOne
<1>4. ASSUME raw # NoAccess
      PROVE  \E k \in Result : fin' = [slot |-> raw.slot, req |-> raw.req, kind |-> k]
  <2>1. PICK k \in Result : fin' = [raw EXCEPT !.kind = k]
    BY <1>1, <1>4
  <2>2. raw \in [slot : QSlot, req : Req, kind : {"none"}]
    BY <1>4 DEF PipeTypeOK
  <2>3. fin' = [slot |-> raw.slot, req |-> raw.req, kind |-> k]
    BY <2>1, <2>2
  <2> QED
    BY <2>3
<1> QED
  BY <1>1, <1>2, <1>3, <1>4

LEMMA ResultStep ==
  ASSUME MissTypeOK, PipeTypeOK, ResultOfItsRequest, NEW grant \in BOOLEAN, NEW go,
         go = Issued(Sent(flush), grant), Cycle(go)
  PROVE  ResultOfItsRequest'
<1>1. sent' = (Written \cap go) \cup (((sent \cup go) \ {s \in Held : s = fin.slot}) \ Written)
  BY DEF Cycle, L2ReqQEdge, Written
<1>2. /\ raw # NoAccess => /\ raw.slot \in Held /\ raw.slot \in QSlot /\ raw.slot # fin.slot
                           /\ reqq[raw.slot] = raw.req
      /\ raw = NoAccess => raw.slot = NoSlot
      /\ fin # NoAccess => fin.slot \in Held
      /\ fin = NoAccess => fin.slot = NoSlot
  <2>1. \A x \in {raw, fin} \ {NoAccess} : x.req \in Req /\ x.slot \in QSlot /\ reqq[x.slot] = x.req
    BY DEF PipeTypeOK, ResultOfItsRequest
  <2>2. NoAccess.slot = NoSlot
    BY DEF NoAccess
  <2> QED
    BY <2>1, <2>2, NoReqIsNone DEF ResultOfItsRequest, Held
<1>3. sent \ {s \in Held : s = fin.slot} = {raw.slot} \ {NoSlot}
  <2>1. sent = {raw.slot, fin.slot} \ {NoSlot}
    BY DEF ResultOfItsRequest
  <2> QED
    BY <1>2, <2>1
<1>4. go \cap {s \in Held : s = fin.slot} = {}
  <2>1. fin.slot \in Held => fin.slot \in sent
    BY NoSlotIsNone DEF ResultOfItsRequest, Held
  <2> QED
    BY <2>1, StageUpdate
<1>5. ({raw.slot} \ {NoSlot}) \cap Written = {}
  BY <1>2, QueueUpdate
<1>6. sent' = go \cup ({raw.slot} \ {NoSlot})
  BY <1>1, <1>3, <1>4, <1>5
<1>7. go = {raw'.slot} \ {NoSlot}
  <2>1. CASE go = {} /\ raw' = NoAccess
    BY <2>1 DEF NoAccess
  <2>2. ASSUME NEW s \in QSlot, go = {s}, raw' = [slot |-> s, req |-> reqq'[s], kind |-> "none"]
        PROVE  go = {raw'.slot} \ {NoSlot}
    BY <2>2, NoSlotIsNone
  <2> QED
    BY <2>1, <2>2, StageUpdate
<1>8. fin'.slot = raw.slot
  BY <1>2, StageUpdate DEF NoAccess
<1>9. sent' = {raw'.slot, fin'.slot} \ {NoSlot}
  BY <1>6, <1>7, <1>8
<1>10. raw' # NoAccess => reqq'[raw'.slot] = raw'.req /\ raw'.slot \notin sent
  BY StageUpdate
<1>11. fin' # NoAccess => reqq'[fin'.slot] = fin'.req
  <2> SUFFICES ASSUME fin' # NoAccess PROVE reqq'[fin'.slot] = fin'.req
    OBVIOUS
  <2>1. PICK k \in Result : raw # NoAccess /\ fin' = [slot |-> raw.slot, req |-> raw.req, kind |-> k]
    BY StageUpdate
  <2>2. raw.slot \notin Left /\ raw.slot \notin Written
    BY <1>2, <2>1, QueueUpdate
  <2> QED
    BY <1>2, <2>1, <2>2, QueueUpdate
<1>12. raw' # NoAccess => raw'.slot # fin'.slot
  <2>1. raw' # NoAccess => raw'.slot # NoSlot
    BY StageUpdate, NoSlotIsNone
  <2>2. raw.slot # NoSlot => raw.slot \in sent
    BY DEF ResultOfItsRequest
  <2> QED
    BY <1>8, <1>10, <2>1, <2>2
<1> QED
  BY <1>9, <1>10, <1>11, <1>12 DEF ResultOfItsRequest

-----------------------------------------------------------------------------
(***************************************************************************)
(* Types.                                                                  *)
(***************************************************************************)
RestTypeOK ==
  /\ tlb \subseteq Page
  /\ cam \in [Entry -> Inst \cup {NoInst}]
  /\ ptr \in Entry
  /\ busyQ \in [Port -> BOOLEAN]
  /\ frozen \subseteq Inst
  /\ flush \in BOOLEAN

\* Only an instruction that missed is reported as busy.
BusyIsMiss == \A p \in Port : busyQ[p] => missq[p] # NoInst

LEMMA AnswerToReq ==
  ASSUME NEW r \in Req, NEW k \in {"page", "flt"}
  PROVE  AnswerTo(r, k) \in Answer
BY DEF Req, Answer, AnswerTo

\* An answer of the L2 TLB is that of the request in its second stage.
LEMMA JtlbOfFin ==
  ASSUME PipeTypeOK
  PROVE  \/ Jtlb = NoAnswer /\ fin.kind \notin {"page", "flt"}
         \/ /\ fin # NoAccess /\ fin.kind \in {"page", "flt"}
            /\ Jtlb \in Answer /\ Jtlb.id = fin.req.id /\ Jtlb.inst = fin.req.inst
            /\ Jtlb.kind = fin.kind
<1>1. CASE fin.kind \notin {"page", "flt"}
  BY <1>1 DEF Jtlb
<1>2. CASE fin.kind \in {"page", "flt"}
  <2>1. fin # NoAccess
    BY <1>2 DEF NoAccess
  <2>2. fin.req \in Req
    BY <2>1 DEF PipeTypeOK
  <2>3. Jtlb = AnswerTo(fin.req, fin.kind)
    BY <1>2 DEF Jtlb
  <2> QED
    BY <1>2, <2>1, <2>2, <2>3, AnswerToReq DEF AnswerTo
<1> QED
  BY <1>1, <1>2

LEMMA PipeTypeStep ==
  ASSUME MissTypeOK, PipeTypeOK, ResultOfItsRequest, NEW grant \in BOOLEAN, NEW go,
         go = Issued(Sent(flush), grant), Cycle(go)
  PROVE  PipeTypeOK'
<1>1. reqq' \in [QSlot -> Req \cup {NoReq}]
  BY QueueUpdate
<1>2. sent' \subseteq QSlot
  <2>1. Written \subseteq QSlot /\ go \subseteq QSlot
    BY QueueUpdate, StageUpdate
  <2> QED
    BY <2>1 DEF Cycle, L2ReqQEdge, PipeTypeOK, Written
<1>3. raw' \in [slot : QSlot, req : Req, kind : {"none"}] \cup {NoAccess}
  <2>1. CASE raw' = NoAccess
    BY <2>1
  <2>2. ASSUME NEW s \in QSlot, s \in Held',
               raw' = [slot |-> s, req |-> reqq'[s], kind |-> "none"]
        PROVE  raw' \in [slot : QSlot, req : Req, kind : {"none"}]
    <3>1. reqq'[s] \in Req
      BY <1>1, <2>2 DEF Held
    <3> QED
      BY <2>2, <3>1
  <2> QED
    BY <2>1, <2>2, StageUpdate
<1>4. fin' \in [slot : QSlot, req : Req, kind : Result] \cup {NoAccess}
  <2>1. raw # NoAccess => raw.slot \in QSlot /\ raw.req \in Req
    BY DEF PipeTypeOK
  <2> QED
    BY <2>1, StageUpdate
<1>5. walks' \subseteq Req
  <2>1. fin.kind = "walk" => fin.req \in Req
    BY DEF PipeTypeOK, NoAccess
  <2> QED
    BY <2>1 DEF Cycle, L2Edge, PipeTypeOK
<1>6. ptw' \in Answer \cup {NoAnswer}
  <2>1. ptw' \in {AnswerTo(r, k) : r \in walks', k \in {"page", "flt"}} \cup {NoAnswer}
    BY DEF Cycle, L2Edge
  <2> QED
    BY <1>5, <2>1, AnswerToReq
<1> QED
  BY <1>1, <1>2, <1>3, <1>4, <1>5, <1>6 DEF PipeTypeOK

LEMMA RestTypeStep ==
  ASSUME MissTypeOK, PipeTypeOK, RestTypeOK, BusyIsMiss, NEW go, Cycle(go)
  PROVE  RestTypeOK' /\ BusyIsMiss'
<1>1. tlb' \subseteq Page
  <2>1. tlb' \subseteq tlb \cup {PageOf[r.inst] : r \in Install(Jtlb, ptw)}
    BY DEF Cycle, L1DtlbEdge
  <2>2. \A r \in Install(Jtlb, ptw) : r.inst \in Inst
    <3>1. CASE In("wfi") # {}
      <4>1. Lowest(In("wfi")) \subseteq In("wfi")
        BY DEF Lowest
      <4>2. \A e \in In("wfi") : mb[e].inst \in Inst
        BY DEF In, MissTypeOK, Idle, Slot
      <4> QED
        BY <3>1, <4>1, <4>2 DEF Install
    <3>2. CASE In("wfi") = {} /\ Fresh(ptw) # {}
      <4>1. ptw.kind = "page"
        BY <3>2 DEF Fresh
      <4>2. ptw.inst \in Inst
        BY <4>1 DEF PipeTypeOK, Answer, NoAnswer
      <4> QED
        BY <3>2, <4>2 DEF Install
    <3>3. CASE In("wfi") = {} /\ Fresh(ptw) = {}
      <4>1. Fresh(Jtlb) # {} => Jtlb.inst \in Inst
        BY JtlbOfFin DEF Fresh, Answer, NoAnswer
      <4> QED
        BY <3>3, <4>1 DEF Install
    <3> QED
      BY <3>1, <3>2, <3>3
  <2>3. \A i \in Inst : PageOf[i] \in Page
    BY InstAssumption DEF Inst
  <2> QED
    BY <2>1, <2>2, <2>3 DEF RestTypeOK
<1>2. cam' \in [Entry -> Inst \cup {NoInst}]
  <2> DEFINE hit     == UNION {ExptMatch(Look[p]) : p \in Port}
             faulted == ExptWrite(ptw, flush) \cup ExptWrite(Jtlb, flush)
  <2>1. cam' = [e \in Entry |-> CASE flush              -> NoInst
                              [] e \in faulted /\ ~flush -> mb[e].inst
                              [] e \in hit \ faulted /\ ~flush -> NoInst
                              [] OTHER              -> cam[e]]
    BY DEF Cycle, L1DtlbEdge
  <2>2. \A e \in faulted : mb[e].inst \in Inst
    BY DEF ExptWrite, In, MissTypeOK, Idle, Slot
  <2>3. \A e \in Entry : cam[e] \in Inst \cup {NoInst}
    BY DEF RestTypeOK
  <2> HIDE DEF hit, faulted
  <2> QED
    BY <2>1, <2>2, <2>3
<1>3. ptr' \in Entry
  <2>1. ptr' = IF credits > 0 /\ Ready # {}
               THEN CHOOSE n \in {(e % MbDepth) + 1 : e \in RoundRobin} : TRUE ELSE ptr
    BY DEF Cycle, L1DtlbEdge
  <2>2. Ready \in SUBSET Nat /\ {e \in Ready : e >= ptr} \in SUBSET Nat
    BY SizeAssumption DEF Ready, In, Entry
  <2>3. Ready # {} => RoundRobin # {}
    BY <2>2, LowestIsLeast DEF RoundRobin
  <2>4. \A e \in RoundRobin : (e % MbDepth) + 1 \in Entry
    <3>1. RoundRobin \subseteq Nat
      BY <2>2, LowestIsLeast DEF RoundRobin
    <3>2. \A e \in Nat : (e % MbDepth) + 1 \in 1 .. MbDepth
      BY SizeAssumption
    <3> QED
      BY <3>1, <3>2 DEF Entry
  <2> HIDE DEF Entry
  <2> QED
    BY <2>1, <2>3, <2>4 DEF RestTypeOK
<1>4. busyQ' \in [Port -> BOOLEAN] /\ BusyIsMiss'
  <2>1. busyQ' = [p \in Port |-> ~flush /\ Missed(Look[p]) /\ Busy]
    BY DEF Cycle, LsuEdge
  <2>2. missq' = [p \in Port |-> IF Missed(Look[p]) /\ ~flush THEN Look[p] ELSE NoInst]
    BY DEF Cycle, L1DtlbEdge
  <2>3. \A p \in Port : (~flush /\ Missed(Look[p]) /\ Busy) \in BOOLEAN
    OBVIOUS
  <2>4. \A p \in Port : Missed(Look[p]) => Look[p] # NoInst
    BY InstAssumption DEF Missed, TlbHit, ExptMatch, Look, NoInst
  <2> QED
    BY <2>1, <2>2, <2>3, <2>4 DEF BusyIsMiss
<1>5. frozen' \subseteq Inst
  <2>1. \A q \in Port : busyQ[q] => missq[q] \in Inst
    BY DEF BusyIsMiss, MissTypeOK
  <2> QED
    BY <2>1 DEF Cycle, LsuEdge, RestTypeOK
<1>6. flush' \in BOOLEAN
  BY FlushAssumption DEF Cycle
<1> QED
  BY <1>1, <1>2, <1>3, <1>4, <1>5, <1>6 DEF RestTypeOK

-----------------------------------------------------------------------------
(***************************************************************************)
(* One request for each entry that waits: OneRequestPerMiss without        *)
(* counting.                                                               *)
(***************************************************************************)
Waits(e) == mb[e].st \in {"wfc", "abt"}

RequestsDistinct ==
  /\ \A s, t \in Held : reqq[s].id = reqq[t].id => s = t
  /\ \A r, q \in walks : r.id = q.id => r = q
  /\ \A s \in Held, r \in walks : reqq[s].id # r.id

RequestIsAwaited ==
  /\ \A s \in Held : Waits(reqq[s].id) /\ mb[reqq[s].id].inst = reqq[s].inst
  /\ \A r \in walks : Waits(r.id) /\ mb[r.id].inst = r.inst

WaitHasRequest ==
  \A e \in Entry : Waits(e) => \/ \E s \in Held : reqq[s].id = e
                               \/ \E r \in walks : r.id = e

WalkReported == ptw # NoAnswer => [id |-> ptw.id, inst |-> ptw.inst] \in walks

OneRequest == RequestsDistinct /\ RequestIsAwaited /\ WaitHasRequest /\ WalkReported

\* An entry waits after the cycle that sends its request, until it takes an answer.
LEMMA WaitsStep ==
  ASSUME MissTypeOK, PipeTypeOK, NEW go, Cycle(go), NEW e \in Entry
  PROVE  /\ Waits(e)' <=> (Waits(e) /\ Take(e) = {}) \/ e \in Issue(flush)
         /\ Waits(e)' /\ e \notin Issue(flush) => mb'[e].inst = mb[e].inst
         /\ e \in Issue(flush) => /\ ~Waits(e)
                                  /\ Sent(flush) = {[id |-> e, inst |-> mb'[e].inst]}
<1>1. \A b \in Take(e) : b.kind \in {"page", "flt"}
  <2>1. \A b \in {ptw, Jtlb} : b.id = e => b.kind \in {"page", "flt"}
    BY JtlbOfFin, SizeAssumption DEF PipeTypeOK, Answer, NoAnswer, Entry
  <2> QED
    BY <2>1 DEF Take
<1>2. e \in Issue(flush) => /\ mb[e].st \in {"idle", "wfg"}
                            /\ mb[e].st = "idle" => ~flush /\ AllocFor(e, flush) # {}
  BY IssueOne, AllocIsFree DEF Ready, In, AllocReq
<1>3. CASE flush
  <2>1. mb'[e] = Flushed(e, e \in Issue(flush), Take(e))
    BY <1>3, EntryUpdate
  <2>2. Waits(e)' <=> (Waits(e) /\ Take(e) = {}) \/ e \in Issue(flush)
    <3>1. e \in Issue(flush) => mb[e].st = "wfg"
      BY <1>2, <1>3
    <3> DEFINE leaves == (mb[e].st = "wfg" /\ e \in Issue(flush)) \/ (Waits(e) /\ Take(e) = {})
    <3>2. leaves => mb'[e] = Slot("abt", mb[e].inst)
      BY <2>1 DEF Flushed, Waits
    <3>3. ~leaves => mb'[e] = Idle
      BY <2>1 DEF Flushed, Waits
    <3>4. Slot("abt", mb[e].inst).st = "abt" /\ Idle.st = "idle"
      BY DEF Slot, Idle
    <3>5. Waits(e)' <=> leaves
      BY <3>2, <3>3, <3>4 DEF Waits
    <3> QED
      BY <3>1, <3>5
  <2>3. Waits(e)' => mb'[e].inst = mb[e].inst
    BY <2>1 DEF Flushed, Waits, Idle, Slot
  <2>4. e \in Issue(flush) => Sent(flush) = {[id |-> e, inst |-> mb[e].inst]}
    BY <1>2, <1>3, SentOne DEF Ready, In
  <2> QED
    BY <1>2, <2>2, <2>3, <2>4 DEF Waits
<1>4. CASE ~flush
  <2>1. mb'[e] = MbNext(e, AllocFor(e, flush), e \in Issue(flush), Take(e),
                        e \in Installed, e \in ExptHit)
    BY <1>4, EntryUpdate
  <2>2. CASE e \in Issue(flush)
    <3>1. CASE mb[e].st = "wfg"
      <4>1. mb'[e] = Slot("wfc", mb[e].inst)
        BY <2>1, <2>2, <3>1 DEF MbNext
      <4>2. Sent(flush) = {[id |-> e, inst |-> mb[e].inst]}
        BY <2>2, <3>1, SentOne DEF Ready, In
      <4> QED
        BY <2>2, <3>1, <4>1, <4>2 DEF Waits, Slot
    <3>2. CASE mb[e].st = "idle"
      <4>1. PICK i \in Inst : AllocFor(e, flush) = {i} /\ Sent(flush) = {[id |-> e, inst |-> i]}
        BY <2>2, <3>2, SentOne DEF Ready, In
      <4>2. mb'[e] = CHOOSE s \in {Slot("wfc", j) : j \in {i}} : TRUE
        BY <2>1, <2>2, <3>2, <4>1 DEF MbNext
      <4>3. mb'[e] = Slot("wfc", i)
        BY <4>2
      <4> QED
        BY <2>2, <3>2, <4>1, <4>3 DEF Waits, Slot
    <3> QED
      BY <1>2, <2>2, <3>1, <3>2
  <2>3. CASE e \notin Issue(flush)
    <3>1. CASE mb[e].st = "idle" /\ AllocFor(e, flush) # {}
      <4>1. PICK p \in Port : AllocFor(e, flush) = {missq[p]}
        BY <3>1, AllocForOne
      <4>2. mb'[e] = CHOOSE s \in {Slot("wfg", i) : i \in {missq[p]}} : TRUE
        BY <2>1, <2>3, <3>1, <4>1 DEF MbNext
      <4>3. mb'[e] = Slot("wfg", missq[p])
        BY <4>2
      <4> QED
        BY <2>3, <3>1, <4>3 DEF Waits, Slot
    <3>2. CASE ~(mb[e].st = "idle" /\ AllocFor(e, flush) # {})
      <4>1. Waits(e)' <=> Waits(e) /\ Take(e) = {}
        BY <1>1, <2>1, <2>3, <3>2 DEF MbNext, Waits, Idle, Slot
      <4>2. Waits(e)' => mb'[e].inst = mb[e].inst
        BY <2>1, <2>3, <3>2 DEF MbNext, Waits, Idle, Slot
      <4> QED
        BY <2>3, <4>1, <4>2
    <3> QED
      BY <3>1, <3>2
  <2> QED
    BY <2>2, <2>3
<1> QED
  BY <1>3, <1>4

\* The walk reported in this cycle leaves the miss buffer of the L2 TLB, a lookup
\* that misses enters it.
Done   == {r \in Req : r = [id |-> ptw.id, inst |-> ptw.inst]}
Missing == {r \in {fin.req} : fin.kind = "walk"}

LEMMA WalksUpdate ==
  ASSUME PipeTypeOK, ResultOfItsRequest, NEW go, Cycle(go)
  PROVE  /\ walks' = (walks \ Done) \cup Missing
         /\ \A r \in walks \cap Done : r.id = ptw.id
         /\ \A r \in Missing : fin.slot \in Left /\ reqq[fin.slot] = r
         /\ WalkReported'
<1>1. walks' = (walks \ Done) \cup Missing
  BY DEF Cycle, L2Edge, Done, Missing
<1>2. \A r \in walks \cap Done : r.id = ptw.id
  BY DEF Done
<1>3. ASSUME NEW r \in Missing
      PROVE  fin.slot \in Left /\ reqq[fin.slot] = r
  <2>1. r = fin.req /\ fin.kind = "walk"
    BY DEF Missing
  <2>2. fin # NoAccess
    BY <2>1 DEF NoAccess
  <2>3. fin.slot \in QSlot /\ reqq[fin.slot] = fin.req /\ fin.req \in Req
    BY <2>2 DEF PipeTypeOK, ResultOfItsRequest
  <2> QED
    BY <2>1, <2>3, NoReqIsNone DEF Left, Dealloc, Held
<1>4. WalkReported'
  <2> SUFFICES ASSUME ptw' # NoAnswer PROVE [id |-> ptw'.id, inst |-> ptw'.inst] \in walks'
    BY DEF WalkReported
  <2>1. PICK r \in walks', k \in {"page", "flt"} : ptw' = AnswerTo(r, k)
    BY DEF Cycle, L2Edge
  <2>2. r \in Req
    BY <1>1, <1>3 DEF PipeTypeOK, Missing, NoAccess
  <2>3. r = [id |-> r.id, inst |-> r.inst]
    BY <2>2 DEF Req
  <2> QED
    BY <2>1, <2>3 DEF AnswerTo
<1> QED
  BY <1>1, <1>2, <1>3, <1>4

\* An answer is for one request, which is then gone; the others are not answered.
LEMMA AnswersOne ==
  ASSUME PipeTypeOK, ResultOfItsRequest, OneRequest
  PROVE  /\ \A s \in Held \ Left : Take(reqq[s].id) = {}
         /\ \A r \in walks \ Done : Take(r.id) = {}
         /\ \A r \in Missing : fin.slot \in Left => Take(r.id) = {}
         /\ \A s \in Left : fin.kind # "walk" => Take(reqq[s].id) # {}
         /\ \A r \in walks \cap Done : Take(r.id) # {}
<1>1. /\ \A s \in Held : reqq[s] \in Req /\ reqq[s].id \in Entry
      /\ \A r \in walks : r.id \in Entry
  BY DEF PipeTypeOK, Held, Req
<1>2. NoAnswer.id \notin Entry
  BY SizeAssumption DEF NoAnswer, Entry
<1>3. ptw.id \in Entry => \E r \in walks \cap Done : r.id = ptw.id
  <2>1. ptw.id \in Entry => ptw # NoAnswer
    BY <1>2
  <2>2. ptw # NoAnswer => [id |-> ptw.id, inst |-> ptw.inst] \in walks
    BY DEF OneRequest, WalkReported
  <2> QED
    BY <2>1, <2>2 DEF PipeTypeOK, Done
<1>4. Jtlb.id \in Entry => /\ fin # NoAccess /\ fin.kind \in {"page", "flt"}
                           /\ fin.slot \in Held /\ reqq[fin.slot].id = Jtlb.id
                           /\ fin.slot \in Left
  <2> SUFFICES ASSUME Jtlb.id \in Entry
               PROVE  /\ fin # NoAccess /\ fin.kind \in {"page", "flt"}
                      /\ fin.slot \in Held /\ reqq[fin.slot].id = Jtlb.id
                      /\ fin.slot \in Left
    OBVIOUS
  <2>1. fin # NoAccess /\ fin.kind \in {"page", "flt"} /\ Jtlb.id = fin.req.id
    BY <1>2, JtlbOfFin
  <2>2. fin.slot \in QSlot /\ reqq[fin.slot] = fin.req /\ fin.req \in Req
    BY <2>1 DEF PipeTypeOK, ResultOfItsRequest
  <2> QED
    BY <2>1, <2>2, NoReqIsNone DEF Held, Left, Dealloc
<1>5. ASSUME NEW s \in Held \ Left PROVE Take(reqq[s].id) = {}
  <2>1. ptw.id # reqq[s].id
    BY <1>1, <1>3 DEF OneRequest, RequestsDistinct
  <2>2. Jtlb.id # reqq[s].id
    BY <1>1, <1>4 DEF OneRequest, RequestsDistinct
  <2> QED
    BY <2>1, <2>2 DEF Take
<1>6. ASSUME NEW r \in walks \ Done PROVE Take(r.id) = {}
  <2>1. ptw.id # r.id
    BY <1>1, <1>3 DEF OneRequest, RequestsDistinct
  <2>2. Jtlb.id # r.id
    BY <1>1, <1>4 DEF OneRequest, RequestsDistinct
  <2> QED
    BY <2>1, <2>2 DEF Take
<1>7. ASSUME NEW r \in Missing, fin.slot \in Left PROVE Take(r.id) = {}
  <2>1. r = fin.req /\ fin.kind = "walk" /\ fin # NoAccess
    BY DEF Missing, NoAccess
  <2>2. fin.slot \in Held /\ reqq[fin.slot] = r
    BY <1>7, <2>1 DEF ResultOfItsRequest, Left, Dealloc
  <2>3. ptw.id # r.id
    BY <1>1, <1>3, <2>2 DEF OneRequest, RequestsDistinct
  <2>4. Jtlb.id # r.id
    BY <1>1, <1>4, <2>1, <2>2
  <2> QED
    BY <2>3, <2>4 DEF Take
<1>8. ASSUME NEW s \in Left, fin.kind # "walk" PROVE Take(reqq[s].id) # {}
  <2>1. s = fin.slot /\ s \in Held /\ fin.kind # "retry"
    BY DEF Left, Dealloc
  <2>2. fin # NoAccess
    BY <2>1, NoSlotIsNone DEF Held, NoAccess
  <2>3. fin.kind \in {"page", "flt"}
    BY <1>8, <2>1, <2>2 DEF PipeTypeOK, Result
  <2>4. Jtlb.id = reqq[s].id
    BY <2>1, <2>2, <2>3, JtlbOfFin DEF ResultOfItsRequest
  <2> QED
    BY <2>4 DEF Take
<1>9. \A r \in walks \cap Done : Take(r.id) # {}
  BY DEF Take, Done
<1> QED
  BY <1>5, <1>6, <1>7, <1>8, <1>9

LEMMA OneRequestStep ==
  ASSUME MissTypeOK, PipeTypeOK, CreditCount, ResultOfItsRequest, OneRequest, NEW go, Cycle(go)
  PROVE  OneRequest'
<1>0. /\ walks' = (walks \ Done) \cup Missing
      /\ Held' = (Held \ Left) \cup Written
      /\ \A r \in Missing : fin.slot \in Left /\ reqq[fin.slot] = r
      /\ Left \subseteq Held
      /\ Written \cap Held = {}
  BY WalksUpdate, QueueUpdate
<1>1. \A s \in Held \ Left : reqq'[s] = reqq[s]
  BY QueueUpdate DEF Held
<1>2. /\ \A s \in Held : reqq[s].id \in Entry
      /\ \A r \in walks : r.id \in Entry
  BY DEF PipeTypeOK, Held, Req
\* A request written is that of the entry issued, which does not wait.
<1>3. ASSUME NEW s \in Written
      PROVE  /\ reqq'[s].id \in Issue(flush) /\ reqq'[s].id \in Entry
             /\ ~Waits(reqq'[s].id)
             /\ mb'[reqq'[s].id].st \in {"wfc", "abt"}
             /\ mb'[reqq'[s].id].inst = reqq'[s].inst
  <2>1. Sent(flush) = {reqq'[s]}
    BY QueueUpdate
  <2>2. PICK e \in Issue(flush) : TRUE
    BY <2>1, SentInReq
  <2>3. e \in Entry
    BY IssueOne
  <2>4. Sent(flush) = {[id |-> e, inst |-> mb'[e].inst]} /\ ~Waits(e) /\ Waits(e)'
    BY <2>2, <2>3, WaitsStep
  <2>5. reqq'[s] = [id |-> e, inst |-> mb'[e].inst]
    BY <2>1, <2>4
  <2> QED
    BY <2>2, <2>3, <2>4, <2>5 DEF Waits
<1>4. ASSUME NEW e \in Entry, Waits(e), Take(e) = {}
      PROVE  Waits(e)' /\ mb'[e].inst = mb[e].inst
  BY <1>4, WaitsStep
<1>5. RequestsDistinct'
  <2>1. ASSUME NEW s \in Held', NEW t \in Held', reqq'[s].id = reqq'[t].id PROVE s = t
    <3>1. CASE s \in Held \ Left /\ t \in Held \ Left
      BY <1>1, <2>1, <3>1 DEF OneRequest, RequestsDistinct
    <3>2. CASE s \in Written /\ t \in Written
      BY <3>2, QueueUpdate
    <3>3. \A x \in Held \ Left, y \in Written : reqq'[x].id # reqq'[y].id
      BY <1>1, <1>3 DEF OneRequest, RequestIsAwaited
    <3> QED
      BY <1>0, <2>1, <3>1, <3>2, <3>3
  <2>2. ASSUME NEW r \in walks', NEW q \in walks', r.id = q.id PROVE r = q
    <3>1. \A x \in walks, y \in Missing : x.id # y.id
      BY <1>0 DEF OneRequest, RequestsDistinct
    <3>2. \A x, y \in Missing : x = y
      BY DEF Missing
    <3> QED
      BY <1>0, <2>2, <3>1, <3>2 DEF OneRequest, RequestsDistinct
  <2>3. ASSUME NEW s \in Held', NEW r \in walks' PROVE reqq'[s].id # r.id
    <3>1. r \in walks \/ (r = reqq[fin.slot] /\ fin.slot \in Left)
      BY <1>0, <2>3
    <3>2. Waits(r.id)
      BY <1>0, <3>1 DEF OneRequest, RequestIsAwaited
    <3>3. CASE s \in Held \ Left
      BY <1>0, <1>1, <3>1, <3>3 DEF OneRequest, RequestsDistinct
    <3>4. CASE s \in Written
      BY <1>3, <3>2, <3>4
    <3> QED
      BY <1>0, <2>3, <3>3, <3>4
  <2> QED
    BY <2>1, <2>2, <2>3 DEF RequestsDistinct
<1>6. RequestIsAwaited'
  <2>1. ASSUME NEW s \in Held'
        PROVE  mb'[reqq'[s].id].st \in {"wfc", "abt"} /\ mb'[reqq'[s].id].inst = reqq'[s].inst
    <3>1. CASE s \in Held \ Left
      <4>1. /\ Take(reqq[s].id) = {} /\ Waits(reqq[s].id) /\ mb[reqq[s].id].inst = reqq[s].inst
            /\ reqq[s].id \in Entry
        BY <1>2, <3>1, AnswersOne DEF OneRequest, RequestIsAwaited
      <4>2. mb'[reqq[s].id].st \in {"wfc", "abt"} /\ mb'[reqq[s].id].inst = mb[reqq[s].id].inst
        BY <1>4, <4>1 DEF Waits
      <4> QED
        BY <1>1, <3>1, <4>1, <4>2
    <3>2. CASE s \in Written
      BY <1>3, <3>2
    <3> QED
      BY <1>0, <2>1, <3>1, <3>2
  <2>2. ASSUME NEW r \in walks'
        PROVE  mb'[r.id].st \in {"wfc", "abt"} /\ mb'[r.id].inst = r.inst
    <3>1. Take(r.id) = {} /\ Waits(r.id) /\ mb[r.id].inst = r.inst /\ r.id \in Entry
      <4>1. CASE r \in walks \ Done
        BY <1>2, <4>1, AnswersOne DEF OneRequest, RequestIsAwaited
      <4>2. CASE r \in Missing
        BY <1>0, <1>2, <4>2, AnswersOne DEF OneRequest, RequestIsAwaited
      <4> QED
        BY <1>0, <2>2, <4>1, <4>2
    <3> QED
      BY <1>4, <3>1 DEF Waits
  <2> QED
    BY <2>1, <2>2 DEF RequestIsAwaited, Waits
<1>7. WaitHasRequest'
  <2> SUFFICES ASSUME NEW e \in Entry, mb'[e].st \in {"wfc", "abt"}
               PROVE  \/ \E s \in Held' : reqq'[s].id = e
                      \/ \E r \in walks' : r.id = e
    BY DEF WaitHasRequest, Waits
  <2>1. (Waits(e) /\ Take(e) = {}) \/ e \in Issue(flush)
    BY WaitsStep DEF Waits
  <2>2. CASE e \in Issue(flush)
    <3>1. PICK s \in Free : Written = Free
      BY <2>2, SentInReq, RoomForRequest DEF Written
    <3>2. reqq'[s].id \in Issue(flush) /\ s \in Held'
      BY <1>0, <1>3, <3>1
    <3> QED
      BY <2>2, <3>2, IssueOne
  <2>3. CASE Waits(e) /\ Take(e) = {}
    <3>1. CASE \E s \in Held : reqq[s].id = e
      <4>1. PICK s \in Held : reqq[s].id = e
        BY <3>1
      <4>2. CASE s \notin Left
        BY <1>0, <1>1, <4>1, <4>2
      <4>3. CASE s \in Left
        <5>1. fin.kind = "walk" /\ s = fin.slot /\ fin # NoAccess
          BY <2>3, <4>1, <4>3, AnswersOne DEF Left, Dealloc, NoAccess
        <5>2. fin.req \in walks' /\ fin.req.id = e
          BY <1>0, <4>1, <5>1 DEF Missing, ResultOfItsRequest
        <5> QED
          BY <5>2
      <4> QED
        BY <4>2, <4>3
    <3>2. CASE \E r \in walks : r.id = e
      BY <1>0, <2>3, <3>2, AnswersOne
    <3> QED
      BY <2>3, <3>1, <3>2 DEF OneRequest, WaitHasRequest
  <2> QED
    BY <2>1, <2>2, <2>3
<1> QED
  BY <1>5, <1>6, <1>7, WalksUpdate DEF OneRequest

LEMMA CountRequests ==
  ASSUME PipeTypeOK, OneRequest
  PROVE  OneRequestPerMiss
<1> SUFFICES ASSUME NEW e \in Entry
             PROVE  /\ Cardinality(Outstanding(e)) + Cardinality(WalksOf(e))
                          = IF Waits(e) THEN 1 ELSE 0
                    /\ \A s \in Outstanding(e) : reqq[s].inst = mb[e].inst
                    /\ \A r \in WalksOf(e) : r.inst = mb[e].inst
  BY DEF OneRequestPerMiss, Waits
<1>1. /\ \A s \in Outstanding(e) : reqq[s].inst = mb[e].inst
      /\ \A r \in WalksOf(e) : r.inst = mb[e].inst
  BY DEF OneRequest, RequestIsAwaited, Outstanding, WalksOf
<1>2. Cardinality({}) = 0 /\ \A x : Cardinality({x}) = 1
  BY FS_EmptySet, FS_Singleton
<1>3. CASE Outstanding(e) # {}
  <2>1. PICK s \in Outstanding(e) : TRUE
    BY <1>3
  <2>2. Outstanding(e) = {s} /\ WalksOf(e) = {} /\ Waits(e)
    BY <2>1 DEF OneRequest, RequestsDistinct, RequestIsAwaited, Outstanding, WalksOf
  <2> QED
    BY <1>1, <1>2, <2>2
<1>4. CASE Outstanding(e) = {} /\ WalksOf(e) # {}
  <2>1. PICK r \in WalksOf(e) : TRUE
    BY <1>4
  <2>2. WalksOf(e) = {r} /\ Waits(e)
    BY <2>1 DEF OneRequest, RequestsDistinct, RequestIsAwaited, WalksOf
  <2> QED
    <3>1. Cardinality(Outstanding(e)) = 0 /\ Cardinality(WalksOf(e)) = 1
      BY <1>2, <1>4, <2>2
    <3> QED
      BY <1>1, <2>2, <3>1
<1>5. CASE Outstanding(e) = {} /\ WalksOf(e) = {}
  <2>1. ~Waits(e)
    BY <1>5 DEF OneRequest, WaitHasRequest, Outstanding, WalksOf
  <2> QED
    BY <1>1, <1>2, <1>5, <2>1
<1> QED
  BY <1>3, <1>4, <1>5

\* An entry that takes an answer of the walker has no request left in the queue, so
\* that the two answers of a cycle are never for one entry.
LEMMA AnswersDiffer ==
  ASSUME PipeTypeOK, ResultOfItsRequest, OneRequest, NEW e \in Entry
  PROVE  ~(ptw.id = e /\ Jtlb.id = e)
<1> SUFFICES ASSUME ptw.id = e, Jtlb.id = e PROVE FALSE
  OBVIOUS
<1>1. ptw # NoAnswer /\ Jtlb # NoAnswer
  BY SizeAssumption DEF NoAnswer, Entry
<1>2. [id |-> e, inst |-> ptw.inst] \in walks
  BY <1>1 DEF OneRequest, WalkReported
<1>3. fin # NoAccess /\ fin.req.id = e
  BY <1>1, JtlbOfFin
<1>4. fin.slot \in Held /\ reqq[fin.slot].id = e
  BY <1>3, NoReqIsNone DEF PipeTypeOK, ResultOfItsRequest, Held
<1> QED
  BY <1>2, <1>4 DEF OneRequest, RequestsDistinct

LEMMA FaultStep ==
  ASSUME MissTypeOK, PipeTypeOK, ResultOfItsRequest, OneRequest, FaultTracked, NEW go, Cycle(go)
  PROVE  FaultTracked'
<1> SUFFICES ASSUME NEW e \in Entry
             PROVE  cam'[e] = IF mb'[e].st = "flt" THEN mb'[e].inst ELSE NoInst
  BY DEF FaultTracked
<1> DEFINE faulted == ExptWrite(ptw, flush) \cup ExptWrite(Jtlb, flush)
<1>1. cam'[e] = CASE flush -> NoInst
                  [] e \in faulted /\ ~flush -> mb[e].inst
                  [] e \in ExptHit \ faulted /\ ~flush -> NoInst
                  [] OTHER -> cam[e]
  BY DEF Cycle, L1DtlbEdge, ExptHit
<1>2. cam[e] = IF mb[e].st = "flt" THEN mb[e].inst ELSE NoInst
  BY DEF FaultTracked
<1>3. CASE flush
  <2>1. mb'[e] = Flushed(e, e \in Issue(flush), Take(e))
    BY <1>3, EntryUpdate
  <2>2. mb'[e].st # "flt"
    BY <2>1 DEF Flushed, Slot, Idle
  <2> QED
    BY <1>1, <1>3, <2>2
<1>4. CASE ~flush
  <2>1. mb'[e] = MbNext(e, AllocFor(e, flush), e \in Issue(flush), Take(e),
                        e \in Installed, e \in ExptHit)
    BY <1>4, EntryUpdate
  <2>2. e \in faulted <=> mb[e].st = "wfc" /\ \E b \in Take(e) : b.kind = "flt"
    BY <1>4, AnswersDiffer DEF ExptWrite, In, Take, Valid
  <2>3. CASE e \in faulted
    <3>1. mb[e].st = "wfc" /\ (\E b \in Take(e) : b.kind = "flt") /\ ~\E b \in Take(e) : b.kind = "page"
      BY <2>2, <2>3 DEF Take
    <3>2. mb'[e] = Slot("flt", mb[e].inst)
      BY <2>1, <3>1 DEF MbNext
    <3> QED
      BY <1>1, <1>4, <2>3, <3>2 DEF Slot
  <2>4. CASE e \notin faulted /\ e \in ExptHit
    <3>1. mb[e].st = "flt"
      BY <1>2, <2>4, InstAssumption DEF ExptHit, ExptMatch, NoInst
    <3>2. mb'[e] = Idle
      BY <2>1, <2>4, <3>1 DEF MbNext
    <3> QED
      BY <1>1, <1>4, <2>4, <3>2 DEF Idle, Slot
  <2>5. CASE e \notin faulted /\ e \notin ExptHit
    <3>1. cam'[e] = cam[e]
      BY <1>1, <1>4, <2>5
    <3>2. CASE mb[e].st = "flt"
      <4>1. mb'[e] = mb[e]
        BY <2>1, <2>5, <3>2 DEF MbNext
      <4> QED
        BY <1>2, <3>1, <4>1
    <3>3. CASE mb[e].st # "flt"
      <4>1. mb'[e].st # "flt"
        <5>1. CASE mb[e].st = "idle" /\ AllocFor(e, flush) # {}
          <6>1. PICK p \in Port : AllocFor(e, flush) = {missq[p]}
            BY <5>1, AllocForOne
          <6>2. mb'[e] = CHOOSE s \in {Slot(IF e \in Issue(flush) THEN "wfc" ELSE "wfg", i) :
                                         i \in {missq[p]}} : TRUE
            BY <2>1, <5>1, <6>1 DEF MbNext
          <6>3. mb'[e] = Slot(IF e \in Issue(flush) THEN "wfc" ELSE "wfg", missq[p])
            BY <6>2
          <6> QED
            BY <6>3 DEF Slot
        <5>2. CASE ~(mb[e].st = "idle" /\ AllocFor(e, flush) # {})
          <6>1. mb'[e] \in {mb[e], Idle, Slot("wfc", mb[e].inst), Slot("wfi", mb[e].inst)}
            BY <2>1, <2>2, <2>5, <3>3, <5>2 DEF MbNext
          <6> QED
            BY <3>3, <6>1 DEF Slot, Idle
        <5> QED
          BY <5>1, <5>2
      <4> QED
        BY <1>2, <3>1, <3>3, <4>1
    <3> QED
      BY <3>2, <3>3
  <2> QED
    BY <2>3, <2>4, <2>5
<1> QED
  BY <1>3, <1>4

-----------------------------------------------------------------------------
(***************************************************************************)
(* The inductive invariant.                                                *)
(***************************************************************************)
IInv ==
  /\ MissTypeOK
  /\ PipeTypeOK
  /\ RestTypeOK
  /\ BusyIsMiss
  /\ CreditCount
  /\ NoDuplicateMiss
  /\ ResultOfItsRequest
  /\ OneRequest
  /\ FaultTracked

LEMMA InitIInv == Init => IInv
<1> SUFFICES ASSUME Init PROVE IInv
  OBVIOUS
<1> USE DEF Init, L1DtlbInit, L2ReqQInit
<1>1. MissTypeOK
  BY DEF MissTypeOK
<1>2. PipeTypeOK
  BY DEF PipeTypeOK
<1>3. RestTypeOK
  <2>1. 1 \in Entry
    BY SizeAssumption DEF Entry
  <2> QED
    BY <2>1 DEF RestTypeOK
<1>4. BusyIsMiss
  BY DEF BusyIsMiss
<1>5. CreditCount
  <2>1. Held = {}
    BY DEF Held
  <2> QED
    BY <2>1, FS_EmptySet, SizeAssumption DEF CreditCount
<1>6. NoDuplicateMiss
  BY DEF NoDuplicateMiss, Valid, In, Idle, Slot
<1>7. ResultOfItsRequest
  BY DEF ResultOfItsRequest, NoAccess
<1>8. OneRequest
  BY DEF OneRequest, RequestsDistinct, RequestIsAwaited, WaitHasRequest, WalkReported,
         Held, Waits, Idle, Slot
<1>9. FaultTracked
  BY DEF FaultTracked, Idle, Slot
<1> QED
  BY <1>1, <1>2, <1>3, <1>4, <1>5, <1>6, <1>7, <1>8, <1>9 DEF IInv

LEMMA NextIInv == IInv /\ [Next]_vars => IInv'
<1>1. ASSUME IInv, NEW grant \in BOOLEAN, NEW go, go = Issued(Sent(flush), grant), Cycle(go)
      PROVE  IInv'
  <2>1. MissTypeOK'
    BY <1>1, MissTypeStep DEF IInv
  <2>2. PipeTypeOK'
    BY <1>1, PipeTypeStep DEF IInv
  <2>3. RestTypeOK' /\ BusyIsMiss'
    BY <1>1, RestTypeStep DEF IInv
  <2>4. CreditCount'
    BY <1>1, CreditStep DEF IInv
  <2>5. NoDuplicateMiss'
    BY <1>1, NoDuplicateStep DEF IInv
  <2>6. ResultOfItsRequest'
    BY <1>1, ResultStep DEF IInv
  <2>7. OneRequest'
    BY <1>1, OneRequestStep DEF IInv
  <2>8. FaultTracked'
    BY <1>1, FaultStep DEF IInv
  <2> QED
    BY <2>1, <2>2, <2>3, <2>4, <2>5, <2>6, <2>7, <2>8 DEF IInv
<1>2. ASSUME IInv, UNCHANGED vars PROVE IInv'
  <2> USE <1>2 DEF IInv, vars, dtlbVars, reqqVars
  <2>1. MissTypeOK' /\ PipeTypeOK'
    BY DEF MissTypeOK, PipeTypeOK
  <2>2. RestTypeOK' /\ BusyIsMiss'
    BY DEF RestTypeOK, BusyIsMiss
  <2>3. CreditCount'
    BY DEF CreditCount, Held
  <2>4. NoDuplicateMiss'
    BY DEF NoDuplicateMiss, Valid, In
  <2>5. ResultOfItsRequest'
    BY DEF ResultOfItsRequest
  <2>6. OneRequest'
    BY DEF OneRequest, RequestsDistinct, RequestIsAwaited, WaitHasRequest, WalkReported,
           Held, Waits
  <2>7. FaultTracked'
    BY DEF FaultTracked
  <2> QED
    BY <2>1, <2>2, <2>3, <2>4, <2>5, <2>6, <2>7
<1> QED
  BY <1>1, <1>2 DEF Next

THEOREM Invariance == Spec => []IInv
<1> QED
  BY InitIInv, NextIInv, PTL DEF Spec

\* Every register keeps to its range.
THEOREM TypeCorrect == Spec => []TypeOK
<1>1. IInv => TypeOK
  BY DEF IInv, MissTypeOK, PipeTypeOK, RestTypeOK, CreditCount, TypeOK,
         L1DtlbTypeOK, L2ReqQTypeOK
<1> QED
  BY Invariance, <1>1, PTL

\* The L1 data TLB never asks for a page twice, whichever ports miss in which order
\* and whatever is flushed (mb_hit and same_4k in mmu_l1dtlb.sv).
THEOREM OneMissPerPage == Spec => []NoDuplicateMiss
<1>1. IInv => NoDuplicateMiss
  BY DEF IInv
<1> QED
  BY Invariance, <1>1, PTL

\* The credits of the L1 data TLB count the entries left in the L2 request queue,
\* so that the queue, which does not look for room, has room for every request.
THEOREM CreditsSuffice == Spec => []CreditsMatch
<1>1. IInv => CreditsMatch
  BY RoomForRequest DEF IInv, CreditCount, CreditsMatch
<1> QED
  BY Invariance, <1>1, PTL

\* A result of the L2 pipeline is for the request its entry holds: no entry is left
\* and written again while its request is in the pipeline.
THEOREM ResultsMatch == Spec => []ResultOfItsRequest
<1>1. IInv => ResultOfItsRequest
  BY DEF IInv
<1> QED
  BY Invariance, <1>1, PTL

\* An answer reaches the miss it was computed for although it names an entry only:
\* the entry has exactly one request in the L2 TLB while it waits for an answer or
\* for the answer to a miss flushed meanwhile (WFC and ABT), and none otherwise.
THEOREM AnswersAreForTheirMiss == Spec => []OneRequestPerMiss
<1>1. IInv => OneRequestPerMiss
  BY CountRequests DEF IInv
<1> QED
  BY Invariance, <1>1, PTL

\* A fault is recorded as long as its entry waits for it to be taken, and no
\* longer, whatever is flushed (mmu_l1dtlb_expt_cam.sv).
THEOREM FaultsAreTracked == Spec => []FaultTracked
<1>1. IInv => FaultTracked
  BY DEF IInv
<1> QED
  BY Invariance, <1>1, PTL
-----------------------------------------------------------------------------
(***************************************************************************)
(* The entries of the miss buffer implement PageMisses.  An entry is for   *)
(* one page, and a page has at most one entry: what the page comes to is   *)
(* what its entry does, and a page without one gets one only by a miss.    *)
(***************************************************************************)
StatusNow(s) == IF s = "idle" THEN "none" ELSE StatusIn(s)
Ask  == {PageOf[mb'[e].inst] : e \in Issue(flush)}
Come == {PageOf[r.inst] : r \in Install(Jtlb, ptw)}

MissIsOfEntry ==
  \A p \in Page : /\ \A e \in Entry : IsFor(e, p) => MissOf[p] = StatusIn(mb[e].st)
                  /\ (\A e \in Entry : ~IsFor(e, p)) => MissOf[p] = "none"

LEMMA MissOfEntry == NoDuplicateMiss => MissIsOfEntry
<1> SUFFICES ASSUME NoDuplicateMiss, NEW p \in Page
             PROVE  /\ \A e \in Entry : IsFor(e, p) => MissOf[p] = StatusIn(mb[e].st)
                    /\ (\A e \in Entry : ~IsFor(e, p)) => MissOf[p] = "none"
  BY DEF MissIsOfEntry
<1>1. \A e, f \in Entry : IsFor(e, p) /\ IsFor(f, p) => e = f
  BY DEF IsFor, NoDuplicateMiss, Valid, In
<1>2. ASSUME NEW e \in Entry, IsFor(e, p) PROVE MissOf[p] = StatusIn(mb[e].st)
  <2>1. (CHOOSE f \in Entry : IsFor(f, p)) = e
    BY <1>1, <1>2
  <2> QED
    BY <1>2, <2>1 DEF MissOf
<1> QED
  BY <1>2 DEF MissOf

LEMMA MissLimit ==
  NoDuplicateMiss => Cardinality({p \in Page : MissOf[p] # "none"}) <= MbDepth
<1> SUFFICES ASSUME NoDuplicateMiss
             PROVE  Cardinality({p \in Page : MissOf[p] # "none"}) <= MbDepth
  OBVIOUS
<1> DEFINE S == {p \in Page : MissOf[p] # "none"}
           f == [p \in S |-> CHOOSE e \in Entry : IsFor(e, p)]
<1>1. ASSUME NEW p \in S PROVE f[p] \in Entry /\ IsFor(f[p], p)
  BY <1>1 DEF MissOf
<1>2. f \in [S -> Entry]
  BY <1>1
<1>3. IsInjective(f)
  <2> SUFFICES ASSUME NEW p \in S, NEW q \in S, f[p] = f[q] PROVE p = q
    BY DEF IsInjective
  <2> QED
    BY <1>1 DEF IsFor
<1>4. IsFiniteSet(Entry) /\ Cardinality(Entry) = MbDepth
  <2>1. 1 \in Int /\ MbDepth \in Int /\ MbDepth >= 1
    BY SizeAssumption
  <2> QED
    BY <2>1, FS_Interval DEF Entry
<1>5. f \in Injection(S, Entry)
  BY <1>2, <1>3 DEF Injection
<1> QED
  BY <1>4, <1>5, FS_Injection

\* One page is installed at most, for an entry that waits for it: of an answer, the
\* entry it names waits, for the instruction it names.
LEMMA InstalledOne ==
  ASSUME PipeTypeOK, ResultOfItsRequest, OneRequest
  PROVE  /\ \A r, q \in Install(Jtlb, ptw) : r = q
         /\ \A r \in Install(Jtlb, ptw) :
              /\ r.id \in Entry /\ mb[r.id].st \in {"wfc", "wfi"}
              /\ r.inst = mb[r.id].inst
         /\ \A e \in Installed : mb[e].st = "wfc" =>
              /\ \E b \in Take(e) : b.kind = "page"
              /\ ~\E b \in Take(e) : b.kind = "flt"
<1>1. In("wfi") \in SUBSET Nat
  BY SizeAssumption DEF In, Entry
<1>2. ASSUME NEW e \in Entry, e \in Fresh(ptw)
      PROVE  mb[e].st = "wfc" /\ mb[e].inst = ptw.inst /\ Take(e) = {ptw}
  <2>1. ptw.id = e /\ ptw.kind = "page" /\ mb[e].st # "abt"
    BY <1>2 DEF Fresh
  <2>2. ptw # NoAnswer
    BY <2>1 DEF NoAnswer
  <2>3. Waits(e) /\ mb[e].inst = ptw.inst
    BY <2>1, <2>2 DEF OneRequest, WalkReported, RequestIsAwaited
  <2> QED
    BY <2>1, <2>3 DEF Waits, Take
<1>3. ASSUME NEW e \in Entry, e \in Fresh(Jtlb)
      PROVE  mb[e].st = "wfc" /\ mb[e].inst = Jtlb.inst /\ Take(e) = {Jtlb}
  <2>1. Jtlb.id = e /\ Jtlb.kind = "page" /\ mb[e].st # "abt"
    BY <1>3 DEF Fresh
  <2>2. Jtlb # NoAnswer
    BY <2>1 DEF NoAnswer
  <2>3. fin # NoAccess /\ fin.req.id = e /\ fin.req.inst = Jtlb.inst
    BY <2>1, <2>2, JtlbOfFin DEF Jtlb, AnswerTo
  <2>4. fin.slot \in Held /\ reqq[fin.slot] = fin.req
    BY <2>3, NoReqIsNone DEF PipeTypeOK, ResultOfItsRequest, Held
  <2>5. Waits(e) /\ mb[e].inst = Jtlb.inst
    BY <2>3, <2>4 DEF OneRequest, RequestIsAwaited
  <2>6. ptw.id # e
    BY <2>1, AnswersDiffer
  <2> QED
    BY <2>1, <2>5, <2>6 DEF Waits, Take
<1>4. CASE In("wfi") # {}
  <2>1. Install(Jtlb, ptw) = {[id |-> e, inst |-> mb[e].inst] : e \in Lowest(In("wfi"))}
    BY <1>4 DEF Install
  <2>2. Lowest(In("wfi")) \subseteq In("wfi") /\ \A e, f \in Lowest(In("wfi")) : e = f
    BY <1>1, LowestIsLeast
  <2>3. \A e \in Lowest(In("wfi")) : e \in Entry /\ mb[e].st = "wfi"
    BY <2>2 DEF In
  <2>4. \A r \in Install(Jtlb, ptw) :
          r.id \in Lowest(In("wfi")) /\ r = [id |-> r.id, inst |-> mb[r.id].inst]
    BY <2>1
  <2>5. \A e \in Installed : e \in Lowest(In("wfi"))
    BY <2>4 DEF Installed
  <2> QED
    BY <2>2, <2>3, <2>4, <2>5
<1>5. CASE In("wfi") = {} /\ Fresh(ptw) # {}
  <2>1. Install(Jtlb, ptw) = {[id |-> ptw.id, inst |-> ptw.inst]}
    BY <1>5, SMT DEF Install
  <2>2. ptw.id \in Entry /\ ptw.id \in Fresh(ptw) /\ ptw.kind = "page"
    BY <1>5 DEF Fresh, Valid
  <2> QED
    BY <1>2, <2>1, <2>2 DEF Installed
<1>6. CASE In("wfi") = {} /\ Fresh(ptw) = {}
  <2>1. Install(Jtlb, ptw) = {[id |-> e, inst |-> Jtlb.inst] : e \in Fresh(Jtlb)}
    BY <1>6, SMT DEF Install
  <2>2. \A e \in Fresh(Jtlb) : e \in Entry /\ e = Jtlb.id /\ Jtlb.kind = "page"
    BY DEF Fresh, Valid
  <2> QED
    BY <1>3, <2>1, <2>2 DEF Installed
<1> QED
  BY <1>4, <1>5, <1>6

\* What an entry in use comes to, in the terms of PageMisses.
LEMMA EntryGoes ==
  ASSUME IInv, NEW go, Cycle(go), NEW e \in Entry, mb[e].st # "idle"
  PROVE  /\ mb'[e].st # "idle" => mb'[e].inst = mb[e].inst
         /\ StatusNow(mb'[e].st) \in
              IF flush THEN Misses!GivenUp(StatusIn(mb[e].st), e \in Issue(flush))
              ELSE Misses!Goes(StatusIn(mb[e].st), e \in Issue(flush), e \in Installed)
<1> DEFINE issued == e \in Issue(flush)
<1>1. mb[e].st \in State \ {"idle"} /\ mb[e] = Slot(mb[e].st, mb[e].inst)
  BY DEF IInv, MissTypeOK, Idle, Slot
<1>2. mb'[e].st # "idle" => mb'[e].inst = mb[e].inst
  <2>1. \A p \in Port : e \notin Alloc(p, flush)
    BY AllocIsFree DEF IInv, In
  <2>2. \/ mb'[e] = Idle
        \/ \E s \in State \ {"idle"} : mb'[e] = Slot(s, mb[e].inst)
    BY <2>1, EntryStep DEF IInv
  <2>3. CASE mb'[e] = Idle
    BY <2>3 DEF Idle, Slot
  <2>4. CASE \E s \in State \ {"idle"} : mb'[e] = Slot(s, mb[e].inst)
    <3>1. PICK s \in State \ {"idle"} : mb'[e] = Slot(s, mb[e].inst)
      BY <2>4
    <3> QED
      BY <3>1 DEF Slot
  <2> QED
    BY <2>2, <2>3, <2>4
<1>3. CASE flush
  <2>1. mb'[e] = Flushed(e, issued, Take(e))
    BY <1>3, EntryUpdate DEF IInv
  <2>2. mb'[e].st = IF (mb[e].st = "wfg" /\ issued) \/ (mb[e].st \in {"wfc", "abt"} /\ Take(e) = {})
                    THEN "abt" ELSE "idle"
    BY <2>1 DEF Flushed, Slot, Idle
  <2>3. StatusNow(mb'[e].st) \in Misses!GivenUp(StatusIn(mb[e].st), issued)
    BY <1>1, <2>2 DEF StatusNow, StatusIn, Misses!GivenUp, State
  <2> QED
    BY <1>2, <1>3, <2>3
<1>4. CASE ~flush
  <2>1. mb'[e] = MbNext(e, AllocFor(e, flush), issued, Take(e), e \in Installed, e \in ExptHit)
    BY <1>4, EntryUpdate DEF IInv
  <2>2. StatusNow(mb'[e].st) \in Misses!Goes(StatusIn(mb[e].st), issued, e \in Installed)
    <3>1. CASE mb[e].st = "wfg"
      <4>1. mb'[e].st = IF issued THEN "wfc" ELSE "wfg"
        BY <2>1, <3>1 DEF MbNext, Slot
      <4> QED
        BY <3>1, <4>1 DEF StatusNow, StatusIn, Misses!Goes
    <3>2. CASE mb[e].st = "wfi"
      <4>1. mb'[e].st = IF e \in Installed THEN "idle" ELSE "wfi"
        BY <2>1, <3>2 DEF MbNext, Slot, Idle
      <4> QED
        BY <3>2, <4>1 DEF StatusNow, StatusIn, Misses!Goes
    <3>3. CASE mb[e].st = "flt"
      <4>1. mb'[e].st \in {"idle", "flt"}
        BY <2>1, <3>3 DEF MbNext, Slot, Idle
      <4> QED
        BY <3>3, <4>1 DEF StatusNow, StatusIn, Misses!Goes
    <3>4. CASE mb[e].st = "abt"
      <4>1. mb'[e].st \in {"idle", "abt"}
        BY <2>1, <3>4 DEF MbNext, Slot, Idle
      <4> QED
        BY <3>4, <4>1 DEF StatusNow, StatusIn, Misses!Goes
    <3>5. CASE mb[e].st = "wfc"
      <4>1. e \in Installed => (\E b \in Take(e) : b.kind = "page")
                               /\ ~\E b \in Take(e) : b.kind = "flt"
        BY <3>5, InstalledOne DEF IInv
      <4>2. CASE e \in Installed
        <5>1. mb'[e].st = "idle"
          BY <2>1, <3>5, <4>1, <4>2 DEF MbNext, Idle, Slot
        <5> QED
          BY <3>5, <4>2, <5>1 DEF StatusNow, StatusIn, Misses!Goes
      <4>3. CASE e \notin Installed
        <5>1. mb'[e] \in {mb[e], Slot("flt", mb[e].inst), Slot("wfi", mb[e].inst)}
          BY <2>1, <3>5, <4>3 DEF MbNext
        <5>2. mb'[e].st \in {"wfc", "flt", "wfi"}
          BY <3>5, <5>1 DEF Slot
        <5> QED
          BY <3>5, <4>3, <5>2 DEF StatusNow, StatusIn, Misses!Goes
      <4> QED
        BY <4>2, <4>3
    <3> QED
      BY <1>1, <3>1, <3>2, <3>3, <3>4, <3>5 DEF State
  <2> QED
    BY <1>2, <1>4, <2>2
<1> QED
  BY <1>3, <1>4

\* What an idle entry comes to: nothing, or the miss of a page without an entry.
LEMMA IdleGoes ==
  ASSUME IInv, NEW go, Cycle(go), NEW e \in Entry, mb[e].st = "idle", mb'[e].st # "idle"
  PROVE  /\ ~flush
         /\ mb'[e].st = IF e \in Issue(flush) THEN "wfc" ELSE "wfg"
         /\ \A f \in Entry : ~IsFor(f, PageOf[mb'[e].inst])
<1>1. ~flush
  <2> SUFFICES ASSUME flush PROVE mb'[e].st = "idle"
    OBVIOUS
  <2>1. mb'[e] = Flushed(e, e \in Issue(flush), Take(e))
    BY EntryUpdate DEF IInv
  <2> QED
    BY <2>1 DEF Flushed, Idle, Slot
<1>2. mb'[e] = MbNext(e, AllocFor(e, flush), e \in Issue(flush), Take(e),
                      e \in Installed, e \in ExptHit)
  BY <1>1, EntryUpdate DEF IInv
<1>3. CASE AllocFor(e, flush) = {}
  <2>1. mb'[e] = mb[e]
    BY <1>2, <1>3 DEF MbNext
  <2> QED
    BY <2>1
<1>4. CASE AllocFor(e, flush) # {}
  <2>1. PICK p \in Port : AllocReq(p, flush) /\ AllocFor(e, flush) = {missq[p]}
    BY <1>4, AllocForOne DEF IInv
  <2>2. mb'[e] = CHOOSE s \in {Slot(IF e \in Issue(flush) THEN "wfc" ELSE "wfg", i) :
                                 i \in {missq[p]}} : TRUE
    BY <1>2, <2>1 DEF MbNext
  <2>3. mb'[e] = Slot(IF e \in Issue(flush) THEN "wfc" ELSE "wfg", missq[p])
    BY <2>2
  <2>4. \A f \in Entry : ~IsFor(f, PageOf[missq[p]])
    BY <2>1 DEF AllocReq, MbHit, IsFor, Valid, In
  <2> QED
    BY <1>1, <2>3, <2>4 DEF Slot
<1> QED
  BY <1>3, <1>4

\* The page asked for is that of the entry issued, which is for it afterwards.
LEMMA AskedIsFor ==
  ASSUME IInv, NEW go, Cycle(go)
  PROVE  /\ Ask \in Misses!AtMostOne(Page)
         /\ \A p \in Ask : \E e \in Issue(flush) : e \in Entry /\ IsFor(e, p)'
         /\ \A e \in Issue(flush), p \in Page : IsFor(e, p)' => p \in Ask
<1>1. ASSUME NEW e \in Issue(flush)
      PROVE  /\ e \in Entry /\ PageOf[mb'[e].inst] \in Page
             /\ \A p \in Page : p = PageOf[mb'[e].inst] <=> IsFor(e, p)'
  <2>1. e \in Entry
    BY IssueOne DEF IInv
  <2>2. mb'[e].st \in {"wfc", "abt"}
    BY <2>1, WaitsStep DEF IInv, Waits
  <2>3. mb'[e].inst \in Inst
    <3>1. MissTypeOK'
      BY MissTypeStep DEF IInv
    <3> QED
      BY <2>1, <2>2, <3>1 DEF MissTypeOK, Idle, Slot
  <2> QED
    BY <2>1, <2>2, <2>3, InstAssumption DEF IsFor, Inst
<1>2. \A e, f \in Issue(flush) : e = f
  BY IssueOne DEF IInv
<1>3. Ask \in Misses!AtMostOne(Page)
  BY <1>1, <1>2 DEF Ask, Misses!AtMostOne
<1>4. \A p \in Ask : \E e \in Issue(flush) : e \in Entry /\ p \in Page /\ p = PageOf[mb'[e].inst]
  BY <1>1 DEF Ask
<1>5. \A e \in Issue(flush), p \in Page : IsFor(e, p)' => p \in Ask
  BY <1>1 DEF Ask
<1> QED
  BY <1>1, <1>3, <1>4, <1>5

\* The page that comes is that of an entry that waits for it.
LEMMA ComesIsFor ==
  ASSUME IInv
  PROVE  /\ Come \in Misses!AtMostOne({p \in Page : MissOf[p] \in {"asked", "arrived"}})
         /\ \A e \in Entry, p \in Page : IsFor(e, p) => (p \in Come <=> e \in Installed)
<1>1. ASSUME NEW r \in Install(Jtlb, ptw)
      PROVE  /\ r.id \in Entry /\ IsFor(r.id, PageOf[r.inst])
             /\ PageOf[r.inst] \in {p \in Page : MissOf[p] \in {"asked", "arrived"}}
  <2>1. r.id \in Entry /\ mb[r.id].st \in {"wfc", "wfi"} /\ r.inst = mb[r.id].inst
    BY InstalledOne DEF IInv
  <2>2. r.inst \in Inst
    BY <2>1 DEF IInv, MissTypeOK, Idle, Slot
  <2>3. PageOf[r.inst] \in Page /\ IsFor(r.id, PageOf[r.inst])
    BY <2>1, <2>2, InstAssumption DEF IsFor, Inst
  <2>4. MissOf[PageOf[r.inst]] = StatusIn(mb[r.id].st)
    BY <2>1, <2>3, MissOfEntry DEF IInv, MissIsOfEntry
  <2> QED
    BY <2>1, <2>3, <2>4 DEF StatusIn
<1>2. \A r, q \in Install(Jtlb, ptw) : r = q
  BY InstalledOne DEF IInv
<1>3. Come \in Misses!AtMostOne({p \in Page : MissOf[p] \in {"asked", "arrived"}})
  BY <1>1, <1>2 DEF Come, Misses!AtMostOne
<1>4. ASSUME NEW e \in Entry, NEW p \in Page, IsFor(e, p)
      PROVE  p \in Come <=> e \in Installed
  <2>1. \A f \in Entry : IsFor(f, p) => f = e
    BY <1>4 DEF IInv, IsFor, NoDuplicateMiss, Valid, In
  <2>2. p \in Come => e \in Installed
    BY <1>1, <2>1 DEF Come, Installed
  <2>3. ASSUME e \in Installed PROVE p \in Come
    <3>1. PICK r \in Install(Jtlb, ptw) : r.id = e
      BY <2>3 DEF Installed
    <3>2. PageOf[r.inst] = p
      BY <1>1, <1>4, <3>1 DEF IsFor
    <3> QED
      BY <3>2 DEF Come
  <2> QED
    BY <2>2, <2>3
<1> QED
  BY <1>3, <1>4

\* Every page does what PageMisses allows: with an entry, what the entry does;
\* without one, what an entry allocated for it does.
LEMMA PageGoes ==
  ASSUME IInv, IInv', NEW go, Cycle(go), NEW p \in Page
  PROVE  MissOf'[p] \in IF flush THEN Misses!GivenUp(MissOf[p], p \in Ask)
                        ELSE Misses!Goes(MissOf[p], p \in Ask, p \in Come)
<1>1. /\ \A e \in Entry : IsFor(e, p) => MissOf[p] = StatusIn(mb[e].st)
      /\ (\A e \in Entry : ~IsFor(e, p)) => MissOf[p] = "none"
  BY MissOfEntry DEF IInv, MissIsOfEntry
<1>2. /\ \A e \in Entry : IsFor(e, p)' => MissOf'[p] = StatusIn(mb'[e].st)
      /\ (\A e \in Entry : ~IsFor(e, p)') => MissOf'[p] = "none"
  <2>1. NoDuplicateMiss' => MissIsOfEntry'
    BY MissOfEntry, PTL
  <2> QED
    BY <2>1 DEF IInv, MissIsOfEntry
<1>3. \A e, f \in Entry : IsFor(e, p)' /\ IsFor(f, p)' => e = f
  BY DEF IInv, IsFor, NoDuplicateMiss, Valid, In
<1>4. \A e \in Entry : ~IsFor(e, p) /\ IsFor(e, p)' => mb[e].st = "idle"
  BY EntryGoes DEF IsFor
<1>5. CASE \E e \in Entry : IsFor(e, p)
  <2>1. PICK e \in Entry : IsFor(e, p)
    BY <1>5
  <2>2. mb[e].st # "idle" /\ PageOf[mb[e].inst] = p
    BY <2>1 DEF IsFor
  <2>3. \A f \in Entry : IsFor(f, p)' => f = e
    <3> SUFFICES ASSUME NEW f \in Entry, IsFor(f, p)', f # e PROVE FALSE
      OBVIOUS
    <3>1. ~IsFor(f, p)
      BY <2>1 DEF IInv, IsFor, NoDuplicateMiss, Valid, In
    <3>2. mb[f].st = "idle" /\ mb'[f].st # "idle" /\ PageOf[mb'[f].inst] = p
      BY <1>4, <3>1 DEF IsFor
    <3> QED
      BY <2>1, <3>2, IdleGoes
  <2>4. MissOf'[p] = StatusNow(mb'[e].st)
    <3>1. CASE mb'[e].st = "idle"
      <4>1. \A f \in Entry : ~IsFor(f, p)'
        BY <2>3, <3>1 DEF IsFor
      <4> QED
        BY <1>2, <3>1, <4>1 DEF StatusNow
    <3>2. CASE mb'[e].st # "idle"
      <4>1. IsFor(e, p)'
        BY <2>2, <3>2, EntryGoes DEF IsFor
      <4> QED
        BY <1>2, <3>2, <4>1 DEF StatusNow
    <3> QED
      BY <3>1, <3>2
  <2>5. p \in Ask <=> e \in Issue(flush)
    <3>1. p \in Ask => e \in Issue(flush)
      BY <2>3, AskedIsFor
    <3>2. ASSUME e \in Issue(flush) PROVE p \in Ask
      <4>1. mb'[e].st # "idle"
        BY <3>2, WaitsStep DEF IInv, Waits
      <4>2. IsFor(e, p)'
        BY <2>2, <4>1, EntryGoes DEF IsFor
      <4> QED
        BY <3>2, <4>2, AskedIsFor
    <3> QED
      BY <3>1, <3>2
  <2>6. p \in Come <=> e \in Installed
    BY <2>1, ComesIsFor
  <2>7. MissOf[p] = StatusIn(mb[e].st)
    BY <1>1, <2>1
  <2>8. StatusNow(mb'[e].st) \in
          IF flush THEN Misses!GivenUp(StatusIn(mb[e].st), e \in Issue(flush))
          ELSE Misses!Goes(StatusIn(mb[e].st), e \in Issue(flush), e \in Installed)
    BY <2>2, EntryGoes
  <2>9. (p \in Ask) = (e \in Issue(flush)) /\ (p \in Come) = (e \in Installed)
    BY <2>5, <2>6
  <2> QED
    BY <2>4, <2>7, <2>8, <2>9
<1>6. CASE \A e \in Entry : ~IsFor(e, p)
  <2>1. MissOf[p] = "none"
    BY <1>1, <1>6
  <2>2. CASE \A e \in Entry : ~IsFor(e, p)'
    <3>1. MissOf'[p] = "none" /\ p \notin Ask
      BY <1>2, <2>2, AskedIsFor
    <3> QED
      BY <2>1, <3>1 DEF Misses!Goes, Misses!GivenUp
  <2>3. CASE \E e \in Entry : IsFor(e, p)'
    <3>1. PICK e \in Entry : IsFor(e, p)'
      BY <2>3
    <3>2. mb[e].st = "idle" /\ mb'[e].st # "idle"
      BY <1>4, <1>6, <3>1 DEF IsFor
    <3>3. ~flush /\ mb'[e].st = IF e \in Issue(flush) THEN "wfc" ELSE "wfg"
      BY <3>2, IdleGoes
    <3>4. MissOf'[p] = IF e \in Issue(flush) THEN "asked" ELSE "missed"
      BY <1>2, <3>1, <3>3 DEF StatusIn
    <3>5. p \in Ask <=> e \in Issue(flush)
      BY <1>3, <3>1, AskedIsFor
    <3> QED
      BY <2>1, <3>3, <3>4, <3>5 DEF Misses!Goes
  <2> QED
    BY <2>2, <2>3
<1> QED
  BY <1>5, <1>6

\* The miss buffer implements PageMisses: a page has at most one miss, is asked for
\* once, and comes into the TLB only by the answer to its own miss and not once that
\* is flushed, although an answer names an entry of the buffer only and entries are
\* used again (mmu_l1dtlb_mb_entry.sv, mmu_l1dtlb_install.sv).
THEOREM Refinement == Spec => ImplementsPageMisses
<1>1. Init => Misses!Init
  <2> SUFFICES ASSUME Init PROVE Misses!Init
    OBVIOUS
  <2>1. \A e \in Entry, p \in Page : ~IsFor(e, p)
    BY DEF Init, L1DtlbInit, IsFor, Idle, Slot
  <2>2. tlb = {}
    BY DEF Init, L1DtlbInit
  <2> QED
    BY <2>1, <2>2 DEF Misses!Init, MissOf
<1>2. ASSUME IInv, IInv', NEW go, Cycle(go)
      PROVE  Misses!Next
  <2>1. MissOf' \in [Page -> Misses!Status]
    BY DEF MissOf, StatusIn, Misses!Status
  <2>2. Misses!Cardinality({p \in Page : MissOf'[p] # "none"}) <= MbDepth
    <3>1. NoDuplicateMiss' => (Cardinality({p \in Page : MissOf[p] # "none"}) <= MbDepth)'
      BY MissLimit, PTL
    <3>2. Cardinality({p \in Page : MissOf'[p] # "none"}) <= MbDepth
      BY <1>2, <3>1 DEF IInv
    <3> QED
      BY <3>2 DEF Cardinality, Misses!Cardinality
  <2>3. tlb' \subseteq tlb \cup Come
    BY <1>2 DEF Cycle, L1DtlbEdge, Come
  <2>4. Come \in Misses!AtMostOne({p \in Page : MissOf[p] \in {"asked", "arrived"}})
    BY <1>2, ComesIsFor
  <2>5. Ask \in Misses!AtMostOne(Page)
    BY <1>2, AskedIsFor
  <2>6. flush \in BOOLEAN
    BY <1>2 DEF IInv, RestTypeOK
  <2>7. \A p \in Page :
          MissOf'[p] \in IF flush THEN Misses!GivenUp(MissOf[p], p \in Ask)
                         ELSE Misses!Goes(MissOf[p], p \in Ask, p \in Come)
    BY <1>2, PageGoes
  <2> HIDE DEF Ask, Come
  <2> QED
    BY <2>1, <2>2, <2>3, <2>4, <2>5, <2>6, <2>7 DEF Misses!Next
<1>3. IInv /\ IInv' /\ [Next]_vars => [Misses!Next]_(Misses!vars)
  <2> SUFFICES ASSUME IInv, IInv', [Next]_vars PROVE [Misses!Next]_(Misses!vars)
    OBVIOUS
  <2>1. CASE Next
    BY <1>2, <2>1 DEF Next
  <2>2. CASE UNCHANGED vars
    BY <2>2 DEF vars, dtlbVars, Misses!vars, MissOf, IsFor
  <2> QED
    BY <2>1, <2>2
<1> QED
  BY <1>1, <1>3, Invariance, PTL DEF Spec, ImplementsPageMisses, Misses!Spec

=============================================================================
