------------------------------ MODULE L2Access ------------------------------
(***************************************************************************)
(* The L2 TLB and everything that reads or writes it: the TLB operation    *)
(* unit, the arbiter and pipeline, and the miss buffer with its page walks *)
(* (ct_mmu_top.v connects them).  One step is one clock cycle of all three.*)
(***************************************************************************)
EXTENDS TlbOper, L2Arb, MissBuf, FiniteSets

vars == <<operVars, askVars, arbVars, mbVars>>

TypeOK == TlbOperTypeOK /\ L2ArbTypeOK(Fsm) /\ MissBufTypeOK

Init == TlbOperInit /\ L2ArbInit /\ MissBufInit

(***************************************************************************)
(* What a walk may report in a cycle.  A fault completes at once; a refill *)
(* is a request to the arbiter (ptw_arb_req) and completes when granted.   *)
(* The priorities of ptw.sv leave one report per cycle.                    *)
(***************************************************************************)
NoReport == [kind |-> "none", walk |-> {}]
Report   == {NoReport} \cup [kind : {"refill", "fault"}, walk : {{i} : i \in walks}]

PtwArbReq(report) ==
  report.kind = "refill" /\ ~(tlboperOn \/ wbufFull) /\ ~PtwAbort

\* One clock cycle.  issue: the lookup the request queue or the prefetcher asks
\* for; hit: the result of the access in the second stage.
Cycle(issue, hit, report, held, ready) ==
  LET cmplt == JtlbCmplt
      by    == Requesting(cmplt)
      wr    == \E f \in by : Writes(f, cmplt)
      grant == Grant(PtwArbReq(report), by # {}, issue)
      oper  == grant = "oper"
      alloc == IF finalVld /\ final.type \in Lookup /\ ~hit
               THEN Alloc(final.type = "dtlb") ELSE {}
      done  == IF report.kind = "fault" \/ grant = "read" THEN report.walk ELSE {}
  IN
  /\ MissBufEdge(alloc, done, PtwAbort, held, ready)
  /\ L2ArbEdge(grant, by, wr, OperCmplt(oper, cmplt))
  /\ CtcqEdge
  /\ Cp0Edge(oper, cmplt)
  /\ TlbOperEdge(oper, cmplt, hit)

\* The lookups that can be let in, and whether a miss can be sent, in a cycle
LookupOpen == Open /\ ~tlboperOn /\ Requesting(JtlbCmplt) = {}
MissWaits  == Rdy # {} \/ (finalVld /\ final.type \in Lookup)

\* What the access in the second stage may find.  A write shows the ways it
\* has written as they are now: the ones of that ASID are no longer valid.
Result == IF finalVld /\ ~final.wr THEN BOOLEAN ELSE {FALSE}

\* An input is chosen only where the cycle depends on it.
Next ==
  \E report \in Report, hit \in Result :
  \E ready \in (IF MissWaits THEN BOOLEAN ELSE {FALSE}) :
  \E held \in (IF pdeReq = {} \/ ready THEN {FALSE} ELSE BOOLEAN) :
  \E issue \in {"none"} \cup (IF LookupOpen THEN Lookup ELSE {}) :
    Cycle(issue, hit, report, held, ready)

Spec == Init /\ [][Next]_vars

(***************************************************************************)
(* The clock runs: Next is enabled in every state and something can change  *)
(* in it, so that this is WF_vars(Next).  The arbiter is not stalled for   *)
(* ever: while it is, no lookup enters the L2 TLB and the RRPV write buffer *)
(* drains (pop_grant in mmu_l2tlb.sv).  Nothing is assumed about the length *)
(* of a page walk, nor about the lookups and misses that compete.          *)
(***************************************************************************)
FairSpec == Spec /\ []<><<TRUE>>_vars /\ []<>~wbufFull

-----------------------------------------------------------------------------
(***************************************************************************)
(* Properties.                                                             *)
(***************************************************************************)
\* A miss whose walk was dropped does not wait for it for ever: the operation
\* that dropped it is still asked for, and its closing abort, in the cycle of
\* mmu_lsu_tlb_inv_done, makes the entry ask again.
NoOrphanedMiss == sent \ InPtw # {} => LsuOper

\* A miss has at most one walk, and a walk belongs to a miss that has sent it:
\* across allocation by bypass, completion, abort and retry no walk outlives
\* its entry, so that a completion never frees the entry of a later miss.
OneWalkPerMiss ==
  /\ InPtw \subseteq vld \cap sent
  /\ pdeReq \cap walks = {}

\* The misses are served as WalkService says: of the walks under way none is lost
\* between the issue, the request register and the walk units, except when all are
\* dropped, and none is begun twice.
Service == INSTANCE WalkService
             WITH Miss <- MbEntry, missing <- vld, walking <- InPtw
ImplementsWalkService == Service!Spec

\* The seven machines share one path to the arbiter, one counter, and the
\* completions: at most one of them is out of its idle state.  (MMU_GapAudit_v1:
\* "TLBP/R/WI/WR all gated by !tlb_lsu_oper: serial with the LSU".)
OneOperAtATime == \A f, g \in Busy : f = g

\* The ways a write goes to are those of the access shown in the second stage
\* (jtlb_tlboper_sel, the victim way of a refill).  When a refill or an operation
\* writes, that access is its own read, and no other one has come between.
WriteFollowsItsRead ==
  /\ WriteGrant => finalVld /\ final.type = "read"
  /\ \A f \in Fsm : WritesBack(f, JtlbCmplt) => final = Acc("oper", {f}, FALSE)

\* Between the first grant of an operation and its completion no refill is under
\* way: the write of a translation read before the operation does not follow the
\* operation's look at that set.
OperExcludesRefill == tlboperOn => ~ptwOn /\ ~wrReq1 /\ ~wrReq2

\* tlboper_on is not left set: it is cleared by a completion, but a grant sets
\* it, and while it is set no lookup and no refill enters.
OperReleasesArbiter == SmIdle => ~tlboperOn

\* CP0 is told (mmu_cp0_cmplt, which clears MCIR) that an operation is done only
\* when its own machine finishes, not by an operation of the LSU that ran while
\* the bit was waiting.
Cp0DoneIsDone ==
  [][\A f \in mcir \ mcir' : st[f] # "idle" /\ st'[f] = "idle"]_vars

\* An invalidation by ASID looks at every set: the machine leaves its wait for
\* the read of a set on the completion of that read, not of another access; and
\* for an invalidation broadcast, the ways are compared with the ASID that was
\* broadcast ("invalidates every entry of the ASID given",
\* MMU_VerificationPlan F8.3).
AsidScansEverySet ==
  st["invasid"] = "wfc" /\ JtlbCmplt =>
    ~final.wr /\ (lsuFlop => InvAsid = "lsu")

\* An invalidation broadcast by another core is answered: against the refills
\* that go first, the operations of CP0 that have begun or compete, and the
\* misses that keep walking.
LsuInvDone == LsuOper ~> ~LsuOper
=============================================================================
