----------------------------- MODULE ItlbFetch -----------------------------
(***************************************************************************)
(* The misses of the L1 instruction TLB from the fetch unit to the L2 TLB  *)
(* and back: L1Itlb, connected as in ct_mmu_top.v, with entry 0 of the     *)
(* request queue (mmu_l2tlb_reqq.sv), the two stages of the L2 TLB and the *)
(* walk of the request, and the invalidations of ct_mmu_tlboper.v.         *)
(*                                                                         *)
(* The fetch unit holds an address until it is answered, unless it changes *)
(* the flow: in a cycle with ifu_mmu_abort and after it, the address may   *)
(* be another one (mmu_verification/testbench/ifu_agent/ifu_driver.svh).   *)
(***************************************************************************)
EXTENDS L1Itlb

CONSTANT Invs   \* what may be invalidated: nothing, everything or a page
ASSUME InvAssumption ==
  /\ Invs \subseteq {"none", "all"} \cup Vpn /\ "none" \in Invs
  /\ {"none", "all"} \cap Vpn = {}

VARIABLES
  fetch,  \* ifu_mmu_va with ifu_mmu_va_vld, or NoVpn
  abort,  \* ifu_mmu_abort
  inv,    \* what tlboper and the registers invalidate: "none", "all" or a VPN
  que,    \* entry 0 of the request queue: the VPN, or NoVpn
  sent,   \* r_sent of that entry: it is in the pipeline
  raw,    \* the VPN in the first stage of the L2 TLB, or NoVpn
  fin,    \* the second stage, with its result
  walks,  \* the VPNs in the miss buffer of the L2 TLB
  ptw     \* the walk reported in this cycle

l2Vars == <<que, sent, raw, fin, walks, ptw>>
vars   == <<itlbVars, fetch, abort, inv, l2Vars>>

Result == {"page", "flt", "walk", "retry"}

TypeOK ==
  /\ L1ItlbTypeOK
  /\ fetch \in Vpn \cup {NoVpn} /\ abort \in BOOLEAN /\ inv \in Invs
  /\ que \in Vpn \cup {NoVpn} /\ sent \in BOOLEAN
  /\ raw \in Vpn \cup {NoVpn}
  /\ fin \in [vpn : Vpn, kind : Result] \cup {NoAnswer}
  /\ walks \subseteq Vpn
  /\ ptw \in Answer \cup {NoAnswer}

Init ==
  /\ L1ItlbInit
  /\ fetch = NoVpn /\ abort = FALSE /\ inv = "none"
  /\ que = NoVpn /\ sent = FALSE /\ raw = NoVpn /\ fin = NoAnswer
  /\ walks = {} /\ ptw = NoAnswer

\* The answer of this cycle, of a lookup or of a walk
Ans == IF fin.kind \in {"page", "flt"} THEN fin ELSE ptw

Answered == PaVld(fetch, Ans)

-----------------------------------------------------------------------------
\* ifu_mmu_va, held until it is answered
IfuEdge ==
  /\ abort' \in BOOLEAN
  /\ fetch' \in Vpn \cup {NoVpn}
  /\ fetch # NoVpn /\ ~abort /\ ~Answered /\ ~abort' => fetch' = fetch

QReady  == que # NoVpn /\ ~sent                      \* entry_rdy
Dealloc == que # NoVpn /\ fin # NoAnswer /\ fin.kind # "retry"

\* r_vld and r_sent of entry 0, written without a look whether it is free.
\* req: the VPN of the request in this cycle, if any; go: issued in this cycle
QueEdge(req, go) ==
  /\ que' = IF Dealloc THEN NoVpn ELSE IF req # NoVpn THEN req ELSE que
  /\ sent' = IF req # NoVpn THEN go /\ ~QReady
             ELSE fin = NoAnswer /\ (sent \/ go)
  /\ raw' = IF ~go THEN NoVpn ELSE IF QReady THEN que ELSE req

\* The result of a lookup two cycles after its issue; a miss becomes a walk if
\* the miss buffer has room, and a walk is reported in its time
L2Edge ==
  /\ fin' \in IF raw = NoVpn THEN {NoAnswer} ELSE [vpn : {raw}, kind : Result]
  /\ walks' = (walks \ {ptw.vpn}) \cup (IF fin.kind = "walk" THEN {fin.vpn} ELSE {})
  /\ ptw' \in [vpn : walks', kind : {"page", "flt", "acc"}] \cup {NoAnswer}

\* The bus carries some VPN also in a cycle without a fetch
Requested == IF ~Request THEN {NoVpn} ELSE IF fetch = NoVpn THEN Vpn ELSE {fetch}

\* miss: the miss of the fetch is not held back by cp0_mmu_no_op_req
Cycle(miss, req, go) ==
  /\ miss => MissOn(fetch)
  /\ go => QReady \/ req # NoVpn
  /\ L1ItlbEdge(fetch, abort, miss, Ans, inv, Dealloc)
  /\ QueEdge(req, go)
  /\ L2Edge
  /\ IfuEdge
  /\ inv' \in Invs

Next == \E miss, go \in BOOLEAN, req \in Requested : Cycle(miss, req, go)

Spec == Init /\ [][Next]_vars

\* The state that a cycle without a new fetch or invalidation changes
inFlight == <<vld, vpn, st, credit, l2Vars>>

Quiet == st = "idle" /\ ~MissOn(fetch) /\ ~SwpEn(fetch)

\* Weak fairness of a cycle that changes inFlight, with the condition on which
\* there is one spelled out: no request waits for ever for a grant, no walk for
\* its end, no miss for cp0_mmu_no_op_req.  The L2 TLB does not turn back every
\* lookup.
FairSpec ==
  /\ Spec
  /\ []<>Quiet \/ []<><<TRUE>>_inFlight
  /\ []<>(fin # NoAnswer) => []<>(fin.kind \in Result \ {"retry"})

-----------------------------------------------------------------------------
\* The TLB has one miss, and that miss one request, in the queue or walked, from
\* the cycle after it is sent until its answer, whether given up or not: the queue
\* does not look for room ("L1 ITLB ensures credits are available", reqq.sv:118),
\* and an answer carries nothing it could be told apart by.  The answer to a miss
\* that has not been given up is that of the fetch held.
OneRequest ==
  /\ IF st \in {"wfc", "abt"}
     THEN \E v \in Vpn : (que = v /\ walks = {}) \/ (que = NoVpn /\ walks = {v})
     ELSE que = NoVpn /\ walks = {}
  /\ credit <=> que = NoVpn
  /\ Ans # NoAnswer => st \in {"wfc", "abt"}
  /\ Ans # NoAnswer /\ st = "wfc" /\ ~abort => Ans.vpn = fetch

\* A page has one entry: the answer is the OR of all that hit (mmu_l1itlb.sv,
\* iutlb_hit_pa_fst), and slots exchange their entries while others are refilled.
NoDuplicateEntry ==
  \A s, t \in vld : vpn[s] = vpn[t] => s = t

Cached == {vpn[s] : s \in vld}

\* A page invalidated is not in the TLB in the next cycle, if it was there, unless
\* its entry was being exchanged, and nothing is after all pages are invalidated:
\* each slot compares the contents it had (ct_mmu_iutlb_entry.v, ctc_inv_va_hit_clr).
InvClears ==
  [][/\ inv = "all" => Cached' = {}
     /\ inv \in Cached /\ inv \in Cached' => SwpEn(fetch) /\ inv \in {fetch, vpn[wen]}]_vars

\* The TLB does what PageMisses promises, for one miss at a time: no exchange and no
\* answer to a miss given up brings a page into it.  The request of a miss given up
\* before it was sent may be sent all the same, for whatever page the fetch unit
\* shows then (ref_cur_st in WFG with a credit).
StatusIn ==
  CASE st = "wfg"   -> "missed"
    [] st = "wfc"   -> "asked"
    [] st = "pgflt" -> "faulted"
    [] OTHER        -> "dropped"
Pending ==
  CASE st \in {"wfg", "pgflt"} -> IF abort THEN {} ELSE {fetch}
    [] st \in {"wfc", "abt"}   -> (walks \cup {que}) \ {NoVpn}
    [] OTHER                   -> {}

MissOf == [v \in Vpn |-> IF v \in Pending THEN StatusIn ELSE "none"]

Misses == INSTANCE PageMisses WITH Page <- Vpn, Limit <- 1, Late <- TRUE,
                                   cached <- Cached, miss <- MissOf
ImplementsPageMisses == Misses!Spec

\* A fetch that is held is answered, also one that waits for the end of a miss
\* given up, as long as invalidations do not go on for ever: one in the cycle of
\* a refill takes the page away again, and the miss starts anew.
FetchAnswered ==
  <>[](inv = "none") =>
    \A v \in Vpn : fetch = v ~> fetch # v \/ Answered \/ abort
=============================================================================
