------------------------------ MODULE DtlbMiss ------------------------------
(***************************************************************************)
(* Misses of the L1 data TLB from the load-store unit to the L2 TLB and    *)
(* back: L1Dtlb and L2ReqQ, connected as in ct_mmu_top.v, between the      *)
(* pipelines of the LSU (src/mmu/rtl/lsu/rtl/ct_lsu_{ld,st}_{ag,dc}.v) and *)
(* the L2 TLB with its page walks.                                         *)
(*                                                                         *)
(* An instruction that misses is started again: at once if                 *)
(* mmu_lsu_tlb_busy was low in the cycle of its lookup, else after the     *)
(* next mmu_lsu_tlb_wakeup.  An instruction that is done comes back as     *)
(* another one of the same iid.                                            *)
(***************************************************************************)
EXTENDS L1Dtlb, L2ReqQ, FiniteSets

CONSTANT Flushes   \* the values rtu_yy_xx_flush takes: a set of Booleans
ASSUME FlushAssumption == Flushes \subseteq BOOLEAN /\ FALSE \in Flushes
ASSUME CreditAssumption == CreditMax <= QueDepth

VARIABLES
  ag,      \* the instruction in the AG stage of each LSU pipeline
  busyQ,   \* ld_dc_tlb_busy, st_dc_tlb_busy, of the instruction that missed
  frozen,  \* instructions that wait in the LSIQ for a wakeup
  flush,   \* rtu_yy_xx_flush
  raw,     \* the first stage of the L2 TLB: request, entry of the queue
  fin,     \* the second stage, with the result
  walks,   \* requests in the miss buffer of the L2 TLB
  ptw      \* the walk reported in this cycle

vars == <<dtlbVars, reqqVars, ag, busyQ, frozen, flush, raw, fin, walks, ptw>>

NoAccess == [slot |-> NoSlot, req |-> NoReq, kind |-> "none"]
Result   == {"page", "flt", "walk", "retry"}

TypeOK ==
  /\ L1DtlbTypeOK /\ L2ReqQTypeOK(Req)
  /\ ag \in [Port -> Inst \cup {NoInst}]
  /\ busyQ \in [Port -> BOOLEAN]
  /\ frozen \subseteq Inst
  /\ flush \in BOOLEAN
  /\ raw \in [slot : QSlot, req : Req, kind : {"none"}] \cup {NoAccess}
  /\ fin \in [slot : QSlot, req : Req, kind : Result] \cup {NoAccess}
  /\ walks \subseteq Req
  /\ ptw \in Answer \cup {NoAnswer}

Init ==
  /\ L1DtlbInit /\ L2ReqQInit
  /\ ag = [p \in Port |-> NoInst] /\ busyQ = [p \in Port |-> FALSE]
  /\ frozen = {} /\ flush = FALSE
  /\ raw = NoAccess /\ fin = NoAccess
  /\ walks = {} /\ ptw = NoAnswer

AnswerTo(r, k) == [id |-> r.id, inst |-> r.inst, kind |-> k]

\* l2tlb_l1dtlb_ref_cmplt: a hit, or the fault of a lookup that hits twice
Jtlb == IF fin.kind \in {"page", "flt"} THEN AnswerTo(fin.req, fin.kind) ELSE NoAnswer

\* Lookups not aborted: lsu_mmu_abort is high in a flush.  One aborted for another
\* reason is as none: its instruction is in AG again later, or not at all
Look == [p \in Port |-> IF flush THEN NoInst ELSE ag[p]]

-----------------------------------------------------------------------------
\* The LSU.  An instruction that finds its page or its fault leaves the AG stage;
\* one that misses is in the DC stage in the next cycle, with the busy it saw.
\* A wakeup in the cycle in which the DC stage reports it as busy counts.
PipeOf(p)  == IF p = 0 THEN Loads ELSE Stores
Startable(p) == PipeOf(p) \ (frozen \cup {ag[p], missq[p]})

LsuEdge ==
  /\ ag' \in [Port -> Inst \cup {NoInst}]
  /\ \A p \in Port : ag'[p] \in (IF flush THEN {} ELSE Startable(p)) \cup {NoInst}
  /\ busyQ' = [p \in Port |-> ~flush /\ Missed(Look[p]) /\ Busy]
  /\ frozen' = IF flush \/ Wakeup(Jtlb, ptw) THEN {}
               ELSE frozen \cup {missq[p] : p \in {q \in Port : busyQ[q]}}

\* The L2 TLB.  A request let in answers two cycles later; a miss becomes a walk
\* if the miss buffer has room, and a walk is reported in its time.
L2Edge(new, go) ==
  LET req(s) == IF reqq[s] # NoReq THEN {reqq[s]} ELSE new
      in     == UNION {{[slot |-> s, req |-> r, kind |-> "none"] : r \in req(s)} : s \in go}
  IN
  /\ raw' \in IF go = {} THEN {NoAccess} ELSE in
  /\ fin' \in IF raw = NoAccess THEN {NoAccess}
              ELSE {[raw EXCEPT !.kind = k] : k \in Result}
  /\ walks' = (walks \ {r \in Req : r = [id |-> ptw.id, inst |-> ptw.inst]})
              \cup {r \in {fin.req} : fin.kind = "walk"}
  /\ ptw' \in {AnswerTo(r, k) : r \in walks', k \in {"page", "flt"}} \cup {NoAnswer}

\* go: the entry of the queue that the arbiter lets in, if any
Cycle(go) ==
  /\ L1DtlbEdge(Look, Jtlb, ptw, flush, Dealloc(fin.slot, fin.kind) # {})
  /\ L2ReqQEdge(Sent(flush), go, fin.slot, fin.kind)
  /\ L2Edge(Sent(flush), go)
  /\ LsuEdge
  /\ flush' \in Flushes

Next == \E go \in {Issued(Sent(flush), grant) : grant \in BOOLEAN} : Cycle(go)

Spec == Init /\ [][Next]_vars

\* The state that a cycle without a new instruction, flush or replacement changes
inFlight ==
  <<missq, mb, credits, reqqVars, busyQ, frozen, raw, fin, walks, ptw>>

\* The clock runs while anything is in flight.  What the rest of the system owes:
\* the arbiter does not leave a request alone for ever, the pipeline does not
\* turn back every lookup, every walk ends.
FairSpec ==
  /\ Spec
  /\ WF_inFlight(Next)
  /\ []<>(Waiting = {} \/ raw # NoAccess)
  /\ []<>(fin # NoAccess) => []<>(fin.kind \in Result \ {"retry"})
  /\ \A r \in Req : []<>(r \notin walks)

-----------------------------------------------------------------------------
Outstanding(e) == {s \in Held : reqq[s].id = e}
WalksOf(e)     == {r \in walks : r.id = e}

\* An answer names an entry of the miss buffer and nothing else.  The entry it
\* names is that of the miss it answers: an entry that waits for an answer, or
\* was flushed while it did, has one request in the L2 TLB, for its instruction,
\* and an entry that can be given to another miss has none, whatever was flushed,
\* turned back or walked in between (mmu_l1dtlb_mb_entry.sv, WFC and ABT).
OneRequestPerMiss ==
  \A e \in Entry :
    /\ Cardinality(Outstanding(e)) + Cardinality(WalksOf(e))
         = IF mb[e].st \in {"wfc", "abt"} THEN 1 ELSE 0
    /\ \A s \in Outstanding(e) : reqq[s].inst = mb[e].inst
    /\ \A r \in WalksOf(e) : r.inst = mb[e].inst

\* At most one miss is pending for a page: the two ports, the miss in T1 and the
\* entries, flushed ones included, never ask for one page twice (mb_hit, same_4k).
NoDuplicateMiss ==
  \A e, f \in Valid :
    PageOf[mb[e].inst] = PageOf[mb[f].inst] => e = f

\* A fault is recorded as long as its entry waits for it to be taken, and no
\* longer: one recorded for a miss that was flushed would be raised on the
\* next instruction with that iid (mmu_l1dtlb_expt_cam.sv).
FaultTracked ==
  \A e \in Entry : cam[e] = IF mb[e].st = "flt" THEN mb[e].inst ELSE NoInst

\* The queue has room for every request sent: the credits are the entries that
\* the queue has beyond those it holds (credit_cnt, mmu_l1dtlb_scheduler.sv).
CreditsMatch ==
  /\ credits = CreditMax - Cardinality(Held)
  /\ Sent(flush) # {} => Free # {}

\* The entries marked as sent are the ones in the pipeline, and a result is that
\* of the request its entry holds (mmu_l2tlb_reqq_entry.sv, r_sent).
ResultOfItsRequest ==
  /\ sent = {raw.slot, fin.slot} \ {NoSlot}
  /\ \A a \in {raw, fin} \ {NoAccess} : reqq[a.slot] = a.req
  /\ raw # NoAccess => raw.slot # fin.slot

\* The entries of the miss buffer, seen from the pages, are what PageMisses
\* promises: a page enters the TLB only by the answer to its own miss, and not once
\* that is flushed, although an answer names an entry and entries are used again.
IsFor(e, p) == mb[e].st # "idle" /\ PageOf[mb[e].inst] = p
StatusIn(s) ==
  CASE s = "wfg" -> "missed"
    [] s = "wfc" -> "asked"
    [] s = "wfi" -> "arrived"
    [] s = "flt" -> "faulted"
    [] OTHER     -> "dropped"
MissOf ==
  [p \in Page |->
     IF \E e \in Entry : IsFor(e, p)
     THEN StatusIn(mb[CHOOSE e \in Entry : IsFor(e, p)].st) ELSE "none"]

Misses == INSTANCE PageMisses WITH Limit <- MbDepth, Late <- FALSE,
                                   cached <- tlb, miss <- MissOf
ImplementsPageMisses == Misses!Spec

\* An instruction that waits in the LSIQ is woken.
SleeperWakes == \A i \in Inst : i \in frozen ~> i \notin frozen
=============================================================================
