------------------------------- MODULE L1Dtlb -------------------------------
(***************************************************************************)
(* The L1 data TLB with its non-blocking misses: src/mmu/rtl/mmu_l1dtlb.sv *)
(* and the miss buffer entries, allocator, scheduler, install unit and     *)
(* exception CAM below it (mmu_l1dtlb_*.sv).                               *)
(*                                                                         *)
(* Two ports, 0 for loads and 1 for stores, look up in the same cycle (T0).*)
(* A miss is registered and allocates an entry of the miss buffer in the   *)
(* next cycle (T1), unless an entry for its page exists; the entry asks    *)
(* the L2 TLB, and the answer names the entry only.  A page goes to the    *)
(* TLB, one per cycle; a fault waits in the exception CAM for the          *)
(* instruction that missed.  rtu_yy_xx_flush drops every miss, but a       *)
(* request already sent keeps its entry (ABT) until the answer.            *)
(*                                                                         *)
(* An instruction is a number, the smaller the older; it stands for its    *)
(* iid, and PageOf for its VPN.                                            *)
(***************************************************************************)
EXTENDS Integers

CONSTANTS
  MbDepth,    \* MB_DEPTH: entries of the miss buffer (8 in the source)
  CreditMax,  \* CREDIT_MAX: entries of the L2 request queue (8 in the source)
  Loads,      \* the loads in flight
  Stores,     \* the stores in flight
  Page,       \* pages
  PageOf      \* the page each instruction accesses

ASSUME SizeAssumption == MbDepth \in Nat \ {0} /\ CreditMax \in Nat \ {0}
ASSUME InstAssumption ==
  /\ Loads \cup Stores \subseteq Nat \ {0}
  /\ Loads \cap Stores = {}
  /\ PageOf \in [Loads \cup Stores -> Page]

Port  == 0 .. 1
Inst  == Loads \cup Stores
NoInst == 0
Entry == 1 .. MbDepth

\* A request, and the answer to it: the entry of the miss buffer it names and the
\* instruction that missed.  The entry is all an answer is routed by.  PGFLT and
\* ACFLT differ only in the cause reported: both are "flt".
Req      == [id : Entry, inst : Inst]
Answer   == [id : Entry, inst : Inst, kind : {"page", "flt"}]
NoAnswer == [id |-> 0, inst |-> NoInst, kind |-> "none"]

State == {"idle", "wfg", "wfc", "flt", "abt", "wfi"}

\* Contents of an entry of the miss buffer; those of an idle one are never read
Slot(s, i) == [st |-> s, inst |-> i]
Idle       == Slot("idle", NoInst)

VARIABLES
  tlb,      \* pages with a valid entry in the TLB
  missq,    \* missN_vld_q with missN_iid_q and missN_vpn_q: the miss in T1, per port
  mb,       \* the entries of the miss buffer: state_r, iid_r and vpn_r
  cam,      \* the exception CAM, by entry: whose fault is recorded
  credits,  \* credit_cnt
  ptr       \* priority_oh_q: where the round robin begins

dtlbVars == <<tlb, missq, mb, cam, credits, ptr>>

L1DtlbTypeOK ==
  /\ tlb \subseteq Page
  /\ missq \in [Port -> Inst \cup {NoInst}]
  /\ mb \in [Entry -> {Idle} \cup [st : State \ {"idle"}, inst : Inst]]
  /\ cam \in [Entry -> Inst \cup {NoInst}]
  /\ credits \in 0 .. CreditMax
  /\ ptr \in Entry

L1DtlbInit ==
  /\ tlb = {}
  /\ missq = [p \in Port |-> NoInst]
  /\ mb = [e \in Entry |-> Idle]
  /\ cam = [e \in Entry |-> NoInst]
  /\ credits = CreditMax
  /\ ptr = 1

Lowest(S) == {e \in S : \A k \in S : e <= k}

In(s) == {e \in Entry : mb[e].st = s}
Valid == Entry \ In("idle")                       \* mb_entry_vld
Busy  == Valid # {}                               \* mmu_lsu_tlb_busy

-----------------------------------------------------------------------------
\* T0.  A lookup (i: the instruction, or none) finds its own fault in the
\* exception CAM, or its page in the TLB, or it misses.
ExptMatch(i) == {e \in Entry : i # NoInst /\ cam[e] = i}
TlbHit(i)    == i # NoInst /\ PageOf[i] \in tlb
Missed(i)    == i # NoInst /\ ~TlbHit(i) /\ ExptMatch(i) = {}

-----------------------------------------------------------------------------
\* T1.  A miss on a page with a valid entry is merged with it, whatever the
\* state of the entry; of two misses on one page only that of port 0 goes on.
MbHit(p) == \E e \in Valid : PageOf[mb[e].inst] = PageOf[missq[p]]

\* Mutant: both ports allocate for one page
NoSame4k == FALSE

Same4k   == /\ \A p \in Port : missq[p] # NoInst
            /\ PageOf[missq[0]] = PageOf[missq[1]]

AllocReq(p, flush) ==
  missq[p] # NoInst /\ ~MbHit(p) /\ ~flush /\ (p = 1 => ~Same4k)

\* The first two free entries, by index (sets of at most one)
FreeA == Lowest(In("idle"))
FreeB == Lowest(In("idle") \ FreeA)

\* gntN with selN: the older miss gets the first free entry, the other one the
\* second if there is one
Alloc(p, flush) ==
  LET behind == AllocReq(1 - p, flush) /\ missq[1 - p] < missq[p]
  IN IF AllocReq(p, flush) THEN (IF behind THEN FreeB ELSE FreeA) ELSE {}

AllocFor(e, flush) == {missq[p] : p \in {q \in Port : e \in Alloc(q, flush)}}

-----------------------------------------------------------------------------
\* Issue to the L2 TLB.  Ready entries go first, round robin from ptr; a miss
\* allocated in this cycle is sent at once when none is ready, port 0 first.
Ready      == In("wfg")
RoundRobin == IF \E e \in Ready : e >= ptr
              THEN Lowest({e \in Ready : e >= ptr}) ELSE Lowest(Ready)
Bypass(flush) == IF Alloc(0, flush) # {} THEN Alloc(0, flush)
                 ELSE Alloc(1, flush)
Issue(flush) ==
  IF credits = 0 THEN {} ELSE IF Ready # {} THEN RoundRobin ELSE Bypass(flush)

\* dutlb_l2tlb_req: the request sent in this cycle, if any
Sent(flush) ==
  UNION {{[id |-> e, inst |-> i] :
            i \in IF e \in Ready THEN {mb[e].inst} ELSE AllocFor(e, flush)} :
           e \in Issue(flush)}

\* Mutant: a request and a returned credit in one cycle are not set off
CreditAfterOwing(req, ret) ==
  CASE req -> credits - 1 [] ret /\ ~req -> credits + 1 [] OTHER -> credits
\* Mutant: the same, the other way round
CreditAfterGiving(req, ret) ==
  CASE ret -> credits + 1 [] req /\ ~ret -> credits - 1 [] OTHER -> credits

CreditAfter(req, ret) ==
  CASE req /\ ~ret -> credits - 1 [] ret /\ ~req -> credits + 1 [] OTHER -> credits

-----------------------------------------------------------------------------
\* Answers, from the L2 TLB (jtlb) and from the walker (ptw).  One page is
\* installed per cycle: of an entry that waits for it, else from ptw, else from
\* jtlb.  An answer that is not installed leaves its page in the entry (WFI).
Fresh(a) == {e \in Valid : e = a.id /\ a.kind = "page" /\ mb[e].st # "abt"}
Install(jtlb, ptw) ==
  CASE In("wfi") # {}   -> {[id |-> e, inst |-> mb[e].inst] : e \in Lowest(In("wfi"))}
    [] In("wfi") = {} /\ Fresh(ptw) # {} -> {[id |-> ptw.id, inst |-> ptw.inst]}
    [] OTHER -> {[id |-> e, inst |-> jtlb.inst] : e \in Fresh(jtlb)}

\* Mutant: a fault does not wake
WakeupOnInstall(jtlb, ptw) == Install(jtlb, ptw) # {}

\* mmu_lsu_tlb_wakeup, to all that wait
Wakeup(jtlb, ptw) == Install(jtlb, ptw) # {} \/ In("flt") # {}

\* Mutant: the state of the entry is not looked at
ExptWriteAnyState(a, flush) == {e \in Valid : e = a.id /\ a.kind = "flt" /\ ~flush}
\* expt_wr0_vld and expt_wr1_vld
ExptWrite(a, flush) == {e \in In("wfc") : e = a.id /\ a.kind = "flt" /\ ~flush}

\* Mutant: a flushed entry is free at once
FlushedAtOnce(e, issued, a) == Idle

\* What a flush leaves of an entry: a request sent keeps it until the answer.
\* a: the answer the entry takes in this cycle, if any
Flushed(e, issued, a) ==
  IF (mb[e].st = "wfg" /\ issued) \/ (mb[e].st \in {"wfc", "abt"} /\ a = {})
  THEN Slot("abt", mb[e].inst) ELSE Idle

\* The state machine of an entry, in a cycle without flush.  alloc: the
\* instruction it is allocated for, if any; hit: its fault is taken (expt_hit).
MbNext(e, alloc, issued, a, installed, hit) ==
  CASE mb[e].st = "idle" /\ alloc # {} ->
         CHOOSE s \in {Slot(IF issued THEN "wfc" ELSE "wfg", i) : i \in alloc} : TRUE
    [] mb[e].st = "wfg" /\ issued -> Slot("wfc", mb[e].inst)
    [] mb[e].st = "wfc" /\ \E b \in a : b.kind = "flt" -> Slot("flt", mb[e].inst)
    [] mb[e].st = "wfc" /\ \E b \in a : b.kind = "page" /\ installed -> Idle
    [] mb[e].st = "wfc" /\ \E b \in a : b.kind = "page" /\ ~installed ->
         Slot("wfi", mb[e].inst)
    [] mb[e].st = "wfi" /\ installed -> Idle
    [] mb[e].st = "flt" /\ hit -> Idle
    [] mb[e].st = "abt" /\ a # {} -> Idle
    [] OTHER -> mb[e]

(***************************************************************************)
(* One clock cycle.  look: the lookups not aborted, per port; jtlb, ptw:   *)
(* the answers; ret: a credit is returned.  Pages leave the TLB in any     *)
(* cycle, replaced or invalidated, which beats an install                  *)
(* (l1dtlb_entry_clr).                                                     *)
(***************************************************************************)
L1DtlbEdge(look, jtlb, ptw, flush, ret) ==
  LET take(e)   == IF ptw.id = e THEN {ptw} ELSE {a \in {jtlb} : a.id = e}
      installed == {r.id : r \in Install(jtlb, ptw)}
      hit       == UNION {ExptMatch(look[p]) : p \in Port}
      faulted   == ExptWrite(ptw, flush) \cup ExptWrite(jtlb, flush)
  IN
  /\ tlb' \in SUBSET (tlb \cup {PageOf[r.inst] : r \in Install(jtlb, ptw)})
  /\ missq' = [p \in Port |-> IF Missed(look[p]) /\ ~flush THEN look[p] ELSE NoInst]
  /\ mb' = [e \in Entry |->
              IF flush THEN Flushed(e, e \in Issue(flush), take(e))
              ELSE MbNext(e, AllocFor(e, flush), e \in Issue(flush), take(e),
                          e \in installed, e \in hit)]
  /\ cam' = [e \in Entry |-> CASE flush              -> NoInst
                              [] e \in faulted /\ ~flush -> mb[e].inst
                              [] e \in hit \ faulted /\ ~flush -> NoInst
                              [] OTHER              -> cam[e]]
  /\ credits' = CreditAfter(Issue(flush) # {}, ret)
  /\ ptr' = IF credits > 0 /\ Ready # {}
            THEN CHOOSE n \in {(e % MbDepth) + 1 : e \in RoundRobin} : TRUE ELSE ptr
=============================================================================
