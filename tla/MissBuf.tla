------------------------------ MODULE MissBuf ------------------------------
(***************************************************************************)
(* The miss buffer of the L2 TLB (src/mmu/rtl/mmu_l2tlb_mb.sv and its      *)
(* entries, mmu_l2tlb_mb_entry.sv) and the page walks as the buffer sees   *)
(* them: the request register of PDE_cache.sv, and the walks past it, that *)
(* walk (twu.sv) or wait in ptw.sv to write their translation to the L2    *)
(* TLB or to report a fault.                                               *)
(*                                                                         *)
(* A walk is known by the index of its entry.  Entry 0 serves the ITLB,    *)
(* the others the DTLB and the prefetcher.  tlboper_ptw_abort drops every  *)
(* walk, and clears the sent bit of every entry so that it asks again.    *)
(***************************************************************************)
EXTENDS Integers

CONSTANT DtlbDepth   \* DTLB_DEPTH: entries for the DTLB (8 in the source)
ASSUME DtlbDepthAssumption == DtlbDepth \in Nat \ {0}

MbEntry == 0 .. DtlbDepth

VARIABLES
  vld,     \* r_vld, per entry
  sent,    \* r_sent, per entry
  pdeReq,  \* ptw_req with ptw_id of PDE_cache.sv: no walk or one
  walks    \* walks past it, until they complete (twu.sv, ptw_mbuf.sv, ptw.sv)

mbVars == <<vld, sent, pdeReq, walks>>

MissBufTypeOK == {vld, sent, pdeReq, walks} \subseteq SUBSET MbEntry

MissBufInit == vld = {} /\ sent = {} /\ pdeReq = {} /\ walks = {}

InPtw == pdeReq \cup walks

-----------------------------------------------------------------------------
\* The entry given to a lookup of the ITLB or the DTLB that misses: none when
\* there is no free one
Alloc(isDtlb) ==
  IF isDtlb
  THEN {i \in MbEntry \ (vld \cup {0}) : \A k \in 1 .. i - 1 : k \in vld}
  ELSE {0} \ vld

\* Mutant: a miss that was sent is sent again
RdyAlways == vld

\* entry_rdy_vec, and the one of lowest index
Rdy      == vld \ sent
FirstRdy == {i \in Rdy : \A k \in Rdy : i <= k}

\* Mutant: an entry is sent also when the request register is held
EntryGrantAlways(ready) == FirstRdy

\* entry_grant_vec and bypass_grant_vec: a new entry is sent at once when no
\* other one is ready
EntryGrant(ready)         == IF ready THEN FirstRdy ELSE {}
BypassGrant(ready, alloc) == IF ready /\ Rdy = {} THEN alloc ELSE {}

(***************************************************************************)
(* alloc: the entry allocated; done: the walk that completes (sets of at   *)
(* most one); abort: tlboper_ptw_abort; held: xbar_pde_ready = 0, so that  *)
(* the request register keeps its walk; ready: ptw_jtlb_ready.             *)
(***************************************************************************)
MissBufEdge(alloc, done, abort, held, ready) ==
  LET granted == EntryGrant(ready)
      bypass  == BypassGrant(ready, alloc)
  IN
  /\ vld' = (vld \cup alloc) \ done
  /\ sent' = bypass \cup
       ((IF abort THEN {} ELSE (sent \cup granted) \ (done \cap vld)) \ alloc)
  /\ pdeReq' = IF abort THEN {}
               ELSE IF granted \cup bypass # {} THEN granted \cup bypass
               ELSE IF held THEN pdeReq ELSE {}
  /\ walks' = IF abort THEN {}
              ELSE (walks \ done) \cup (IF held THEN {} ELSE pdeReq)
=============================================================================
