------------------------------- MODULE L1Itlb -------------------------------
(***************************************************************************)
(* The L1 instruction TLB: src/mmu/rtl/mmu_l1itlb.sv with its entries      *)
(* (ct_mmu_iutlb_fst_entry.v, ct_mmu_iutlb_entry.v) and the choice of the  *)
(* entry to replace (ct_mmu_iplru.v).                                      *)
(*                                                                         *)
(* A fetch is answered by the fast slots only (0, 8, 16 and 24 of 32 in    *)
(* the source).  One that hits a slow slot makes that slot and a fast one, *)
(* taken in turn, exchange their entries, and is answered in the next      *)
(* cycle.  One that hits nowhere starts the only miss the TLB can have; a  *)
(* change of flow (ifu_mmu_abort) gives the miss up, but not the request.  *)
(*                                                                         *)
(* Pages are of 4K.  The MMU is on and every address legal.                *)
(***************************************************************************)
EXTENDS Integers

CONSTANTS
  Fast,  \* the slots that answer
  Slow,  \* the other slots
  Vpn,   \* virtual page numbers
  Low    \* their last eight bits, all that an invalidation compares

NoVpn == "-"
ASSUME SlotAssumption ==
  Fast \cup Slow \subseteq Nat /\ Fast \cap Slow = {} /\ Fast # {}
ASSUME VpnAssumption == Vpn # {} /\ NoVpn \notin Vpn /\ DOMAIN Low = Vpn

Slot == Fast \cup Slow

\* An answer to the miss: a page, a page fault or an access error
Answer   == [vpn : Vpn, kind : {"page", "flt", "acc"}]
NoAnswer == [vpn |-> NoVpn, kind |-> "none"]

VARIABLES
  vld,     \* utlb_vld: the slots with a valid entry
  vpn,     \* utlb_vpn
  wen,     \* iutlb_fst_wen: the fast slot that exchanges next
  victim,  \* refill_num_index: the slot that a refill writes
  st,      \* ref_cur_st
  credit   \* credit_cnt

itlbVars == <<vld, vpn, wen, victim, st, credit>>

L1ItlbTypeOK ==
  /\ vld \subseteq Slot
  /\ vpn \in [Slot -> Vpn]
  /\ wen \in Fast
  /\ victim \in Slot
  /\ st \in {"idle", "wfg", "wfc", "pgflt", "abt"}
  /\ credit \in BOOLEAN

Least(S) == CHOOSE s \in S : \A k \in S : s <= k

\* Reset clears every field of every entry
L1ItlbInit ==
  /\ vld = {}
  /\ \E v \in Vpn : vpn = [s \in Slot |-> v]
  /\ wen = Least(Fast) /\ victim = Least(Slot)
  /\ st = "idle" /\ credit = TRUE

-----------------------------------------------------------------------------
\* The lookup of the fetch v, or of none
Hit(v)   == {s \in vld : vpn[s] = v}               \* iutlb_entry_hit
SwpEn(v) == Hit(v) # {} /\ Hit(v) \cap Fast = {}   \* iutlb_swp_en
MissOn(v) == st = "idle" /\ v # NoVpn /\ Hit(v) = {}

\* Mutant: a page fault is not an answer
PaVldNoFault(v, a) == Hit(v) \cap Fast # {} \/ (a.kind = "acc" /\ st # "idle")
\* mmu_ifu_pavld: by a hit, an access error, or a page fault kept for a cycle
PaVld(v, a) ==
  \/ Hit(v) \cap Fast # {}
  \/ a.kind = "acc" /\ st # "idle"                 \* iutlb_acc_flt
  \/ st = "pgflt"

\* The entries after the exchange, if there is one, and which of them are valid
Swapped(v) ==
  IF SwpEn(v) THEN [s \in Slot |-> CASE s = wen           -> v
                                     [] s \in Hit(v)      -> vpn[wen]
                                     [] OTHER             -> vpn[s]]
  ELSE vpn
SwappedVld(v) ==
  IF SwpEn(v) THEN (vld \ Hit(v)) \cup {wen} \cup (IF wen \in vld THEN Hit(v) ELSE {})
  ELSE vld

NextFast == IF \E f \in Fast : f > wen THEN Least({f \in Fast : f > wen})
            ELSE Least(Fast)

\* Mutant: an answer is taken after an abort too
RefilledWhenever(a) == IF st \in {"wfc", "abt"} /\ a.kind = "page" THEN {victim} ELSE {}
\* iutlb_refill_vld: the slot that takes the answer, if any
Refilled(a) == IF st = "wfc" /\ a.kind = "page" THEN {victim} ELSE {}

\* Mutant: an invalidation of one page does not look at the slow slots
ClearedFast(inv) ==
  IF inv \in Vpn THEN {s \in Fast : Low[vpn[s]] = Low[inv]}
  ELSE IF inv = "all" THEN Slot ELSE {}
\* utlb_entry_clr: by the contents of the slot before this cycle
Cleared(inv) ==
  IF inv \in Vpn THEN {s \in Slot : Low[vpn[s]] = Low[inv]}
  ELSE IF inv = "all" THEN Slot ELSE {}

\* write_num: a slot without a valid entry, else any (the tree is left out)
Victims == IF vld = Slot THEN Slot ELSE {Least(Slot \ vld)}

\* Mutant: the request is forgotten with the miss
NextStForgets(abort, miss, a) ==
  CASE st = "idle" /\ ~abort /\ miss                     -> "wfg"
    [] st = "wfg" /\ ~abort                              -> IF credit THEN "wfc" ELSE "wfg"
    [] st = "wfc" /\ ~abort /\ a = NoAnswer              -> "wfc"
    [] st = "wfc" /\ ~abort /\ a.kind = "flt"            -> "pgflt"
    [] OTHER                                             -> "idle"
\* ref_nxt_st
NextSt(abort, miss, a) ==
  CASE st = "idle" /\ ~abort /\ miss                     -> "wfg"
    [] st = "wfg" /\ credit                              -> IF abort THEN "abt" ELSE "wfc"
    [] st = "wfg" /\ ~credit /\ ~abort                   -> "wfg"
    [] st \in {"wfc", "abt"} /\ a = NoAnswer             -> IF abort THEN "abt" ELSE st
    [] st = "wfc" /\ ~abort /\ a.kind = "flt"            -> "pgflt"
    [] OTHER                                             -> "idle"

Request == st = "wfg"                              \* iutlb_l2tlb_req

(***************************************************************************)
(* One clock cycle.  v: the fetch, if any; abort: ifu_mmu_abort; miss: a   *)
(* miss is looked at; a: the answer; inv: what is invalidated; ret: the    *)
(* credit is returned.                                                     *)
(***************************************************************************)
L1ItlbEdge(v, abort, miss, a, inv, ret) ==
  /\ vpn' = [s \in Slot |-> IF s \in Refilled(a) THEN a.vpn ELSE Swapped(v)[s]]
  /\ vld' = (SwappedVld(v) \cup Refilled(a)) \ Cleared(inv)
  /\ wen' = IF SwpEn(v) THEN NextFast ELSE wen
  /\ victim' \in IF st = "wfc" THEN Victims ELSE {victim}
  /\ st' = NextSt(abort, miss, a)
  /\ credit' = (ret \/ (credit /\ ~Request))
=============================================================================
