------------------------------- MODULE L2Arb -------------------------------
(***************************************************************************)
(* Who enters the L2 TLB, and what is in its pipeline: the arbiter         *)
(* src/mmu/rtl/mmu_arb.sv and the two stages of src/mmu/rtl/mmu_l2tlb.sv.  *)
(*                                                                         *)
(* A refill of the page walker takes two accesses: a read that finds the   *)
(* victim way, and two cycles later the write; ptw_on keeps everybody else *)
(* out in between.  A TLB operation keeps the others out from its first    *)
(* grant to its completion (tlboper_on).                                   *)
(***************************************************************************)

VARIABLES
  tlboperOn,  \* tlboper_on
  ptwOn,      \* ptw_on
  wrReq1,     \* ptw_write_req1
  wrReq2,     \* ptw_write_req2
  raw,        \* raw_vld with raw_acc_type: the access in the first stage
  final,      \* final_*: the access that reached the second stage last
  finalVld,   \* final_vld: it did so in the last cycle
  wbufFull    \* l2tlb_arb_rrpv_wbuf_full: the RRPV write buffer stalls the
              \* arbiter (its contents are left open)

arbVars == <<tlboperOn, ptwOn, wrReq1, wrReq2, raw, final, finalVld, wbufFull>>

(***************************************************************************)
(* Accesses: "read" and "write" are the two of a refill, "oper" is the TLB *)
(* operation unit (by: the machines that asked), "itlb" and "dtlb" are     *)
(* lookups.  wr: the operation writes; the pipeline does not carry it, the *)
(* properties do.  Those of the prefetcher, of lowest priority, are DTLB lookups *)
(* to all that follows.                                                    *)
(***************************************************************************)
Lookup     == {"itlb", "dtlb"}
Acc(t, by, wr) == [type |-> t, by |-> by, wr |-> wr]
NoAcc      == Acc("none", {}, FALSE)

L2ArbTypeOK(Machine) ==
  /\ {tlboperOn, ptwOn, wrReq1, wrReq2, finalVld, wbufFull} \subseteq BOOLEAN
  /\ {raw, final} \subseteq [type : Lookup \cup {"none", "read", "oper"},
                             by : SUBSET Machine, wr : BOOLEAN]

L2ArbInit ==
  /\ tlboperOn = FALSE /\ ptwOn = FALSE
  /\ wrReq1 = FALSE /\ wrReq2 = FALSE
  /\ raw = NoAcc /\ final = NoAcc /\ finalVld = FALSE
  /\ wbufFull = FALSE

\* Mutant: the type of the access is not looked at
JtlbCmpltOfAny == finalVld

JtlbCmplt == finalVld /\ final.type = "oper"    \* l2tlb_tlboper_cmplt

\* arb_ptw_write_grant, and what the other grants have in common
WriteGrant  == wrReq2 /\ ~tlboperOn /\ ptwOn

\* (mutant: the gap between the two accesses of a refill is open)
OpenInRefill == ~wbufFull

Open == ~ptwOn /\ ~wbufFull

\* The access let in, by fixed priority.  A TLB operation does not look at
\* tlboper_on, so it is let in again while it holds it.  issue: the lookup
\* asked for.
Grant(ptwReq, operReq, issue) ==
  CASE WriteGrant                                   -> "write"
    [] Open /\ ptwReq /\ ~tlboperOn                 -> "read"
    [] Open /\ ~ptwReq /\ operReq                   -> "oper"
    [] Open /\ ~ptwReq /\ ~operReq /\ ~tlboperOn    -> issue
    [] OTHER                                        -> "none"

L2ArbEdge(grant, by, wr, operCmplt) ==
  /\ tlboperOn' = (~(tlboperOn /\ operCmplt) /\ (grant = "oper" \/ tlboperOn))
  /\ ptwOn' = (~(ptwOn /\ grant = "write") /\ (grant = "read" \/ ptwOn))
  /\ wrReq1' = (grant = "read")
  /\ wrReq2' = ((wrReq1 /\ ~wrReq2) \/ (wrReq2 /\ grant # "write"))
  /\ raw' = IF grant \in {"none", "write"} THEN NoAcc
            ELSE IF grant = "oper" THEN Acc("oper", by, wr)
            ELSE Acc(grant, {}, FALSE)
  /\ finalVld' = (raw # NoAcc)
  /\ final' = IF raw = NoAcc THEN final ELSE raw
  /\ wbufFull' \in BOOLEAN
=============================================================================
