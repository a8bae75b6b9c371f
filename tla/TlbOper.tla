------------------------------ MODULE TlbOper ------------------------------
(***************************************************************************)
(* The TLB operation unit, src/mmu/rtl/ct_mmu_tlboper.v: seven state       *)
(* machines that read and write the L2 TLB for the operations of the CP0   *)
(* register MCIR (probe, read, two writes, two invalidations) and for the  *)
(* invalidations broadcast by other cores, which the snoop queue of the    *)
(* LSU (ctcq) requests and holds until mmu_lsu_tlb_inv_done.               *)
(*                                                                         *)
(* One step is one clock edge.  The operators here are the combinational   *)
(* outputs of the unit in a cycle and TlbOperEdge is its register update;  *)
(* L2Access composes it with the arbiter, the pipeline and the miss buffer.*)
(* The parameters grant, cmplt and hit are arb_tlboper_grant,              *)
(* jtlb_tlboper_cmplt and jtlb_tlboper_asid_hit / jtlb_tlboper_va_hit.     *)
(***************************************************************************)
EXTENDS Integers

CONSTANTS
  InvLast,  \* the last set of a counted invalidation (255 in the source)
  Cp0Ops    \* what CP0 does: operations of MCIR, and "all" for its own
            \* invalidate-all wire cp0_mmu_tlb_all_inv

Cp0Fsm == {"tlbp", "tlbr", "tlbwi", "tlbwr", "invasid", "invall"}
LsuFsm == {"invasid", "invall", "invva"}
Fsm    == Cp0Fsm \cup LsuFsm

ASSUME InvLastAssumption == InvLast \in Nat \ {0}
ASSUME Cp0OpsAssumption == Cp0Ops \subseteq Cp0Fsm \cup {"all"}

VARIABLES
  st,        \* tlbp_cur_st ... tlbiva_cur_st
  wtGrant,   \* tlbwr_wt_grant
  cnt,       \* tlb_inv_cnt
  lsuFlop,   \* tlb_lsu_oper_flop: the operation running is the LSU's
  lsuCmplt,  \* lsu_oper_cmplt = mmu_lsu_tlb_inv_done
  lsuReq,    \* ctcq: the invalidation asked for (lsu_mmu_tlb_*_inv)
  cp0All,    \* CP0: cp0_mmu_tlb_all_inv
  mcir       \* ct_mmu_regs: mcir_tlbp ... mcir_invall

operVars == <<st, wtGrant, cnt, lsuFlop, lsuCmplt>>
askVars  == <<lsuReq, cp0All, mcir>>

FsmState == {"idle", "wfg", "wfc", "tag", "rd", "wt", "nwt", "cmp", "wr", "cmplt"}

TlbOperTypeOK ==
  /\ st \in [Fsm -> FsmState]
  /\ wtGrant \in BOOLEAN
  /\ cnt \in 0 .. InvLast
  /\ lsuFlop \in BOOLEAN
  /\ lsuCmplt \in BOOLEAN
  /\ lsuReq \in LsuFsm \cup {"none"}
  /\ cp0All \in BOOLEAN
  /\ mcir \subseteq Cp0Fsm

TlbOperInit ==
  /\ st = [f \in Fsm |-> "idle"]
  /\ wtGrant = FALSE
  /\ cnt = 0
  /\ lsuFlop = FALSE
  /\ lsuCmplt = FALSE
  /\ lsuReq = "none"
  /\ cp0All = FALSE
  /\ mcir = {}

-----------------------------------------------------------------------------
Busy    == {f \in Fsm : st[f] # "idle"}
SmIdle  == Busy = {}          \* tlb_sm_idle
LsuOper == lsuReq # "none"    \* tlb_lsu_oper
InvDone == cnt = InvLast      \* tlb_inv_done

\* tlboper_ptw_abort: from the request until it is captured, and once more in
\* the cycle in which the LSU is told that it is done
\* (mutant: only from the request until it is captured)
PtwAbortOnce == LsuOper /\ ~lsuFlop /\ ~lsuCmplt

PtwAbort == LsuOper /\ ~lsuFlop

LsuStart == LsuOper /\ ~lsuCmplt /\ SmIdle

\* Mutant: every machine of CP0 looks at the flop, as the probe does
StartByFlop(f) ==
  \/ f \in LsuFsm /\ lsuReq = f /\ LsuStart
  \/ f = "invall" /\ cp0All /\ ~lsuCmplt /\ SmIdle
  \/ f \in mcir /\ ~lsuFlop /\ (f = "invall" => ~cp0All)

\* What makes an idle machine leave its idle state.  The probe looks at the
\* flop where the others look at the request.
Start(f) ==
  \/ f \in LsuFsm /\ lsuReq = f /\ LsuStart
  \/ f = "invall" /\ cp0All /\ ~lsuCmplt /\ SmIdle
  \/ /\ f \in mcir
     /\ IF f = "tlbp" THEN ~lsuFlop ELSE ~LsuOper
     /\ f = "invall" => ~cp0All

Starting == {f \in Fsm : st[f] = "idle" /\ Start(f)}

\* tlb_*_req: the machine wants the L2 TLB in this cycle
Req(f, cmplt) ==
  CASE f \in {"tlbp", "tlbr", "tlbwi"} -> st[f] = "wfg"
    [] f = "tlbwr"   -> \/ st[f] = "wfg"
                        \/ st[f] = "tag" /\ cmplt
                        \/ st[f] = "wfc" /\ ~wtGrant
    [] f = "invasid" -> st[f] \in {"rd", "wt"}
    [] f = "invall"  -> st[f] = "wfc"
    [] f = "invva"   -> st[f] \in {"rd", "wr"}

Requesting(cmplt) == {f \in Fsm : Req(f, cmplt)}

\* tlboper_jtlb_inv_asid: whose ASID the ways of a set are compared with
InvAsid == IF "invasid" \in mcir THEN "cp0" ELSE "lsu"

\* The machines that write the ways found by their read: a write goes to the
\* ways the L2 TLB still shows in jtlb_tlboper_sel
WritesBack(f, cmplt) ==
  \/ f = "tlbwr" /\ Req(f, cmplt) /\ st[f] # "wfg"
  \/ f = "invasid" /\ st[f] = "wt"
  \/ f = "invva" /\ st[f] = "wr"

\* tlboper_arb_write: the access is a write
Writes(f, cmplt) ==
  \/ WritesBack(f, cmplt)
  \/ f \in {"tlbwi", "invall"} /\ Req(f, cmplt)

\* tlb_*_cmplt: the machine finishes in this cycle
Finish(f, grant, cmplt) ==
  CASE f \in {"tlbp", "tlbr", "tlbwi"} -> st[f] = "wfc" /\ cmplt
    [] f = "tlbwr"   -> st[f] = "wfc" /\ wtGrant /\ cmplt
    [] f = "invasid" -> ((st[f] = "wt" /\ grant) \/ st[f] = "nwt") /\ InvDone
    [] f = "invall"  -> st[f] = "wfc" /\ grant /\ InvDone
    [] f = "invva"   -> st[f] = "cmplt"

Finishing(grant, cmplt) == {f \in Fsm : Finish(f, grant, cmplt)}

\* Mutants: the end of the invalidation by address is forgotten
OperCmpltNoInvva(grant, cmplt) == Finishing(grant, cmplt) \ {"invva"} # {}
LsuOperCmpltNoInvva(grant, cmplt) ==
  Finishing(grant, cmplt) \cap {"invasid", "invall"} # {}

OperCmplt(grant, cmplt)    == Finishing(grant, cmplt) # {}
LsuOperCmplt(grant, cmplt) == Finishing(grant, cmplt) \cap LsuFsm # {}

\* Mutant: CP0 is told of the LSU's operations too
RegsCmpltOfAny(grant, cmplt) == OperCmplt(grant, cmplt)

RegsCmplt(grant, cmplt) == OperCmplt(grant, cmplt) /\ ~lsuFlop

-----------------------------------------------------------------------------
\* The transitions out of a state other than idle
Move(f, grant, cmplt, hit) ==
  LET s == st[f] IN
  IF Finish(f, grant, cmplt) THEN "idle" ELSE
  CASE s = "wfg" /\ grant                 -> IF f = "tlbwr" THEN "tag" ELSE "wfc"
    [] s = "tag" /\ cmplt                 -> "wfc"
    [] s = "rd"  /\ grant                 -> IF f = "invva" THEN "cmp" ELSE "wfc"
    [] s = "wfc" /\ f = "invasid" /\ cmplt -> IF hit THEN "wt" ELSE "nwt"
    [] s = "wt"  /\ f = "invasid" /\ grant -> "rd"
    [] s = "nwt"                          -> "rd"
    [] s = "cmp" /\ cmplt                 -> IF hit THEN "wr" ELSE "cmplt"
    [] s = "wr"  /\ grant                 -> "wt"
    [] s = "wt"  /\ f = "invva" /\ cmplt  -> "cmplt"
    [] OTHER                              -> s

First(f) == CASE f \in {"invasid", "invva"} -> "rd"
              [] f = "invall"               -> "wfc"
              [] OTHER                      -> "wfg"

CntInit == Starting \cap {"invasid", "invall"} # {}

\* Mutant: the last set does not stop the counter
CntDecPastLast(grant) ==
  \/ st["invasid"] = "wt" /\ grant
  \/ st["invasid"] = "nwt"
  \/ st["invall"] = "wfc" /\ grant

CntDec(grant) ==
  /\ ~InvDone
  /\ \/ st["invasid"] = "wt" /\ grant
     \/ st["invasid"] = "nwt"
     \/ st["invall"] = "wfc" /\ grant

TlbOperEdge(grant, cmplt, hit) ==
  /\ st' = [f \in Fsm |-> IF st[f] # "idle" THEN Move(f, grant, cmplt, hit)
                          ELSE IF Start(f) THEN First(f) ELSE "idle"]
  /\ wtGrant' = /\ st["tlbwr"] # "idle"
                /\ \/ WritesBack("tlbwr", cmplt) /\ grant
                   \/ wtGrant /\ ~Finish("tlbwr", grant, cmplt)
  /\ cnt' = IF CntInit THEN 0 ELSE IF CntDec(grant) THEN cnt + 1 ELSE cnt
  /\ lsuFlop' = (LsuStart \/ (lsuFlop /\ ~LsuOperCmplt(grant, cmplt)))
  /\ lsuCmplt' = (lsuFlop /\ LsuOperCmplt(grant, cmplt))

-----------------------------------------------------------------------------
(***************************************************************************)
(* Who asks.  ctcq drops its request on done and needs a cycle before the  *)
(* next one.  CP0 writes one operation to MCIR or raises its wire, and     *)
(* waits for mmu_cp0_cmplt or mmu_cp0_tlb_done (tlb_invall_cmplt).         *)
(***************************************************************************)
CtcqEdge ==
  IF LsuOper
  THEN lsuReq' = IF lsuCmplt THEN "none" ELSE lsuReq
  ELSE lsuReq' \in LsuFsm \cup {"none"}

\* The write of an MCIR bit comes before its clearing; every bit is cleared
\* when any operation not of the LSU completes.
RegsEdge(write, grant, cmplt) ==
  mcir' = write \cup (IF RegsCmplt(grant, cmplt) THEN {} ELSE mcir)

Cp0Edge(grant, cmplt) ==
  IF mcir = {} /\ ~cp0All
  THEN \E op \in Cp0Ops \cup {"none"} :
         /\ cp0All' = (op = "all")
         /\ RegsEdge({op} \cap Cp0Fsm, grant, cmplt)
  ELSE /\ cp0All' = (cp0All /\ ~Finish("invall", grant, cmplt))
       /\ RegsEdge({}, grant, cmplt)
=============================================================================
