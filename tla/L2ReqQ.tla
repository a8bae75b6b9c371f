------------------------------- MODULE L2ReqQ -------------------------------
(***************************************************************************)
(* The request queue of the L2 TLB (src/mmu/rtl/mmu_l2tlb_reqq.sv and its  *)
(* entries, mmu_l2tlb_reqq_entry.sv): the entries that hold DTLB requests. *)
(* A request is written to the first free entry, let into the pipeline by  *)
(* the arbiter, at once if nothing else is ready, and leaves the entry when*)
(* the pipeline reports its result; after "retry" it is issued again.  The *)
(* entry left is the credit returned to the L1 data TLB.  The queue itself *)
(* does not look for room: it relies on the credits.                       *)
(***************************************************************************)
EXTENDS Integers

CONSTANT QueDepth   \* DTLB_DEPTH: entries for the DTLB (8 in the source)
ASSUME QueDepthAssumption == QueDepth \in Nat \ {0}

QSlot  == 1 .. QueDepth
NoSlot == 0
NoReq  == [id |-> 0, inst |-> 0]

VARIABLES
  reqq,   \* the request in each entry (r_vld with eid, type, VPN), or NoReq
  sent    \* r_sent: entries whose request is in the pipeline

reqqVars == <<reqq, sent>>

L2ReqQTypeOK(Request) ==
  /\ reqq \in [QSlot -> Request \cup {NoReq}]
  /\ sent \subseteq QSlot

L2ReqQInit == reqq = [s \in QSlot |-> NoReq] /\ sent = {}

First(S) == {s \in S : \A k \in S : s <= k}
Held     == {s \in QSlot : reqq[s] # NoReq}         \* entry_vld_vec
Free     == First(QSlot \ Held)                     \* dtlb_alloc_oh

\* Mutant: an entry is ready while its request is in the pipeline
ReadyWhileSent == Held
Waiting        == Held \ sent                       \* entry_rdy_vec

\* entry_grant_vec or bypass_grant_vec.  new: the request that arrives, if any;
\* grant: issue_grant in a cycle without request of the ITLB.
Issued(new, grant) ==
  CASE grant /\ Waiting # {}             -> First(Waiting)
    [] grant /\ Waiting = {} /\ new # {} -> Free
    [] OTHER                             -> {}

\* entry_dealloc: the entry left.  slot, kind: the feedback of the pipeline
Dealloc(slot, kind) == {s \in Held : s = slot /\ kind # "retry"}

\* One clock cycle.  go: the entry issued, if any
L2ReqQEdge(new, go, slot, kind) ==
  LET alloc == IF new # {} THEN Free ELSE {}
      left  == Dealloc(slot, kind)
  IN
  /\ reqq' = [s \in QSlot |-> IF s \in left THEN NoReq
                              ELSE IF s \in alloc THEN CHOOSE r \in new : TRUE
                              ELSE reqq[s]]
  /\ sent' = (alloc \cap go) \cup
             (((sent \cup go) \ {s \in Held : s = slot}) \ alloc)
=============================================================================
