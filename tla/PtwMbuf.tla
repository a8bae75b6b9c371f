------------------------------ MODULE PtwMbuf ------------------------------
(***************************************************************************)
(* The page-table-read buffer between the table walk unit (TWU) and the    *)
(* load/store unit (LSU): src/mmu/rtl/ptw_mbuf.sv and its nine instances   *)
(* of src/mmu/rtl/mbuf_entry.sv.                                           *)
(*                                                                         *)
(* The TWU hands over one page table read ("job") per cycle.  An entry     *)
(* presents it to the LSU under its own index as the request id, waits for *)
(* the response carrying that id, and writes the PTE back to the TWU (and, *)
(* one cycle later, to the PDE cache), or reports a bus error.  A TLB      *)
(* maintenance operation of the LSU raises tlboper_ptw_abort: every job is *)
(* dropped at once, but reads the LSU has accepted stay recorded until     *)
(* they come back (the drain).                                             *)
(*                                                                         *)
(* One step is one rising edge of forever_cpuclk.  The unprimed variables  *)
(* are what the registers hold during the cycle that the edge ends; the    *)
(* inputs of the cycle are the parameters of the actions.  One-hot vectors *)
(* of the source are sets of entry indices here, and a register with a     *)
(* valid bit is the value or a "none" constant.                            *)
(***************************************************************************)
EXTENDS Integers, FiniteSets

CONSTANTS
  N,          \* entries for DTLB walks (8 in the source); entry N is the ITLB's
  DtlbJobs,   \* page table reads of DTLB walks (address, VPN, type, id, level)
  ItlbJobs,   \* page table reads of ITLB walks (twu_mbuf_type = 3'b011)
  NoJob,      \* an entry with mbuf_vld = 0
  NoData      \* an entry with mbuf_get = 0; pde_updata_data_vld = 0

ASSUME NAssumption == N \in Nat \ {0}
ASSUME JobAssumption ==
  /\ DtlbJobs \cap ItlbJobs = {}
  /\ NoJob \notin DtlbJobs \cup ItlbJobs

ItlbEntry == N
DtlbEntry == 0 .. N - 1
Entry     == 0 .. N
Job       == DtlbJobs \cup ItlbJobs

(***************************************************************************)
(* What a read returns: a PTE that points to the next level and may enter  *)
(* the PDE cache (V=1, R=W=X=0, not read at the last level), or any other  *)
(* PTE.  The job the memory word belongs to travels with it, so that data  *)
(* delivered for the wrong job can be told apart.                          *)
(***************************************************************************)
PteKind == {"pointer", "other"}
Pte     == [job : Job, kind : PteKind]

ASSUME NoDataAssumption == NoData \notin Pte /\ NoData \notin [job : Job, pte : Pte]

VARIABLES
  abort,    \* tlboper_ptw_abort in this cycle
  job,      \* mbuf_vld and the payload registers, per entry
  on,       \* mbuf_on: entries with a read the LSU has accepted
  got,      \* mbuf_get and mbuf_lsu_data, per entry
  busErrOn, \* mbuf_bus_err_flop: entries with a bus error to report
  hold,     \* req_hold_vld and req_hold_ptr (one-hot)
  drain,    \* tlboper_ptw_abort_reg
  busErr,   \* mbuf_bus_error with mbuf_bus_error_type/id
  pdeUpd,   \* pde_updata_data_vld with pde_updata_*: the last write-back
  inLsu,    \* environment: reads inside the LSU, [id, job]
  waiting   \* environment: jobs the TWU has handed over and not heard of

vars == <<abort, job, on, got, busErrOn, hold, drain, busErr, pdeUpd,
          inLsu, waiting>>

Read     == [id : Entry, job : Job]
Response == [id : Entry, job : Job, kind : PteKind \cup {"error"}]
NoResp   == [kind |-> "none"]

TypeOK ==
  /\ abort \in BOOLEAN
  /\ job \in [Entry -> Job \cup {NoJob}]
  /\ on \subseteq Entry
  /\ got \in [Entry -> Pte \cup {NoData}]
  /\ busErrOn \subseteq Entry
  /\ hold \subseteq Entry
  /\ drain \in BOOLEAN
  /\ busErr \in Job \cup {NoJob}
  /\ pdeUpd \in [job : Job, pte : Pte] \cup {NoData}
  /\ inLsu \subseteq Read
  /\ waiting \subseteq Job

Init ==
  /\ abort = FALSE
  /\ job = [i \in Entry |-> NoJob]
  /\ on = {}
  /\ got = [i \in Entry |-> NoData]
  /\ busErrOn = {}
  /\ hold = {}
  /\ drain = FALSE
  /\ busErr = NoJob
  /\ pdeUpd = NoData
  /\ inLsu = {}
  /\ waiting = {}

-----------------------------------------------------------------------------
(***************************************************************************)
(* The request side.                                                       *)
(***************************************************************************)
Valid == {i \in Entry : job[i] # NoJob}

\* Mutant: the drain does not keep the buffer closed
AbortOnly == abort

\* ptw_abort_drain
AbortDrain == abort \/ drain

\* Mutant: a read that waits for the LSU is asked for again
PendingWhileOn == {i \in Valid : got[i] = NoData /\ i \notin busErrOn}

\* mbuf_req_pending: valid, and neither waiting for the LSU nor for the TWU
Pending == {i \in Valid : i \notin on /\ got[i] = NoData /\ i \notin busErrOn}

\* req_sel_ptr: the ITLB entry first, then the lowest index
ReqSel == {i \in Pending : \/ i = ItlbEntry
                           \/ /\ ItlbEntry \notin Pending
                              /\ \A k \in Pending : i <= k}

\* Mutant: a request gives way to one of higher priority
ReqPtrNoHold == IF AbortDrain THEN {} ELSE ReqSel

\* mmu_lsu_data_req_ptr: once presented, a request is held until it is granted
ReqPtr == IF AbortDrain THEN {} ELSE IF hold # {} THEN hold ELSE ReqSel

\* create_ptr: the first free DTLB entry, none when all are valid
CreatePtr == {i \in DtlbEntry : /\ i \notin Valid
                                /\ \A k \in DtlbEntry : k < i => k \in Valid}

\* mbuf_entry_upd for the job req of the TWU (NoJob: twu_mbuf_req = 0).  The
\* ITLB entry is written without looking at its valid bit.
EntryUpd(req) ==
  IF req = NoJob \/ AbortDrain THEN {}
  ELSE IF req \in ItlbJobs THEN {ItlbEntry} ELSE CreatePtr

(***************************************************************************)
(* The response side.  A response is routed by its id and seen only by an  *)
(* entry that is on.                                                       *)
(***************************************************************************)
\* (mutants: the id is not compared; only a valid entry takes a response)
DataRoutedToAll(resp) == {i \in on : resp.kind \in PteKind}
DataRoutedValid(resp) == {i \in on \cap Valid : resp.kind \in PteKind /\ resp.id = i}

DataRouted(resp) == {i \in on : resp.kind \in PteKind /\ resp.id = i}
ErrRouted(resp)  == {i \in on : resp.kind = "error" /\ resp.id = i}

WriteBackReq(resp, ready) ==
  {i \in Valid : ~abort /\ ready /\ (i \in DataRouted(resp) \/ got[i] # NoData)}

\* Mutant: a response written back at once is taken from the buffer
EntryDataBuffered(i, resp) == got[i]

\* mbuf_entry_data: the buffered word, or the one arriving in this cycle
EntryData(i, resp) ==
  IF got[i] # NoData THEN got[i] ELSE [job |-> resp.job, kind |-> resp.kind]

\* Mutant: a bus error does not wait for the register to be free
BusErrReqOverwrite(resp, ack) ==
  {i \in Valid : ~abort /\ (i \in ErrRouted(resp) \/ i \in busErrOn)}

\* One bus error at a time waits for the access-error arbiter of ptw.sv;
\* ack is acc_err_mbuf_grant.
BusErrReq(resp, ack) ==
  {i \in Valid : /\ ~abort
                 /\ i \in ErrRouted(resp) \/ i \in busErrOn
                 /\ busErr = NoJob \/ ack}

\* The fixed priority of write_back_grant and mbuf_bus_error_grant
Highest(reqs) == {i \in reqs : \A k \in reqs : k <= i}

WriteBackGrant(resp, ready) == Highest(WriteBackReq(resp, ready))
BusErrGrant(resp, ack)      == Highest(BusErrReq(resp, ack))

\* mbuf_grant: the TWU takes the job as handed over
MbufGrant(req) == IF AbortDrain THEN {} ELSE {req} \ {NoJob}

-----------------------------------------------------------------------------
(***************************************************************************)
(* The environment.  The TWU has at most one read outstanding per walk:    *)
(* there are N slots for DTLB walks and one for the ITLB walk in the L2    *)
(* TLB's miss buffer, and the id in a job names the slot.                  *)
(***************************************************************************)
TwuMayAsk ==
  {NoJob}
  \cup (IF Cardinality(waiting \cap DtlbJobs) < N THEN DtlbJobs \ waiting ELSE {})
  \cup (IF waiting \cap ItlbJobs = {} THEN ItlbJobs ELSE {})

\* The LSU answers a read it holds, at any time and in any order.
LsuMayAnswer ==
  {NoResp} \cup {[id |-> r.id, job |-> r.job, kind |-> k] :
                   r \in inLsu, k \in PteKind \cup {"error"}}

Answered(resp) ==
  {r \in inLsu : resp # NoResp /\ r.id = resp.id /\ r.job = resp.job}

-----------------------------------------------------------------------------
(***************************************************************************)
(* The clock edges.                                                        *)
(***************************************************************************)
Some(s) == CHOOSE x \in s : TRUE

\* A cycle with tlboper_ptw_abort: everything not accepted by the LSU goes.
AbortCycle(resp) ==
  /\ abort
  /\ job' = [i \in Entry |-> NoJob]
  /\ got' = [i \in Entry |-> NoData]
  /\ busErrOn' = {}
  /\ on' = on \ (DataRouted(resp) \cup ErrRouted(resp))
  /\ hold' = {}
  /\ drain' = (on # {})
  /\ busErr' = NoJob
  /\ pdeUpd' = NoData
  /\ inLsu' = inLsu \ Answered(resp)
  /\ waiting' = {}
  /\ abort' \in BOOLEAN

\* Any other cycle.  req: the job the TWU asks for; lsuGrant:
\* lsu_mmu_data_req_grant; ready: twu_data_ready; ack: acc_err_mbuf_grant.
RunCycle(req, lsuGrant, resp, ready, ack) ==
  LET upd  == EntryUpd(req)
      fire == IF lsuGrant THEN ReqPtr ELSE {}
      data == DataRouted(resp)
      err  == ErrRouted(resp)
      wb   == WriteBackGrant(resp, ready)
      be   == BusErrGrant(resp, ack)
  IN
  /\ ~abort
  /\ ack => busErr # NoJob
  /\ job' = [i \in Entry |-> IF i \in upd THEN req
                             ELSE IF i \in wb \cup be THEN NoJob ELSE job[i]]
  /\ on' = (on \ (data \cup err)) \cup (fire \ (data \cup err))
  /\ got' = [i \in Entry |->
               IF i \in upd \cup wb THEN NoData
               ELSE IF i \in data THEN [job |-> resp.job, kind |-> resp.kind]
               ELSE got[i]]
  /\ busErrOn' = ((busErrOn \cup err) \ be) \ upd
  /\ hold' = IF drain \/ fire # {} THEN {} ELSE IF hold = {} THEN ReqPtr ELSE hold
  /\ drain' = (drain /\ on # {})
  /\ busErr' = IF be # {} THEN job[Some(be)] ELSE IF ack THEN NoJob ELSE busErr
  /\ pdeUpd' = IF wb # {} /\ ~drain
               THEN [job |-> job[Some(wb)], pte |-> EntryData(Some(wb), resp)]
               ELSE NoData
  /\ inLsu' = (inLsu \ Answered(resp)) \cup {[id |-> i, job |-> job[i]] : i \in fire}
  /\ waiting' = (waiting \cup MbufGrant(req))
                  \ ({job[i] : i \in wb} \cup (IF ack THEN {busErr} ELSE {}))
  /\ abort' \in BOOLEAN

\* A cycle in which the LSU answers resp (or nothing)
Cycle(resp) ==
  \/ AbortCycle(resp)
  \/ \E req \in TwuMayAsk, lsuGrant, ready, ack \in BOOLEAN :
       RunCycle(req, lsuGrant, resp, ready, ack)

Next == \E resp \in LsuMayAnswer : Cycle(resp)

Spec == Init /\ [][Next]_vars

(***************************************************************************)
(* The clock runs, and the LSU answers every read it has accepted (each    *)
(* read leaves the LSU with data or with a bus error; nothing is assumed   *)
(* about when, in which order, or about grants of new reads).              *)
(***************************************************************************)
AnswerTo(i) == \E resp \in LsuMayAnswer : resp # NoResp /\ resp.id = i /\ Cycle(resp)

Fairness == WF_vars(Next) /\ \A i \in Entry : WF_vars(AnswerTo(i))

FairSpec == Spec /\ Fairness

-----------------------------------------------------------------------------
(***************************************************************************)
(* Properties.                                                             *)
(***************************************************************************)
\* The LSU tells reads apart by the id alone.  The entries with mbuf_on are
\* exactly the ids the LSU holds, each for one read, and a request is never
\* presented with an id that still has a read outstanding, through aborts too.
OutstandingTracked ==
  /\ on = {r.id : r \in inLsu}
  /\ \A r, s \in inLsu : r.id = s.id => r = s
  /\ \A r \in inLsu : r.id \notin ReqPtr

\* Responses carry no address.  Unless an abort has dropped the jobs and the
\* drain is still on, the read the LSU holds under an id is the one the entry of
\* that index was filled for, and nothing buffered for a job is another's data.
ResponseReachesItsWalk ==
  /\ ~drain => \A r \in inLsu : job[r.id] = r.job
  /\ \A i \in Valid : got[i] # NoData => got[i].job = job[i]

\* Whatever the TWU waits for is in exactly one place: an entry, or the bus
\* error register.  A job the TWU was granted is not dropped for want of a free
\* entry, nor by the priorities of the two write-back ports, and an aborted one
\* leaves nothing behind.
NoLostWalk ==
  /\ waiting = {job[i] : i \in Valid} \cup ({busErr} \ {NoJob})
  /\ \A i, k \in Valid : job[i] = job[k] => i = k
  /\ \A i \in Valid : job[i] # busErr

\* A request that is not granted is presented again with the same id and
\* address, whatever arrives meanwhile (an ITLB job has a higher priority),
\* unless an abort withdraws it.
RequestStable ==
  [][\A i \in ReqPtr : i \in on' \/ abort' \/ (i \in ReqPtr' /\ job'[i] = job[i])]_vars

\* No entry is created and no read is issued during the drain, so the walks of
\* the whole MMU wait for it: the drain ends once the LSU has answered, however
\* the operations that abort walks are repeated.
DrainEnds == drain ~> ~drain

\* To the walks the buffer is a set of reads in progress: an answer is for a read
\* in progress, carries the word of that read, and is given once, at most one per
\* cycle besides one bus error; after an abort none of the old reads is answered.
Reads == INSTANCE PteReads WITH open <- waiting, reply <- pdeUpd
ImplementsPteReads == Reads!Spec
=============================================================================
