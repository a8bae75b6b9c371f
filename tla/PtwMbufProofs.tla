--------------------------- MODULE PtwMbufProofs ---------------------------
(***************************************************************************)
(* Proofs about PtwMbuf, for every number of entries and every set of      *)
(* jobs: its safety invariants are inductive once strengthened by the      *)
(* parts below, and it implements PteReads.                                *)
(***************************************************************************)
EXTENDS PtwMbuf, FiniteSetTheorems, WellFoundedInduction, TLAPS

\* Nothing is valid during the drain, so nothing can be answered then.
DrainEmpty == drain => Valid = {}

\* The ITLB entry serves ITLB jobs and the others DTLB jobs.
EntryServesItsKind ==
  \A i \in Valid : job[i] \in (IF i = ItlbEntry THEN ItlbJobs ELSE DtlbJobs)

\* A valid entry whose read is in the LSU has nothing buffered, and none has
\* both a word and a bus error to report.
OneStageAtATime ==
  \A i \in Valid : /\ i \in on => got[i] = NoData /\ i \notin busErrOn
                   /\ got[i] # NoData => i \notin busErrOn

\* Nothing else can happen to an entry while its request is held.
HoldPending == hold \subseteq Pending

\* The parts of NoLostWalk that do not need room in the buffer
WaitingTypeOK == IsFiniteSet(waiting) /\ waiting \subseteq Job
HeldIsWaiting ==
  /\ \A i \in Valid : job[i] \in waiting
  /\ busErr # NoJob => busErr \in waiting
  /\ \A i, k \in Valid : job[i] = job[k] => i = k
  /\ \A i \in Valid : job[i] # busErr

ReadsTracked ==
  /\ on = {r.id : r \in inLsu}
  /\ \A r, s \in inLsu : r.id = s.id => r = s

IInv ==
  /\ TypeOK
  /\ ReadsTracked
  /\ ResponseReachesItsWalk
  /\ DrainEmpty
  /\ EntryServesItsKind
  /\ OneStageAtATime
  /\ HoldPending
  /\ WaitingTypeOK
  /\ HeldIsWaiting

-----------------------------------------------------------------------------
(***************************************************************************)
(* What the helper operators return.                                       *)
(***************************************************************************)
LEMMA SomeMember == ASSUME NEW S, S # {} PROVE Some(S) \in S
BY DEF Some

LEMMA HighestUnique ==
  ASSUME NEW S \in SUBSET Entry
  PROVE  /\ Highest(S) \subseteq S
         /\ \A i, k \in Highest(S) : i = k
<1>1. S \subseteq Int
  BY NAssumption DEF Entry
<1> QED
  BY <1>1 DEF Highest

\* A response concerns exactly one read, and the entry it is routed to is the
\* one that issued that read.
LEMMA Routing ==
  ASSUME TypeOK, ReadsTracked, NEW resp \in LsuMayAnswer
  PROVE  \/ Answered(resp) = {} /\ DataRouted(resp) = {} /\ ErrRouted(resp) = {}
         \/ \E r \in inLsu :
              /\ Answered(resp) = {r}
              /\ resp.id = r.id /\ resp.job = r.job
              /\ \/ DataRouted(resp) = {r.id} /\ ErrRouted(resp) = {} /\ resp.kind \in PteKind
                 \/ DataRouted(resp) = {} /\ ErrRouted(resp) = {r.id}
<1>1. CASE resp = NoResp
  <2>1. resp.kind = "none"
    BY <1>1 DEF NoResp
  <2> QED
    BY <1>1, <2>1 DEF Answered, DataRouted, ErrRouted, PteKind
<1>2. ASSUME NEW r \in inLsu, NEW k \in PteKind \cup {"error"},
             resp = [id |-> r.id, job |-> r.job, kind |-> k]
      PROVE  /\ Answered(resp) = {r}
             /\ resp.id = r.id /\ resp.job = r.job
             /\ \/ DataRouted(resp) = {r.id} /\ ErrRouted(resp) = {} /\ resp.kind \in PteKind
                \/ DataRouted(resp) = {} /\ ErrRouted(resp) = {r.id}
  <2>1. resp.id = r.id /\ resp.job = r.job /\ resp.kind = k
    BY <1>2
  <2>2. resp # NoResp
    BY <2>1 DEF NoResp, PteKind
  <2>3. Answered(resp) = {r}
    BY <2>1, <2>2 DEF Answered, ReadsTracked
  <2>4. r.id \in on
    BY DEF ReadsTracked
  <2> QED
    BY <2>1, <2>3, <2>4 DEF DataRouted, ErrRouted, PteKind
<1> QED
  BY <1>1, <1>2 DEF LsuMayAnswer

\* A presented request is pending.
LEMMA PresentedPending ==
  ASSUME HoldPending
  PROVE  ReqPtr \subseteq Pending
BY DEF HoldPending, ReqPtr, ReqSel

LEMMA UpdTarget ==
  ASSUME TypeOK, EntryServesItsKind, HeldIsWaiting, NEW req \in TwuMayAsk
  PROVE  /\ EntryUpd(req) \subseteq Entry \ Valid
         /\ EntryUpd(req) # {} => ~drain /\ ~abort /\ req \in Job /\ req \notin waiting
         /\ \A i, k \in EntryUpd(req) : i = k
         /\ \A i \in EntryUpd(req) :
              req \in (IF i = ItlbEntry THEN ItlbJobs ELSE DtlbJobs)
<1> USE NAssumption, JobAssumption DEF Entry, DtlbEntry, ItlbEntry, Job
<1>1. CASE req = NoJob \/ AbortDrain
  BY <1>1 DEF EntryUpd
<1>2. CASE req \in ItlbJobs /\ ~AbortDrain
  <2>1. waiting \cap ItlbJobs = {}
    BY <1>2 DEF TwuMayAsk
  <2>2. ItlbEntry \notin Valid
    BY <2>1 DEF EntryServesItsKind, HeldIsWaiting
  <2> QED
    BY <1>2, <2>1, <2>2 DEF EntryUpd, AbortDrain
<1>3. CASE req \in DtlbJobs /\ ~AbortDrain
  <2>1. req \in Job /\ req \notin waiting /\ req # NoJob /\ req \notin ItlbJobs
    BY <1>3 DEF TwuMayAsk
  <2>2. EntryUpd(req) = CreatePtr
    BY <1>3, <2>1 DEF EntryUpd
  <2> QED
    BY <1>3, <2>1, <2>2 DEF CreatePtr, AbortDrain
<1> QED
  BY <1>1, <1>2, <1>3 DEF TwuMayAsk

\* The write-back port delivers the word that was read for the job.
LEMMA WriteBackData ==
  ASSUME IInv, NEW resp \in LsuMayAnswer, NEW ready \in BOOLEAN,
         NEW i \in WriteBackGrant(resp, ready)
  PROVE  /\ i \in Valid /\ ~abort /\ ~drain
         /\ job[i] \in Job
         /\ EntryData(i, resp) \in Pte
         /\ EntryData(i, resp).job = job[i]
         /\ i \in DataRouted(resp) \/ i \notin on
<1>1. i \in Valid /\ ~abort /\ (i \in DataRouted(resp) \/ got[i] # NoData)
  BY DEF WriteBackGrant, Highest, WriteBackReq
<1>2. ~drain
  BY <1>1 DEF IInv, DrainEmpty
<1>3. job[i] \in Job
  BY <1>1 DEF IInv, TypeOK, Valid
<1>4. CASE got[i] # NoData
  <2>1. got[i] \in Pte /\ got[i].job = job[i]
    BY <1>1, <1>4 DEF IInv, TypeOK, ResponseReachesItsWalk, Valid
  <2>2. i \notin on
    BY <1>1, <1>4 DEF IInv, OneStageAtATime
  <2> QED
    BY <1>1, <1>2, <1>3, <1>4, <2>1, <2>2 DEF EntryData
<1>5. CASE got[i] = NoData
  <2>1. i \in DataRouted(resp)
    BY <1>1, <1>5
  <2>2. PICK r \in inLsu : /\ resp.id = r.id /\ resp.job = r.job
                           /\ DataRouted(resp) = {r.id} /\ resp.kind \in PteKind
    BY <2>1, Routing DEF IInv
  <2>3. r.id = i
    BY <2>1, <2>2
  <2>4. resp.job = job[i]
    BY <1>2, <2>2, <2>3 DEF IInv, ResponseReachesItsWalk
  <2>5. EntryData(i, resp) = [job |-> resp.job, kind |-> resp.kind]
    BY <1>5 DEF EntryData
  <2>6. EntryData(i, resp) \in Pte /\ EntryData(i, resp).job = job[i]
    BY <1>3, <2>2, <2>4, <2>5 DEF Pte
  <2> QED
    BY <1>1, <1>2, <1>3, <2>1, <2>6
<1> QED
  BY <1>4, <1>5

\* An entry granted the bus error port was not waiting for anything else.
LEMMA BusErrData ==
  ASSUME IInv, NEW resp \in LsuMayAnswer, NEW ack \in BOOLEAN,
         NEW i \in BusErrGrant(resp, ack)
  PROVE  /\ i \in Valid /\ ~abort /\ ~drain
         /\ job[i] \in Job
         /\ busErr = NoJob \/ ack
         /\ i \in ErrRouted(resp) \/ i \notin on
<1>1. i \in Valid /\ ~abort /\ (i \in ErrRouted(resp) \/ i \in busErrOn) /\ (busErr = NoJob \/ ack)
  BY DEF BusErrGrant, Highest, BusErrReq
<1>2. ~drain
  BY <1>1 DEF IInv, DrainEmpty
<1>3. job[i] \in Job
  BY <1>1 DEF IInv, TypeOK, Valid
<1> QED
  BY <1>1, <1>2, <1>3 DEF IInv, OneStageAtATime

LEMMA PortsUnique ==
  ASSUME NEW resp, NEW ready, NEW ack
  PROVE  /\ \A i, k \in WriteBackGrant(resp, ready) : i = k
         /\ \A i, k \in BusErrGrant(resp, ack) : i = k
         /\ WriteBackGrant(resp, ready) \subseteq Entry
         /\ BusErrGrant(resp, ack) \subseteq Entry
<1>1. WriteBackReq(resp, ready) \in SUBSET Entry /\ BusErrReq(resp, ack) \in SUBSET Entry
  BY DEF WriteBackReq, BusErrReq, Valid
<1> QED
  BY <1>1, HighestUnique DEF WriteBackGrant, BusErrGrant

-----------------------------------------------------------------------------
(***************************************************************************)
(* The inductive invariant.                                                *)
(***************************************************************************)
LEMMA InitIInv == Init => IInv
<1> SUFFICES ASSUME Init PROVE IInv
  OBVIOUS
<1>1. Valid = {}
  BY DEF Init, Valid
<1>2. TypeOK
  BY DEF Init, TypeOK
<1>3. WaitingTypeOK
  BY FS_EmptySet DEF Init, WaitingTypeOK
<1> QED
  BY <1>1, <1>2, <1>3 DEF Init, IInv, ReadsTracked, ResponseReachesItsWalk, DrainEmpty,
     EntryServesItsKind, OneStageAtATime, HoldPending, HeldIsWaiting

LEMMA AbortIInv ==
  ASSUME IInv, NEW resp \in LsuMayAnswer, AbortCycle(resp)
  PROVE  IInv'
<1>1. Valid' = {}
  BY DEF AbortCycle, Valid
<1>2. TypeOK'
  BY DEF IInv, TypeOK, AbortCycle
<1>3. ReadsTracked'
  <2>1. CASE Answered(resp) = {} /\ DataRouted(resp) = {} /\ ErrRouted(resp) = {}
    BY <2>1 DEF IInv, ReadsTracked, AbortCycle
  <2>2. ASSUME NEW r \in inLsu, Answered(resp) = {r},
               DataRouted(resp) \cup ErrRouted(resp) = {r.id}
        PROVE  ReadsTracked'
    BY <2>2 DEF IInv, ReadsTracked, AbortCycle
  <2> QED
    BY <2>1, <2>2, Routing DEF IInv
<1>4. ~drain' => inLsu' = {}
  BY DEF IInv, ReadsTracked, AbortCycle
<1>5. ResponseReachesItsWalk'
  BY <1>1, <1>4 DEF ResponseReachesItsWalk
<1>6. WaitingTypeOK'
  BY FS_EmptySet DEF AbortCycle, WaitingTypeOK
<1> QED
  BY <1>1, <1>2, <1>3, <1>5, <1>6 DEF AbortCycle, IInv, DrainEmpty,
     EntryServesItsKind, OneStageAtATime, HoldPending, HeldIsWaiting

LEMMA RunIInv ==
  ASSUME IInv, NEW resp \in LsuMayAnswer, NEW req \in TwuMayAsk,
         NEW lsuGrant \in BOOLEAN, NEW ready \in BOOLEAN, NEW ack \in BOOLEAN,
         RunCycle(req, lsuGrant, resp, ready, ack)
  PROVE  IInv'
<1> DEFINE upd  == EntryUpd(req)
           fire == IF lsuGrant THEN ReqPtr ELSE {}
           data == DataRouted(resp)
           err  == ErrRouted(resp)
           wb   == WriteBackGrant(resp, ready)
           be   == BusErrGrant(resp, ack)
<1>1. /\ ~abort
      /\ ack => busErr # NoJob
      /\ job' = [i \in Entry |-> IF i \in upd THEN req
                                 ELSE IF i \in wb \cup be THEN NoJob ELSE job[i]]
      /\ on' = (on \ (data \cup err)) \cup (fire \ (data \cup err))
      /\ got' = [i \in Entry |->
                   IF i \in upd \cup wb THEN NoData
                   ELSE IF i \in data THEN [job |-> resp.job, kind |-> resp.kind]
                   ELSE got[i]]
      /\ busErrOn' = ((busErrOn \cup err) \ be) \ upd
      /\ hold' = IF drain \/ fire # {} THEN {} ELSE IF hold = {} THEN ReqPtr ELSE hold
      /\ drain' = (drain /\ on # {})
      /\ busErr' = IF be # {} THEN job[Some(be)] ELSE IF ack THEN NoJob ELSE busErr
      /\ pdeUpd' = IF wb # {} /\ ~drain
                   THEN [job |-> job[Some(wb)], pte |-> EntryData(Some(wb), resp)]
                   ELSE NoData
      /\ inLsu' = (inLsu \ Answered(resp)) \cup {[id |-> i, job |-> job[i]] : i \in fire}
      /\ waiting' = (waiting \cup MbufGrant(req))
                      \ ({job[i] : i \in wb} \cup (IF ack THEN {busErr} ELSE {}))
      /\ abort' \in BOOLEAN
  BY DEF RunCycle
<1>2. /\ upd \subseteq Entry \ Valid
      /\ upd # {} => ~drain /\ ~abort /\ req \in Job /\ req \notin waiting
      /\ \A i, k \in upd : i = k
      /\ \A i \in upd : req \in (IF i = ItlbEntry THEN ItlbJobs ELSE DtlbJobs)
  BY UpdTarget DEF IInv
<1>3. /\ \A i \in wb : /\ i \in Valid /\ job[i] \in Job
                       /\ EntryData(i, resp) \in Pte /\ EntryData(i, resp).job = job[i]
                       /\ i \in data \/ i \notin on
      /\ \A i \in be : /\ i \in Valid /\ job[i] \in Job
                       /\ busErr = NoJob \/ ack
                       /\ i \in err \/ i \notin on
  BY WriteBackData, BusErrData
<1>4. /\ wb \subseteq Entry /\ be \subseteq Entry
      /\ \A i, k \in wb : i = k
      /\ \A i, k \in be : i = k
      /\ wb # {} => Some(wb) \in wb
      /\ be # {} => Some(be) \in be
  BY PortsUnique, SomeMember
<1>5. /\ fire \subseteq Pending
      /\ fire # {} => ~drain
      /\ fire \subseteq Valid
      /\ fire \cap on = {}
      /\ \A i \in fire : job[i] \in Job
  BY PresentedPending DEF IInv, Pending, ReqPtr, AbortDrain, Valid, TypeOK
<1>6. data \subseteq on /\ err \subseteq on /\ on \subseteq Entry
  BY DEF DataRouted, ErrRouted, IInv, TypeOK
<1>7. \A i \in data : resp.job \in Job /\ resp.kind \in PteKind
  BY Routing DEF IInv, TypeOK, Read
<1>8. Valid' = {i \in Entry : i \in upd \/ (i \in Valid /\ i \notin wb \cup be)}
  BY <1>1, <1>2, <1>3, JobAssumption DEF Valid, Job
<1> HIDE DEF upd, fire, data, err, wb, be
<1>9. TypeOK'
  <2>1. job' \in [Entry -> Job \cup {NoJob}]
    BY <1>1, <1>2 DEF IInv, TypeOK
  <2>2. on' \subseteq Entry /\ hold' \subseteq Entry /\ busErrOn' \subseteq Entry
    <3>1. ReqPtr \subseteq Entry
      BY PresentedPending DEF IInv, Pending, Valid
    <3> QED
      BY <1>1, <1>5, <1>6, <3>1 DEF IInv, TypeOK, Pending, Valid
  <2>3. got' \in [Entry -> Pte \cup {NoData}]
    <3>1. \A i \in data : [job |-> resp.job, kind |-> resp.kind] \in Pte
      BY <1>7 DEF Pte
    <3> QED
      BY <1>1, <3>1 DEF IInv, TypeOK
  <2>4. drain' \in BOOLEAN /\ abort' \in BOOLEAN
    BY <1>1
  <2>5. busErr' \in Job \cup {NoJob}
    BY <1>1, <1>3, <1>4 DEF IInv, TypeOK
  <2>6. pdeUpd' \in [job : Job, pte : Pte] \cup {NoData}
    BY <1>1, <1>3, <1>4
  <2>7. inLsu' \subseteq Read
    BY <1>1, <1>5 DEF IInv, TypeOK, Read, Pending, Valid
  <2>8. waiting' \subseteq Job
    BY <1>1 DEF IInv, WaitingTypeOK, MbufGrant, TwuMayAsk, Job
  <2> QED
    BY <2>1, <2>2, <2>3, <2>4, <2>5, <2>6, <2>7, <2>8 DEF TypeOK
<1>10. ReadsTracked'
  <2> DEFINE fired == {[id |-> i, job |-> job[i]] : i \in fire}
  <2>1. \A r \in inLsu : r.id \notin fire
    BY <1>5 DEF IInv, ReadsTracked
  <2>2. /\ fire = {r.id : r \in fired}
        /\ \A r, s \in fired : r.id = s.id => r = s
    <3>1. \A i \in fire : \E r \in fired : r.id = i
      <4> SUFFICES ASSUME NEW i \in fire PROVE \E r \in fired : r.id = i
        OBVIOUS
      <4>1. [id |-> i, job |-> job[i]] \in fired /\ [id |-> i, job |-> job[i]].id = i
        OBVIOUS
      <4> QED
        BY <4>1
    <3>2. \A r \in fired : r.id \in fire /\ r = [id |-> r.id, job |-> job[r.id]]
      OBVIOUS
    <3> HIDE DEF fired
    <3>3. \A r, s \in fired : r.id = s.id => r = s
      BY <3>2
    <3> QED
      BY <3>1, <3>2, <3>3
  <2> HIDE DEF fired
  <2>3. CASE Answered(resp) = {} /\ data = {} /\ err = {}
    <3>1. inLsu' = inLsu \cup fired /\ on' = on \cup fire
      BY <1>1, <2>3 DEF fired
    <3> QED
      BY <2>1, <2>2, <3>1 DEF IInv, ReadsTracked
  <2>4. ASSUME NEW r \in inLsu, Answered(resp) = {r}, data \cup err = {r.id}
        PROVE  ReadsTracked'
    <3>1. inLsu' = (inLsu \ {r}) \cup fired
      BY <1>1, <2>4 DEF fired
    <3>2. on' = (on \ {r.id}) \cup fire
      BY <1>1, <2>1, <2>4
    <3> QED
      BY <2>1, <2>2, <3>1, <3>2 DEF IInv, ReadsTracked
  <2> QED
    BY <2>3, <2>4, Routing DEF IInv, data, err
<1>11. DrainEmpty'
  BY <1>1, <1>2, <1>8 DEF IInv, DrainEmpty
<1>12. EntryServesItsKind'
  BY <1>1, <1>2, <1>8 DEF IInv, EntryServesItsKind
<1>13. OneStageAtATime'
  <2> SUFFICES ASSUME NEW i \in Valid'
               PROVE  /\ i \in on' => got'[i] = NoData /\ i \notin busErrOn'
                      /\ got'[i] # NoData => i \notin busErrOn'
    BY DEF OneStageAtATime
  <2>1. CASE i \in upd
    BY <1>1, <1>2, <2>1
  <2>2. CASE i \in Valid /\ i \notin upd
    <3>1. i \in on' => i \notin data /\ i \notin err
      BY <1>1
    <3>2. i \in data => i \notin err
      BY DEF data, err, DataRouted, ErrRouted, PteKind
    <3>3. i \in fire => got[i] = NoData /\ i \notin busErrOn
      BY <1>5 DEF Pending
    <3> QED
      BY <1>1, <1>6, <2>2, <3>1, <3>2, <3>3 DEF IInv, OneStageAtATime, Valid
  <2> QED
    BY <1>8, <2>1, <2>2
<1>14. HoldPending'
  <2> SUFFICES ASSUME NEW i \in hold'
               PROVE  i \in Pending'
    BY DEF HoldPending
  <2>1. i \in ReqPtr /\ fire = {}
    BY <1>1 DEF ReqPtr, AbortDrain
  <2>2. i \in Valid /\ i \notin on /\ got[i] = NoData /\ i \notin busErrOn
    BY <2>1, PresentedPending DEF IInv, Pending
  <2>3. i \notin data /\ i \notin err /\ i \notin upd
    BY <1>2, <1>6, <2>2
  <2>4. i \notin wb /\ i \notin be
    BY <2>2, <2>3 DEF wb, be, data, err, WriteBackGrant, BusErrGrant, WriteBackReq,
                      BusErrReq, Highest
  <2>5. i \in Valid' /\ i \notin on' /\ got'[i] = NoData /\ i \notin busErrOn'
    BY <1>1, <1>8, <2>1, <2>2, <2>3, <2>4 DEF Valid
  <2> QED
    BY <2>5 DEF Pending
<1>15. HeldIsWaiting'
  <2>1. \A i \in Valid' : job'[i] \in waiting'
    <3> SUFFICES ASSUME NEW i \in Valid'
                 PROVE  job'[i] \in waiting'
      OBVIOUS
    <3>1. CASE i \in upd
      <4>1. MbufGrant(req) = {req} /\ job'[i] = req /\ req \notin waiting
        BY <1>1, <1>2, <3>1, JobAssumption DEF MbufGrant, AbortDrain, Job
      <4>2. \A k \in wb : job[k] # req
        BY <1>3, <4>1 DEF IInv, HeldIsWaiting
      <4>3. ack => busErr # req
        BY <1>1, <4>1 DEF IInv, HeldIsWaiting
      <4> QED
        BY <1>1, <4>1, <4>2, <4>3
    <3>2. CASE i \in Valid /\ i \notin wb \cup be /\ i \notin upd
      <4>1. job'[i] = job[i]
        BY <1>1, <3>2 DEF Valid
      <4>2. \A k \in wb : job[k] # job[i]
        BY <1>3, <3>2 DEF IInv, HeldIsWaiting
      <4> QED
        BY <1>1, <3>2, <4>1, <4>2 DEF IInv, HeldIsWaiting
    <3> QED
      BY <1>2, <1>8, <3>1, <3>2
  <2>2. busErr' # NoJob => busErr' \in waiting'
    <3>1. CASE be # {}
      <4>1. PICK i \in be : busErr' = job[i]
        BY <1>1, <1>4, <3>1
      <4>2. i \notin wb
        BY <4>1 DEF wb, be, WriteBackGrant, BusErrGrant, Highest, WriteBackReq, BusErrReq,
                    IInv, OneStageAtATime, DataRouted, ErrRouted, PteKind
      <4>3. \A k \in wb : job[k] # job[i]
        BY <1>3, <4>1, <4>2 DEF IInv, HeldIsWaiting
      <4> QED
        BY <1>1, <1>3, <4>1, <4>3 DEF IInv, HeldIsWaiting
    <3>2. CASE be = {}
      BY <1>1, <1>3, <3>2 DEF IInv, HeldIsWaiting
    <3> QED
      BY <3>1, <3>2
  <2>3. \A i, k \in Valid' : job'[i] = job'[k] => i = k
    BY <1>1, <1>2, <1>8 DEF IInv, HeldIsWaiting, Valid
  <2>4. \A i \in Valid' : job'[i] # busErr'
    BY <1>1, <1>2, <1>3, <1>4, <1>8 DEF IInv, HeldIsWaiting, Valid
  <2> QED
    BY <2>1, <2>2, <2>3, <2>4 DEF HeldIsWaiting
<1>16. WaitingTypeOK'
  <2>1. MbufGrant(req) \subseteq Job /\ IsFiniteSet(MbufGrant(req))
    <3>1. IsFiniteSet({req}) /\ IsFiniteSet({})
      BY FS_EmptySet, FS_Singleton
    <3>2. MbufGrant(req) \in SUBSET {req}
      BY DEF MbufGrant
    <3> QED
      BY <3>1, <3>2, FS_Subset DEF MbufGrant, TwuMayAsk, Job
  <2>2. IsFiniteSet(waiting \cup MbufGrant(req))
    BY <2>1, FS_Union DEF IInv, WaitingTypeOK
  <2>3. waiting' \in SUBSET (waiting \cup MbufGrant(req))
    BY <1>1
  <2> QED
    BY <2>1, <2>2, <2>3, FS_Subset DEF IInv, WaitingTypeOK
<1>17. ResponseReachesItsWalk'
  <2>1. ASSUME ~drain', NEW r \in inLsu'
        PROVE  job'[r.id] = r.job
    <3>1. CASE drain
      <4>1. on = {} /\ fire = {}
        BY <1>1, <1>5, <2>1, <3>1
      <4>2. inLsu = {}
        BY <4>1 DEF IInv, ReadsTracked
      <4>3. inLsu' = {}
        BY <1>1, <4>1, <4>2
      <4> QED
        BY <2>1, <4>3
    <3>2. CASE ~drain /\ r \in inLsu
      <4>1. r.id \in on /\ r.job \in Job /\ job[r.id] = r.job /\ r.id \in Valid
        BY <3>2, JobAssumption DEF IInv, ReadsTracked, TypeOK, Read, ResponseReachesItsWalk,
                                   Valid, Job
      <4>2. r.id \notin data \cup err
        BY <1>1, <2>1, <3>2, <4>1, <1>5, <1>6, Routing DEF IInv, ReadsTracked, data, err
      <4>3. r.id \notin upd \cup wb \cup be
        BY <1>2, <1>3, <4>1, <4>2
      <4> QED
        BY <1>1, <4>1, <4>3 DEF Valid
    <3>3. ASSUME NEW i \in fire, r = [id |-> i, job |-> job[i]]
          PROVE  job'[r.id] = r.job
      <4>1. i \notin upd \cup wb \cup be
        BY <1>2, <1>5, <3>3 DEF wb, be, upd, Pending, WriteBackGrant, BusErrGrant, Highest,
             WriteBackReq, BusErrReq, DataRouted, ErrRouted
      <4> QED
        BY <1>1, <1>5, <3>3, <4>1 DEF Valid
    <3> QED
      BY <1>1, <2>1, <3>1, <3>2, <3>3
  <2>2. ASSUME NEW i \in Valid', got'[i] # NoData
        PROVE  got'[i].job = job'[i]
    <3>1. i \in Valid /\ i \notin upd \cup wb \cup be /\ job'[i] = job[i]
      BY <1>1, <1>8, <2>2 DEF Valid
    <3>2. CASE i \in data
      <4>1. ~drain
        BY <3>1 DEF IInv, DrainEmpty
      <4>2. PICK r \in inLsu : resp.job = r.job /\ data = {r.id}
        BY <3>2, Routing DEF IInv, data
      <4>3. r.id = i /\ job[i] = resp.job
        BY <3>2, <4>1, <4>2 DEF IInv, ResponseReachesItsWalk
      <4> QED
        BY <1>1, <3>1, <3>2, <4>3 DEF Valid
    <3>3. CASE i \notin data
      BY <1>1, <2>2, <3>1, <3>3 DEF IInv, ResponseReachesItsWalk, Valid
    <3> QED
      BY <3>2, <3>3
  <2> QED
    BY <2>1, <2>2 DEF ResponseReachesItsWalk
<1> QED
  BY <1>9, <1>10, <1>11, <1>12, <1>13, <1>14, <1>15, <1>16, <1>17 DEF IInv

LEMMA NextIInv == IInv /\ [Next]_vars => IInv'
<1> SUFFICES ASSUME IInv, [Next]_vars PROVE IInv'
  OBVIOUS
<1>1. CASE Next
  BY <1>1, AbortIInv, RunIInv DEF Next, Cycle
<1>2. CASE UNCHANGED vars
  BY <1>2 DEF vars, IInv, TypeOK, ReadsTracked, ResponseReachesItsWalk, DrainEmpty,
     EntryServesItsKind, OneStageAtATime, HoldPending, WaitingTypeOK, HeldIsWaiting,
     Valid, Pending
<1> QED
  BY <1>1, <1>2

\* The strengthened invariant holds for every number of entries and set of jobs.
THEOREM Invariance == Spec => []IInv
<1> QED
  BY InitIInv, NextIInv, PTL DEF Spec

\* Every register keeps to its range (mbuf_entry.sv, ptw_mbuf.sv).
THEOREM TypeCorrect == Spec => []TypeOK
<1>1. IInv => TypeOK
  BY DEF IInv
<1> QED
  BY Invariance, <1>1, PTL

\* The ids in flight are those of the entries with mbuf_on, one read each, and
\* none is presented again before its read has come back.
THEOREM NoIdReuse == Spec => []OutstandingTracked
<1>1. IInv => OutstandingTracked
  BY PresentedPending DEF IInv, OutstandingTracked, ReadsTracked, Pending
<1> QED
  BY Invariance, <1>1, PTL

\* Routing by id alone delivers every word to the job it was read for.
THEOREM RoutingById == Spec => []ResponseReachesItsWalk
<1>1. IInv => ResponseReachesItsWalk
  BY DEF IInv
<1> QED
  BY Invariance, <1>1, PTL

\* A presented request stays until it is accepted or an abort withdraws it.
LEMMA StableStep ==
  ASSUME IInv, Next
  PROVE  \A i \in ReqPtr : i \in on' \/ abort' \/ (i \in ReqPtr' /\ job'[i] = job[i])
<1> SUFFICES ASSUME NEW i \in ReqPtr, i \notin on', ~abort'
             PROVE  i \in ReqPtr' /\ job'[i] = job[i]
  OBVIOUS
<1>1. i \in Pending /\ ~abort /\ ~drain
  BY PresentedPending DEF IInv, ReqPtr, AbortDrain
<1>2. PICK resp \in LsuMayAnswer, req \in TwuMayAsk, lsuGrant, ready, ack \in BOOLEAN :
        RunCycle(req, lsuGrant, resp, ready, ack)
  BY <1>1 DEF Next, Cycle, AbortCycle
<1>3. i \notin EntryUpd(req)
  BY <1>1, UpdTarget DEF IInv, Pending
<1>4. /\ i \notin DataRouted(resp) \cup ErrRouted(resp)
      /\ i \notin WriteBackGrant(resp, ready)
      /\ i \notin BusErrGrant(resp, ack)
  BY <1>1 DEF Pending, DataRouted, ErrRouted, WriteBackGrant, BusErrGrant, Highest,
     WriteBackReq, BusErrReq
<1>5. job'[i] = job[i]
  BY <1>1, <1>2, <1>3, <1>4 DEF RunCycle, Pending, Valid
<1>6. i \notin (IF lsuGrant THEN ReqPtr ELSE {})
  BY <1>2, <1>4 DEF RunCycle
<1>7. lsuGrant = FALSE
  BY <1>6
<1>8. hold' = (IF hold = {} THEN ReqPtr ELSE hold) /\ ~drain'
  BY <1>1, <1>2, <1>7 DEF RunCycle
<1>9. i \in hold'
  BY <1>1, <1>8 DEF ReqPtr, AbortDrain
<1>10. i \in ReqPtr'
  BY <1>8, <1>9 DEF ReqPtr, AbortDrain
<1> QED
  BY <1>5, <1>10

THEOREM RequestsAreStable == Spec => RequestStable
<1>1. IInv /\ [Next]_vars =>
        [\A i \in ReqPtr : i \in on' \/ abort' \/ (i \in ReqPtr' /\ job'[i] = job[i])]_vars
  BY StableStep
<1> QED
  BY Invariance, <1>1, PTL DEF Spec, RequestStable

-----------------------------------------------------------------------------
(***************************************************************************)
(* No walk is lost: there is always a free entry for a job that is         *)
(* granted.  The buffer does not check this; it follows from the N slots   *)
(* for DTLB walks in the L2 TLB's miss buffer.                             *)
(***************************************************************************)
LEMMA LeastNat ==
  ASSUME NEW T \in SUBSET Nat, T # {}
  PROVE  \E x \in T : \A y \in T : x <= y
<1>1. PICK x \in T : \A y \in T : ~(<<y, x>> \in OpToRel(<, Nat))
  BY NatLessThanWellFounded, WFMin
<1>2. \A y \in T : ~(y < x)
  BY <1>1 DEF OpToRel
<1> QED
  BY <1>2

LEMMA RoomForDtlbJob ==
  ASSUME IInv, Cardinality(waiting \cap DtlbJobs) < N
  PROVE  CreatePtr # {}
<1> USE NAssumption
<1> DEFINE Free == DtlbEntry \ Valid
           W    == waiting \cap DtlbJobs
<1>1. Free # {}
  <2> SUFFICES ASSUME DtlbEntry \subseteq Valid
               PROVE  FALSE
    OBVIOUS
  <2> DEFINE f == [i \in DtlbEntry |-> job[i]]
  <2>1. \A i \in DtlbEntry : job[i] \in W
    BY DEF IInv, HeldIsWaiting, EntryServesItsKind, DtlbEntry, ItlbEntry
  <2>2. \A i, k \in DtlbEntry : job[i] = job[k] => i = k
    BY DEF IInv, HeldIsWaiting
  <2>3. f \in Injection(DtlbEntry, W)
    BY <2>1, <2>2 DEF Injection, IsInjective
  <2>4. IsFiniteSet(W)
    BY FS_Intersection DEF IInv, WaitingTypeOK
  <2>5. Cardinality(DtlbEntry) <= Cardinality(W)
    BY <2>3, <2>4, FS_Injection
  <2>6. Cardinality(DtlbEntry) = N
    <3>1. 0 \in Int /\ N - 1 \in Int
      OBVIOUS
    <3> QED
      BY <3>1, FS_Interval DEF DtlbEntry
  <2>7. Cardinality(W) \in Nat
    BY <2>4, FS_CardinalityType
  <2> QED
    BY <2>5, <2>6, <2>7
<1>2. Free \in SUBSET Nat
  BY DEF DtlbEntry
<1>3. PICK i \in Free : \A k \in Free : i <= k
  BY <1>1, <1>2, LeastNat
<1>4. i \in CreatePtr
  BY <1>2, <1>3 DEF CreatePtr, DtlbEntry
<1> QED
  BY <1>4

\* Whatever the TWU waits for is in an entry or in the bus error register.
WaitingIsHeld == waiting \subseteq {job[i] : i \in Valid} \cup ({busErr} \ {NoJob})

LEMMA RunWaitingIsHeld ==
  ASSUME IInv, WaitingIsHeld, NEW resp \in LsuMayAnswer, NEW req \in TwuMayAsk,
         NEW lsuGrant \in BOOLEAN, NEW ready \in BOOLEAN, NEW ack \in BOOLEAN,
         RunCycle(req, lsuGrant, resp, ready, ack)
  PROVE  WaitingIsHeld'
<1> DEFINE upd == EntryUpd(req)
           wb  == WriteBackGrant(resp, ready)
           be  == BusErrGrant(resp, ack)
<1>1. /\ job' = [i \in Entry |-> IF i \in upd THEN req
                                 ELSE IF i \in wb \cup be THEN NoJob ELSE job[i]]
      /\ busErr' = IF be # {} THEN job[Some(be)] ELSE IF ack THEN NoJob ELSE busErr
      /\ waiting' = (waiting \cup MbufGrant(req))
                      \ ({job[i] : i \in wb} \cup (IF ack THEN {busErr} ELSE {}))
  BY DEF RunCycle
<1>2. upd \subseteq Entry \ Valid
  BY UpdTarget DEF IInv
<1>3. \A i \in be : i \in Valid /\ job[i] # NoJob /\ (busErr = NoJob \/ ack)
  BY BusErrData DEF Valid
<1>4. /\ \A i, k \in be : i = k
      /\ be # {} => Some(be) \in be
  BY PortsUnique, SomeMember
<1>5. MbufGrant(req) # {} =>
        /\ upd # {} /\ req # NoJob /\ MbufGrant(req) = {req}
  <2> SUFFICES ASSUME MbufGrant(req) # {}
               PROVE  upd # {} /\ req # NoJob /\ MbufGrant(req) = {req}
    OBVIOUS
  <2>1. ~AbortDrain /\ req # NoJob /\ MbufGrant(req) = {req}
    BY DEF MbufGrant
  <2>2. CASE req \in ItlbJobs
    BY <2>1, <2>2 DEF EntryUpd
  <2>3. CASE req \notin ItlbJobs
    <3>1. Cardinality(waiting \cap DtlbJobs) < N
      BY <2>1, <2>3 DEF TwuMayAsk
    <3>2. upd = CreatePtr
      BY <2>1, <2>3 DEF EntryUpd
    <3> QED
      BY <2>1, <3>1, <3>2, RoomForDtlbJob
  <2> QED
    BY <2>2, <2>3
<1> HIDE DEF upd, wb, be
<1> SUFFICES ASSUME NEW x \in waiting'
             PROVE  (\E i \in Valid' : job'[i] = x) \/ (x = busErr' /\ busErr' # NoJob)
  BY DEF WaitingIsHeld
<1>6. CASE x \in MbufGrant(req)
  <2>1. PICK i \in upd : TRUE
    BY <1>5, <1>6
  <2>2. i \in Valid' /\ job'[i] = x
    BY <1>1, <1>2, <1>5, <1>6, <2>1 DEF Valid
  <2> QED
    BY <2>2
<1>7. ASSUME NEW i \in Valid, x = job[i]
      PROVE  (\E k \in Valid' : job'[k] = x) \/ (x = busErr' /\ busErr' # NoJob)
  <2>1. i \notin wb
    BY <1>1, <1>7
  <2>2. CASE i \in be
    BY <1>1, <1>3, <1>4, <1>7, <2>2
  <2>3. CASE i \notin be
    <3>1. i \in Valid' /\ job'[i] = x
      BY <1>1, <1>2, <1>7, <2>1, <2>3 DEF Valid
    <3> QED
      BY <3>1
  <2> QED
    BY <2>2, <2>3
<1>8. CASE x = busErr /\ busErr # NoJob
  BY <1>1, <1>3, <1>8
<1> QED
  BY <1>1, <1>6, <1>7, <1>8 DEF WaitingIsHeld

\* Every job the TWU was granted is in exactly one place until it is answered.
THEOREM WalksAreKept == Spec => []NoLostWalk
<1>1. Init => WaitingIsHeld
  BY DEF Init, WaitingIsHeld
<1>2. IInv /\ WaitingIsHeld /\ [Next]_vars => WaitingIsHeld'
  <2>1. ASSUME NEW resp \in LsuMayAnswer, AbortCycle(resp)
        PROVE  WaitingIsHeld'
    BY <2>1 DEF AbortCycle, WaitingIsHeld
  <2>2. UNCHANGED vars /\ WaitingIsHeld => WaitingIsHeld'
    BY DEF vars, WaitingIsHeld, Valid
  <2> QED
    BY <2>1, <2>2, RunWaitingIsHeld DEF Next, Cycle
<1>3. IInv /\ WaitingIsHeld => NoLostWalk
  BY DEF IInv, HeldIsWaiting, WaitingIsHeld, NoLostWalk
<1> QED
  BY Invariance, <1>1, <1>2, <1>3, PTL DEF Spec

-----------------------------------------------------------------------------
(***************************************************************************)
(* The buffer implements PteReads.                                         *)
(***************************************************************************)
LEMMA RunServes ==
  ASSUME IInv, NEW resp \in LsuMayAnswer, NEW req \in TwuMayAsk,
         NEW lsuGrant \in BOOLEAN, NEW ready \in BOOLEAN, NEW ack \in BOOLEAN,
         RunCycle(req, lsuGrant, resp, ready, ack)
  PROVE  Reads!Next
<1> DEFINE wb       == WriteBackGrant(resp, ready)
           asked    == IF AbortDrain THEN NoJob ELSE req
           answered == IF wb = {} THEN NoJob ELSE job[Some(wb)]
           failed   == IF ack THEN busErr ELSE NoJob
           kind     == IF wb = {} THEN "other" ELSE EntryData(Some(wb), resp).kind
<1>1. wb # {} => Some(wb) \in wb /\ wb = {Some(wb)}
  <2>1. \A i, k \in wb : i = k
    BY PortsUnique
  <2>2. wb # {} => Some(wb) \in wb
    BY SomeMember
  <2> HIDE DEF wb
  <2> QED
    BY <2>1, <2>2
<1>2. wb # {} => LET i == Some(wb) IN
                 /\ i \in Valid /\ ~drain /\ job[i] \in Job
                 /\ EntryData(i, resp) \in Pte /\ EntryData(i, resp).job = job[i]
  BY <1>1, WriteBackData
<1>3. asked \in Job \cup {NoJob} /\ asked \notin waiting
  BY JobAssumption DEF TwuMayAsk, Job, IInv, WaitingTypeOK
<1>4. answered \in Job \cup {NoJob} /\ (answered # NoJob => answered \in waiting)
  BY <1>2 DEF IInv, HeldIsWaiting
<1>5. failed \in Job \cup {NoJob} /\ (failed # NoJob => failed \in waiting)
  BY DEF IInv, HeldIsWaiting, TypeOK
<1>6. answered # failed \/ answered = NoJob
  BY <1>2 DEF IInv, HeldIsWaiting
<1>7. kind \in PteKind
  BY <1>2 DEF Pte, PteKind
<1>8. waiting' = (waiting \cup ({asked} \ {NoJob})) \ {answered, failed}
  <2>1. MbufGrant(req) = {asked} \ {NoJob}
    BY DEF MbufGrant
  <2>2. waiting' = (waiting \cup MbufGrant(req))
                     \ ({job[i] : i \in wb} \cup (IF ack THEN {busErr} ELSE {}))
    BY DEF RunCycle
  <2>3. NoJob \notin waiting
    BY JobAssumption DEF IInv, WaitingTypeOK, Job
  <2>4. wb # {} => {job[i] : i \in wb} = {answered}
    BY <1>1
  <2> HIDE DEF wb, asked, answered
  <2>5. CASE wb = {}
    BY <2>1, <2>2, <2>3, <2>5 DEF answered
  <2>6. CASE wb # {}
    BY <2>1, <2>2, <2>3, <2>4, <2>6
  <2> QED
    BY <2>5, <2>6
<1>9. pdeUpd' = IF answered = NoJob THEN NoData
                ELSE [job |-> answered, pte |-> [job |-> answered, kind |-> kind]]
  <2>1. pdeUpd' = IF wb # {} /\ ~drain
                  THEN [job |-> job[Some(wb)], pte |-> EntryData(Some(wb), resp)]
                  ELSE NoData
    BY DEF RunCycle
  <2>2. CASE wb = {}
    BY <2>1, <2>2
  <2>3. CASE wb # {}
    <3>1. EntryData(Some(wb), resp) = [job |-> answered, kind |-> kind]
      BY <1>2, <2>3 DEF Pte
    <3>2. answered # NoJob
      BY <1>2, <2>3, JobAssumption DEF Job
    <3> QED
      BY <1>2, <2>1, <2>3, <3>1, <3>2
  <2> QED
    BY <2>2, <2>3
<1> HIDE DEF asked, answered, failed, kind, wb
<1>10. Reads!Serve(asked, answered, failed, kind)
  BY <1>3, <1>4, <1>5, <1>6, <1>8, <1>9 DEF Reads!Serve
<1> QED
  BY <1>3, <1>4, <1>5, <1>7, <1>10 DEF Reads!Next

\* Every execution of the buffer is one of PteReads: answers are for reads in
\* progress, with their own words, once, and never after an abort.
THEOREM Refinement == Spec => ImplementsPteReads
<1>1. Init => Reads!Init
  BY DEF Init, Reads!Init
<1>2. IInv /\ [Next]_vars => [Reads!Next]_(Reads!vars)
  <2>1. ASSUME NEW resp \in LsuMayAnswer, AbortCycle(resp)
        PROVE  Reads!Next
    BY <2>1 DEF AbortCycle, Reads!Next, Reads!DropAll
  <2>2. UNCHANGED vars => UNCHANGED Reads!vars
    BY DEF vars, Reads!vars
  <2> QED
    BY <2>1, <2>2, RunServes DEF Next, Cycle
<1> QED
  BY Invariance, <1>1, <1>2, PTL DEF Spec, Reads!Spec, ImplementsPteReads
=============================================================================
