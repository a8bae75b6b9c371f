------------------------ MODULE UsageOverlayProofs ------------------------
(***************************************************************************)
(* Theorems about the usage overlay, for every interval and time-out and   *)
(* any number of requests.                                                 *)
(***************************************************************************)
EXTENDS UsageOverlay, FiniteSetTheorems, TLAPS

\* What the proofs use of the types
Types ==
  /\ now \in Nat
  /\ booted \in BOOLEAN
  /\ polls \in Nat
  /\ pending \subseteq Request
  /\ answers \subseteq Answer
  /\ last.id \in Nat

\* What is known of a request was asked for before
Asked ==
  /\ booted <=> polls > 0
  /\ ~booted => now = 0
  /\ \A id \in pending \cup atHost : id <= polls
  /\ \A m \in answers : m.id <= polls
  /\ last.id <= polls

\* The last request is not of the future, and one that waits is not overdue
OnTime ==
  /\ (polls - 1) * Poll <= now
  /\ \A id \in pending : now <= Due(id)

IInv == Types /\ Asked /\ OnTime /\ WaitingIsTimed

-----------------------------------------------------------------------------
(* Arithmetic of the two periods.                                          *)

LEMMA WithinQuotient ==
  ASSUME NEW d \in Int, NEW p \in Nat \ {0}, NEW t \in Nat, d * p <= t
  PROVE  d < t \div p + 1
<1>1. d <= t \div p /\ t \div p \in Int
  OBVIOUS
<1> QED
  BY <1>1

\* A request that waits is one of the last few
LEMMA PendingIsRecent ==
  ASSUME IInv, NEW id \in pending
  PROVE  id \in Nat /\ id <= polls /\ id > polls - Overlap
<1>1. id \in Nat /\ id <= polls
  BY DEF IInv, Types, Asked, Request
<1>2. (polls - 1) * Poll <= (id - 1) * Poll + Timeout
  <2>1. /\ (polls - 1) * Poll <= now
        /\ now <= (id - 1) * Poll + Timeout
    BY DEF IInv, OnTime, Due
  <2>2. (polls - 1) * Poll \in Int /\ (id - 1) * Poll \in Int /\ now \in Int /\ Timeout \in Int
    BY <1>1, OverlayAssumption DEF IInv, Types
  <2> QED
    BY <2>1, <2>2
<1>3. (polls - id) * Poll <= Timeout
  <2>1. (polls - 1) * Poll = (polls - id) * Poll + (id - 1) * Poll
    BY <1>1, OverlayAssumption DEF IInv, Types
  <2>2. (polls - id) * Poll \in Int /\ (id - 1) * Poll \in Int /\ Timeout \in Int
    BY <1>1, OverlayAssumption DEF IInv, Types
  <2> QED
    BY <1>2, <2>1, <2>2
<1>4. polls - id < Overlap
  BY <1>1, <1>3, WithinQuotient, OverlayAssumption DEF IInv, Types, Overlap
<1>5. Overlap \in Int
  BY OverlayAssumption DEF Overlap
<1> QED
  BY <1>1, <1>4, <1>5 DEF IInv, Types

-----------------------------------------------------------------------------
LEMMA InitIInv == Init => IInv
<1> SUFFICES ASSUME Init PROVE IInv
  OBVIOUS
<1>1. Types /\ WaitingIsTimed
  BY DEF Init, Types, WaitingIsTimed, NoSnapshot
<1>2. Asked
  <2>1. last.id = 0
    BY DEF Init, NoSnapshot
  <2> QED
    BY <2>1 DEF Init, Asked
<1>3. OnTime
  BY OverlayAssumption DEF Init, OnTime
<1> QED
  BY <1>1, <1>2, <1>3 DEF IInv

\* A request that is made when its time has come
LEMMA RefreshIInv ==
  ASSUME IInv, NEW id \in Request, id = polls + 1, now = (id - 1) * Poll, Refresh(id),
         booted', UNCHANGED <<now, answers, last>>
  PROVE  IInv'
<1>1. Types'
  BY DEF IInv, Types, Refresh, Request
<1>2. Asked'
  BY DEF IInv, Types, Asked, Refresh, Request, Answer
<1>3. OnTime'
  <2>1. now <= Due(id)
    <3>1. (id - 1) * Poll \in Int
      BY OverlayAssumption DEF Request
    <3> QED
      BY <3>1, OverlayAssumption DEF Due
  <2>2. polls' - 1 = id - 1
    BY DEF Refresh
  <2>3. (polls' - 1) * Poll <= now'
    BY <2>2 DEF IInv, Types
  <2>4. \A x \in pending' : now' <= Due(x)
    BY <2>1 DEF IInv, OnTime, Refresh
  <2>5. \A x \in pending' : Due(x)' = Due(x)
    BY DEF Due
  <2> QED
    BY <2>3, <2>4 DEF OnTime, Due
<1>4. WaitingIsTimed'
  BY DEF IInv, WaitingIsTimed, Refresh
<1> QED
  BY <1>1, <1>2, <1>3, <1>4 DEF IInv

LEMMA StepIInv == IInv /\ [Next]_vars => IInv'
<1> SUFFICES ASSUME IInv, [Next]_vars PROVE IInv'
  OBVIOUS
<1>1. ASSUME UNCHANGED <<now, booted, requests, host, last>> PROVE IInv'
  BY <1>1 DEF IInv, Types, Asked, OnTime, WaitingIsTimed, Due, requests, host
<1>2. CASE ObserverRuns \/ PageChanges \/ Navigates \/ QueuedRender \/ UNCHANGED vars
  BY <1>1, <1>2 DEF ObserverRuns, PageChanges, Navigates, QueuedRender, vars
<1>3. CASE Boot
  <2>1. polls = 0 /\ now = 0 /\ 1 \in Request
    BY <1>3, OverlayAssumption DEF Boot, IInv, Types, Asked, Request
  <2>2. now = (1 - 1) * Poll
    BY <2>1, OverlayAssumption
  <2> QED
    BY <1>3, <2>1, <2>2, RefreshIInv DEF Boot
<1>4. CASE IntervalFires
  <2>1. polls + 1 \in Request /\ (polls + 1) - 1 = polls
    BY <1>4, OverlayAssumption DEF IntervalFires, IInv, Types, Request
  <2> QED
    BY <1>4, <2>1, RefreshIInv DEF IntervalFires, Idle
<1>5. CASE TimeoutFires
  <2>1. PICK id \in timers :
          /\ timers' = timers \ {id} /\ pending' = pending \ {id}
          /\ waiting' = waiting \ {id}
          /\ UNCHANGED <<now, booted, polls, host, last>>
    BY <1>5 DEF TimeoutFires, Expire
  <2> QED
    BY <2>1 DEF IInv, Types, Asked, OnTime, WaitingIsTimed, Due, host
<1>6. CASE HostAnswers
  <2>1. PICK m \in Answer :
          /\ m.id \in atHost
          /\ atHost' = atHost \ {m.id} /\ answers' = answers \cup {m}
          /\ UNCHANGED <<now, booted, requests, last>>
    BY <1>6 DEF HostAnswers
  <2> QED
    BY <2>1 DEF IInv, Types, Asked, OnTime, WaitingIsTimed, Due, requests
<1>7. CASE FetchResponse
  <2>1. PICK m \in answers :
          /\ answers' = answers \ {m}
          /\ \/ /\ m.id \in pending
                /\ pending' = pending \ {m.id}
                /\ timers'  = timers  \ {m.id}
                /\ waiting' = waiting \ {m.id}
                /\ last' \in {m, last}
             \/ UNCHANGED <<pending, timers, waiting, last>>
          /\ UNCHANGED <<now, booted, polls, atHost>>
    BY <1>7 DEF FetchResponse, Known
  <2>2. m.id \in Nat /\ m.id <= polls
    BY DEF IInv, Types, Asked, Answer, Request
  <2>3. last'.id \in Nat /\ last'.id <= polls
    BY <2>1, <2>2 DEF IInv, Types, Asked
  <2> QED
    BY <2>1, <2>3 DEF IInv, Types, Asked, OnTime, WaitingIsTimed, Due
<1>8. CASE Second
  <2>1. /\ now' = now + 1 /\ booted
        /\ \A id \in timers : now < Due(id)
        /\ UNCHANGED <<booted, requests, host, last>>
    BY <1>8 DEF Second, Idle
  <2>2. \A id \in pending : Due(id) \in Int
    BY OverlayAssumption DEF IInv, Types, Due, Request
  <2>3. (polls - 1) * Poll \in Int
    BY OverlayAssumption DEF IInv, Types
  <2>4. OnTime'
    BY <2>1, <2>2, <2>3 DEF IInv, Types, OnTime, WaitingIsTimed, Due, requests
  <2> QED
    BY <2>1, <2>4 DEF IInv, Types, Asked, WaitingIsTimed, requests, host
<1> QED
  BY <1>2, <1>3, <1>4, <1>5, <1>6, <1>7, <1>8 DEF Next

LEMMA Invariant == Spec => []IInv
BY InitIInv, StepIInv, PTL DEF Spec

-----------------------------------------------------------------------------
LEMMA RenderTypes ==
  ASSUME TypeOK, NEW s \in Snapshot \cup {NoSnapshot}, NEW b \in BOOLEAN,
         RenderSnapshot(s, b), anchor' = anchor
  PROVE  /\ notify' \in BOOLEAN
         /\ overlay' \in [at : Anchors \cup {"none"}, shows : Snapshot \cup {NoSnapshot}]
<1>1. CASE anchor = "none"
  BY <1>1 DEF TypeOK, RenderSnapshot
<1>2. CASE anchor # "none"
  <2>1. /\ overlay' = [at |-> anchor, shows |-> s]
        /\ \E changed \in Mutates(s) : notify' = (b /\ changed)
    BY <1>2 DEF RenderSnapshot
  <2>2. anchor \in Anchors \cup {"none"}
    BY DEF TypeOK
  <2>3. overlay' \in [at : Anchors \cup {"none"}, shows : Snapshot \cup {NoSnapshot}]
    BY <2>1, <2>2
  <2>4. notify' \in BOOLEAN
    BY <2>1
  <2> QED
    BY <2>3, <2>4
<1> QED
  BY <1>1, <1>2

LEMMA RefreshTypes ==
  ASSUME TypeOK, NEW id \in Request, Refresh(id)
  PROVE  /\ polls' \in 0 .. MaxPolls
         /\ {pending', timers', waiting', atHost'} \subseteq SUBSET Request
BY OverlayAssumption DEF TypeOK, Refresh, Request

LEMMA TypeStep == TypeOK /\ [Next]_vars => TypeOK'
<1> SUFFICES ASSUME TypeOK, [Next]_vars PROVE TypeOK'
  OBVIOUS
<1>1. CASE ObserverRuns
  <2>1. RenderSnapshot(last, TRUE) /\ anchor' = anchor /\ last \in Snapshot \cup {NoSnapshot}
    BY <1>1 DEF ObserverRuns, TypeOK
  <2> QED
    BY <1>1, <2>1, RenderTypes DEF ObserverRuns, TypeOK, requests, host
<1>2. CASE PageChanges
  BY <1>2 DEF PageChanges, TypeOK, requests, host
<1>3. CASE Navigates
  BY <1>3 DEF Navigates, TypeOK, requests, host
<1>4. CASE QueuedRender
  <2>1. RenderSnapshot(last, TRUE) /\ anchor' = anchor /\ last \in Snapshot \cup {NoSnapshot}
    BY <1>4 DEF QueuedRender, TypeOK
  <2> QED
    BY <1>4, <2>1, RenderTypes DEF QueuedRender, TypeOK, requests, host
<1>5. CASE Boot
  <2>1. RenderSnapshot(last, FALSE) /\ anchor' = anchor /\ last \in Snapshot \cup {NoSnapshot}
    BY <1>5 DEF Boot, TypeOK
  <2>2. 1 \in Request /\ Refresh(1)
    BY <1>5, OverlayAssumption DEF Boot, Request
  <2> QED
    BY <1>5, <2>1, <2>2, RenderTypes, RefreshTypes DEF Boot, TypeOK
<1>6. CASE IntervalFires
  <2>1. polls + 1 \in Request /\ Refresh(polls + 1)
    BY <1>6, OverlayAssumption DEF IntervalFires, TypeOK, Request
  <2> QED
    BY <1>6, <2>1, RefreshTypes DEF IntervalFires, TypeOK, page
<1>7. CASE TimeoutFires
  <2>1. RenderSnapshot(last, TRUE) /\ anchor' = anchor /\ last \in Snapshot \cup {NoSnapshot}
    BY <1>7 DEF TimeoutFires, TypeOK
  <2> QED
    BY <1>7, <2>1, RenderTypes DEF TimeoutFires, Expire, TypeOK, host
<1>8. CASE HostAnswers
  BY <1>8 DEF HostAnswers, TypeOK, requests, page
<1>9. CASE FetchResponse
  <2>1. PICK m \in answers :
          /\ answers' = answers \ {m}
          /\ IF Known(m)
             THEN /\ pending' = pending \ {m.id}
                  /\ timers'  = timers  \ {m.id}
                  /\ waiting' = waiting \ {m.id}
                  /\ last' = IF Resolves(m) THEN m ELSE last
                  /\ RenderSnapshot(last', TRUE)
             ELSE UNCHANGED <<pending, timers, waiting, last, overlay, notify>>
          /\ UNCHANGED <<now, booted, polls, atHost, anchor, queued>>
    BY <1>9 DEF FetchResponse
  <2>2. last' \in Snapshot \cup {NoSnapshot}
    BY <2>1 DEF TypeOK, Resolves, Snapshot
  <2>3. /\ notify' \in BOOLEAN
        /\ overlay' \in [at : Anchors \cup {"none"}, shows : Snapshot \cup {NoSnapshot}]
    <3>1. CASE Known(m)
      BY <2>1, <2>2, <3>1, RenderTypes
    <3>2. CASE ~Known(m)
      BY <2>1, <3>2 DEF TypeOK
    <3> QED
      BY <3>1, <3>2
  <2> QED
    <3>1. {pending', timers', waiting', atHost'} \subseteq SUBSET Request /\ answers' \subseteq Answer
      <4>1. /\ pending' \subseteq pending /\ timers' \subseteq timers
            /\ waiting' \subseteq waiting /\ atHost' = atHost /\ answers' \subseteq answers
        BY <2>1
      <4> QED
        BY <4>1 DEF TypeOK
    <3>2. /\ now' \in Nat /\ polls' \in 0 .. MaxPolls
          /\ anchor' \in Anchors \cup {"none"}
      BY <2>1 DEF TypeOK
    <3>3. {booted', notify', queued'} \subseteq BOOLEAN
      <4>1. booted \in BOOLEAN /\ queued \in BOOLEAN
        BY DEF TypeOK
      <4>2. booted' = booted /\ queued' = queued
        BY <2>1
      <4> QED
        BY <2>3, <4>1, <4>2
    <3> QED
      BY <2>2, <2>3, <3>1, <3>2, <3>3 DEF TypeOK
<1>10. CASE Second
  BY <1>10 DEF Second, TypeOK, requests, host, page
<1>11. CASE UNCHANGED vars
  BY <1>11 DEF vars, TypeOK, requests, host, page
<1> QED
  BY <1>1, <1>2, <1>3, <1>4, <1>5, <1>6, <1>7, <1>8, <1>9, <1>10, <1>11 DEF Next

\* Every variable keeps its type, for any periods, anchors and number of requests.
THEOREM TypeCorrect == Spec => []TypeOK
<1>1. Init => TypeOK
  <2> SUFFICES ASSUME Init PROVE TypeOK
    OBVIOUS
  <2>1. overlay \in [at : Anchors \cup {"none"}, shows : Snapshot \cup {NoSnapshot}]
    BY DEF Init
  <2>2. polls \in 0 .. MaxPolls
    BY OverlayAssumption DEF Init
  <2> QED
    BY <2>1, <2>2 DEF Init, TypeOK
<1> QED
  BY <1>1, TypeStep, PTL DEF Spec

-----------------------------------------------------------------------------
\* Every refresh that waits can be answered and will be given up (201-239).
THEOREM EveryWaitIsTimed == Spec => []WaitingIsTimed
<1>1. IInv => WaitingIsTimed
  BY DEF IInv
<1> QED
  BY <1>1, Invariant, PTL

\* Requests do not pile up in the page, for any interval and time-out (201-218).
THEOREM FewPending == Spec => []PendingBounded
<1>1. IInv => PendingBounded
  <2> SUFFICES ASSUME IInv PROVE Cardinality(pending) <= Overlap
    BY DEF PendingBounded
  <2>1. Overlap \in Nat \ {0} /\ polls \in Nat
    <3>1. Timeout \div Poll \in Nat
      BY OverlayAssumption
    <3> QED
      BY <3>1 DEF Overlap, IInv, Types
  <2> DEFINE recent == (polls - Overlap + 1) .. polls
  <2>2. pending \subseteq recent
    BY <2>1, PendingIsRecent
  <2>3. IsFiniteSet(recent) /\ Cardinality(recent) = Overlap
    <3>1. /\ IsFiniteSet(recent)
          /\ Cardinality(recent) = IF polls - Overlap + 1 > polls THEN 0
                                   ELSE polls - (polls - Overlap + 1) + 1
      BY <2>1, FS_Interval
    <3> QED
      BY <2>1, <3>1
  <2> HIDE DEF recent
  <2> QED
    BY <2>2, <2>3, FS_Subset
<1> QED
  BY <1>1, Invariant, PTL

\* An answer that is late or out of order does not put back the snapshot further
\* than to another request that could still wait (220-239).
THEOREM BackByFew == Spec => BackByOneAtMost
<1>1. IInv /\ [Next]_vars => [last'.id > last.id - Overlap]_last
  <2> SUFFICES ASSUME IInv, Next, last' # last PROVE last'.id > last.id - Overlap
    BY DEF vars
  <2>1. FetchResponse
    BY DEF Next, ObserverRuns, PageChanges, Navigates, QueuedRender, Boot,
           IntervalFires, TimeoutFires, HostAnswers, Second
  <2>2. PICK m \in answers : m.id \in pending /\ last' = m
    BY <2>1 DEF FetchResponse, Known
  <2>3. m.id > polls - Overlap /\ m.id \in Nat
    BY <2>2, PendingIsRecent
  <2>4. last.id \in Nat /\ polls \in Nat /\ last.id <= polls
    BY DEF IInv, Types, Asked
  <2>5. Overlap \in Int
    BY OverlayAssumption DEF Overlap
  <2> QED
    BY <2>2, <2>3, <2>4, <2>5
<1> QED
  BY <1>1, Invariant, PTL DEF Spec, BackByOneAtMost

=============================================================================
