--------------------------- MODULE UsageOverlay ---------------------------
(***************************************************************************)
(* The usage overlay of the editor's web view (src/tmp/codex-ext-patch/   *)
(* usage-monitor-inject.js) and the host that answers it (extension.js).   *)
(* The page asks for a snapshot when it has loaded and every Poll seconds; *)
(* the host runs a script for each request and answers in any order, late  *)
(* or never; the page waits Timeout seconds.                               *)
(*                                                                         *)
(* The page has one thread: a callback is one action.  Callbacks of the    *)
(* mutation observer are microtasks and come before all others.  Timers    *)
(* fire when they are due: a second passes when none is.                   *)
(***************************************************************************)
EXTENDS Integers, FiniteSets

CONSTANTS
  Poll,      \* POLL_INTERVAL_MS, in seconds: 5
  Timeout,   \* REQUEST_TIMEOUT_MS, in seconds: 8
  Anchors,   \* elements that the overlay can be placed after
  MaxPolls   \* bound: requests in a behaviour

ASSUME OverlayAssumption ==
  /\ {Poll, Timeout, MaxPolls} \subseteq Nat \ {0}
  /\ "none" \notin Anchors

\* Requests are numbered in their order
Request  == 1 .. MaxPolls
\* The host answers with the script's snapshot, with an object that says there
\* is none, or with an error
Answer   == [id : Request, kind : {"usage", "unavailable", "error"}]
Snapshot == {m \in Answer : m.kind # "error"}
NoSnapshot == [id |-> 0, kind |-> "none"]

VARIABLES
  now,      \* seconds since boot
  booted,   \* boot has run, the interval and the observer are on
  polls,    \* requests made
  pending,  \* pendingResponses
  timers,   \* time-outs armed
  waiting,  \* calls of refresh that await their snapshot
  atHost,   \* requests for which the host runs a script
  answers,  \* answers on their way to the page
  last,     \* lastSnapshot
  anchor,   \* the visible anchor
  overlay,  \* the anchor the overlay is placed after, and what it shows
  notify,   \* the observer has mutations to be told of
  queued    \* a render waits in a time-out of zero

requests == <<polls, pending, timers, waiting>>
host     == <<atHost, answers>>
page     == <<anchor, overlay, notify, queued>>
vars     == <<now, booted, requests, host, last, page>>

TypeOK ==
  /\ now \in Nat
  /\ {booted, notify, queued} \subseteq BOOLEAN
  /\ polls \in 0 .. MaxPolls
  /\ {pending, timers, waiting, atHost} \subseteq SUBSET Request
  /\ answers \subseteq Answer
  /\ last \in Snapshot \cup {NoSnapshot}
  /\ anchor \in Anchors \cup {"none"}
  /\ overlay \in [at : Anchors \cup {"none"}, shows : Snapshot \cup {NoSnapshot}]

Init ==
  /\ now = 0 /\ booted = FALSE
  /\ polls = 0 /\ pending = {} /\ timers = {} /\ waiting = {}
  /\ atHost = {} /\ answers = {}
  /\ last = NoSnapshot
  /\ anchor \in Anchors \cup {"none"}
  /\ overlay = [at |-> "none", shows |-> NoSnapshot]
  /\ notify = FALSE /\ queued = FALSE

-----------------------------------------------------------------------------
(* Rendering.                                                              *)

\* What the observer may note of rendering s at the anchor: a childList record in
\* the body for an overlay that is put there or moved, and for a text replaced by
\* another.  Chromium, which shows the web view, leaves an identical text alone.
\* Kinds read differently, two snapshots without usage alike, and two with usage
\* may: numbers are compact, times in seconds.
Mutates(s) ==
  IF overlay.at # anchor \/ overlay.shows.kind # s.kind
  THEN {TRUE}
  ELSE {FALSE, s.kind = "usage" /\ s # overlay.shows}

\* renderSnapshot puts the overlay after the anchor and writes its texts
\* (mutant: it replaces every text it writes)
RenderSnapshotAnew(s, observed) ==
  IF anchor = "none"
  THEN notify' = FALSE /\ UNCHANGED overlay
  ELSE notify' = observed /\ overlay' = [at |-> anchor, shows |-> s]
RenderSnapshot(s, observed) ==
  IF anchor = "none"
  THEN notify' = FALSE /\ UNCHANGED overlay
  ELSE /\ \E changed \in Mutates(s) : notify' = (observed /\ changed)
       /\ overlay' = [at |-> anchor, shows |-> s]

\* The callback of the observer
ObserverRuns ==
  /\ notify
  /\ RenderSnapshot(last, TRUE)
  /\ UNCHANGED <<now, booted, requests, host, last, anchor, queued>>

\* A callback that is not a microtask can run
Idle == booted /\ ~notify

\* The page's own scripts show, hide or replace an anchor, and may remove the
\* overlay with its surroundings; a change of style alone is not observed
PageChanges ==
  /\ ~notify
  /\ anchor' \in Anchors \cup {"none"}
  /\ overlay' \in {overlay, [overlay EXCEPT !.at = "none"]}
  /\ notify' \in {booted, FALSE}
  /\ UNCHANGED <<now, booted, requests, host, last, queued>>

Navigates ==
  /\ Idle /\ ~queued
  /\ queued' = TRUE
  /\ UNCHANGED <<now, booted, requests, host, last, anchor, overlay, notify>>

QueuedRender ==
  /\ Idle /\ queued
  /\ queued' = FALSE
  /\ RenderSnapshot(last, TRUE)
  /\ UNCHANGED <<now, booted, requests, host, last, anchor>>

-----------------------------------------------------------------------------
(* Requests.                                                               *)

\* The time-out of a request
Due(id) == (id - 1) * Poll + Timeout

\* refresh calls requestSnapshot, which arms the time-out, notes the request
\* and posts it.  The host starts a script for each.
\* (mutant: no time-out)
RefreshUntimed(id) ==
  /\ polls' = id
  /\ pending' = pending \cup {id} /\ waiting' = waiting \cup {id}
  /\ UNCHANGED timers
  /\ atHost' = atHost \cup {id}
Refresh(id) ==
  /\ polls' = id
  /\ timers'  = timers  \cup {id}
  /\ pending' = pending \cup {id}
  /\ waiting' = waiting \cup {id}
  /\ atHost'  = atHost  \cup {id}

\* What boot writes is not observed yet
Boot ==
  /\ ~booted
  /\ booted' = TRUE
  /\ RenderSnapshot(last, FALSE)
  /\ Refresh(1)
  /\ UNCHANGED <<now, answers, last, anchor, queued>>

IntervalFires ==
  /\ Idle /\ polls < MaxPolls
  /\ now = polls * Poll
  /\ Refresh(polls + 1)
  /\ UNCHANGED <<now, booted, answers, last, page>>

\* refresh catches the rejection and renders what it had
\* (mutant: the request stays in pendingResponses)
ExpireKeepsPending(id) == UNCHANGED pending
Expire(id) == pending' = pending \ {id}

TimeoutFires ==
  \E id \in timers :
     /\ Idle /\ now >= Due(id)
     /\ timers' = timers \ {id}
     /\ Expire(id)
     /\ waiting' = waiting \ {id}
     /\ RenderSnapshot(last, TRUE)
     /\ UNCHANGED <<now, booted, polls, host, last, anchor, queued>>

\* The script of a request ends, or can not be found or started
HostAnswers ==
  \E m \in Answer :
     /\ m.id \in atHost
     /\ atHost' = atHost \ {m.id}
     /\ answers' = answers \cup {m}
     /\ UNCHANGED <<now, booted, requests, last, page>>

\* handleFetchResponse goes on for a request that is still noted, and resolves
\* for an answer of type success
\* (mutant: for any request)
KnownAlways(m) == TRUE
Known(m) == m.id \in pending
Resolves(m) == m.kind # "error"

FetchResponse ==
  \E m \in answers :
     /\ Idle
     /\ answers' = answers \ {m}
     /\ IF Known(m)
        THEN /\ pending' = pending \ {m.id}
             /\ timers'  = timers  \ {m.id}
             /\ waiting' = waiting \ {m.id}
             /\ last' = IF Resolves(m) THEN m ELSE last
             /\ RenderSnapshot(last', TRUE)
        ELSE UNCHANGED <<pending, timers, waiting, last, overlay, notify>>
     /\ UNCHANGED <<now, booted, polls, atHost, anchor, queued>>

-----------------------------------------------------------------------------
\* A second passes when no timer is due.  Bound: until the last request is over
Second ==
  /\ Idle /\ ~queued
  /\ polls < MaxPolls => now < polls * Poll
  /\ \A id \in timers : now < Due(id)
  /\ now < Due(MaxPolls)
  /\ now' = now + 1
  /\ UNCHANGED <<booted, requests, host, last, page>>

Next ==
  \/ ObserverRuns \/ PageChanges \/ Navigates \/ QueuedRender
  \/ Boot \/ IntervalFires \/ TimeoutFires \/ HostAnswers \/ FetchResponse
  \/ Second

Spec == Init /\ [][Next]_vars

\* The page's thread and its timers run, and its other scripts leave the event
\* loop time for each task.  The host need not answer, and neither the page nor
\* its user need do anything.
Fairness ==
  /\ WF_vars(Boot) /\ WF_vars(ObserverRuns) /\ SF_vars(QueuedRender)
  /\ SF_vars(IntervalFires) /\ SF_vars(TimeoutFires) /\ SF_vars(Second)

FairSpec == Spec /\ Fairness

-----------------------------------------------------------------------------
(* What holds.                                                             *)

\* A refresh that waits is noted, to be answered, and timed, to be given up
\* (requestSnapshot and handleFetchResponse, 201-239)
WaitingIsTimed == waiting = pending /\ pending = timers

\* Requests of the page that wait at once, at most: 2 with 5 and 8 seconds
Overlap == Timeout \div Poll + 1

\* The time-out is longer than the interval, and yet requests do not pile up in
\* the page however slow the host is
PendingBounded == Cardinality(pending) <= Overlap

\* Answers come in any order, and an older snapshot may replace a newer one, but
\* only that of the request just before it when the time-out is under two
\* intervals: an answer that comes after its time-out is dropped (220-224)
BackByOneAtMost == [][last'.id > last.id - Overlap]_last

\* Every refresh ends, though the host may never answer, and though the observer
\* watches what its own callback writes: what it writes settles, and the page's
\* thread comes back to its timers (201-239, 358-366)
RefreshSettles == \A id \in Request : id \in waiting ~> id \notin waiting

=============================================================================
