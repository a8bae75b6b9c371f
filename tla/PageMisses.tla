----------------------------- MODULE PageMisses -----------------------------
(***************************************************************************)
(* What an L1 TLB promises of its misses: a page has at most one; a page   *)
(* enters the TLB by the answer to its own miss, and by no answer to a     *)
(* miss that was given up; a request, once sent, stays until its answer.   *)
(*                                                                         *)
(* This is the abstract specification that DtlbMiss and ItlbFetch          *)
(* implement.  One step is a clock cycle, in which every page moves.       *)
(***************************************************************************)
EXTENDS Integers, FiniteSets

CONSTANTS
  Page,
  Limit,  \* how many pages can have a miss
  Late    \* whether a miss given up may still be asked for afterwards

VARIABLES
  cached,  \* the pages in the TLB
  miss     \* what has become of the miss of each page

vars == <<cached, miss>>

\* missed: not asked for yet; arrived: the page is there, to be installed;
\* faulted: the fault is there, to be taken; dropped: asked for and given up
Status == {"none", "missed", "asked", "arrived", "faulted", "dropped"}

Init ==
  /\ cached = {}
  /\ miss = [p \in Page |-> "none"]

AtMostOne(S) == {{}} \cup {{x} : x \in S}

\* What a page may come to in a cycle.  asks: it is asked for; enters: it may
\* enter the TLB.  A fault may be taken in the cycle in which it comes.
Goes(s, asks, enters) ==
  CASE s = "none"                -> IF asks THEN {"asked"} ELSE {"none", "missed"}
    [] s = "missed"              -> IF asks THEN {"asked"} ELSE {"missed"}
    [] s = "asked" /\ ~enters    -> {"asked", "arrived", "faulted", "none"}
    [] s = "arrived" /\ ~enters  -> {"arrived"}
    [] s = "faulted"             -> {"faulted", "none"}
    [] s = "dropped"             -> {"dropped", "none"}
    [] OTHER                     -> {"none"}

\* The same in a cycle in which all misses are given up
GivenUp(s, asks) ==
  CASE s = "missed" /\ asks      -> {"dropped"}
    [] s = "none" /\ asks /\ Late -> {"dropped"}
    [] s \in {"asked", "dropped"} -> {"dropped", "none"}
    [] OTHER                     -> {"none"}

Next ==
  /\ miss' \in [Page -> Status]
  /\ Cardinality({p \in Page : miss'[p] # "none"}) <= Limit
  /\ \E in \in AtMostOne({p \in Page : miss[p] \in {"asked", "arrived"}}),
        asked \in AtMostOne(Page), flush \in BOOLEAN :
       /\ cached' \subseteq cached \cup in
       /\ \A p \in Page :
            miss'[p] \in IF flush THEN GivenUp(miss[p], p \in asked)
                         ELSE Goes(miss[p], p \in asked, p \in in)

Spec == Init /\ [][Next]_vars
=============================================================================
