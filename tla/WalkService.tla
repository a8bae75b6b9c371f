---------------------------- MODULE WalkService ----------------------------
(***************************************************************************)
(* What the misses of the L2 TLB may rely on: a miss stays until its walk  *)
(* completes, a walk once begun goes on until it completes or all walks    *)
(* are dropped together, and no walk is begun for a miss that has one.     *)
(*                                                                         *)
(* This is the abstract specification that L2Access implements.  One step  *)
(* is a clock cycle in which one miss may come, one walk complete and one  *)
(* begin, all at the same edge.                                            *)
(***************************************************************************)
CONSTANT Miss   \* the places a miss can be kept in

VARIABLES
  missing,   \* the misses not yet answered
  walking    \* those that are being walked

vars == <<missing, walking>>

Init == missing = {} /\ walking = {}

AtMostOne(S) == {{}} \cup {{x} : x \in S}

\* A walk may be dropped in the cycle in which another one completes.
DropAll == walking' = {}

Next ==
  \E new \in AtMostOne(Miss \ missing), done \in AtMostOne(walking) :
    /\ missing' = (missing \cup new) \ done
    /\ \/ DropAll
       \/ \E begun \in AtMostOne(missing' \ walking) :
            walking' = (walking \ done) \cup begun

Spec == Init /\ [][Next]_vars
=============================================================================
