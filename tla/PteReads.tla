------------------------------ MODULE PteReads ------------------------------
(***************************************************************************)
(* What the page walker expects of its page-table-read buffer: a read that *)
(* was handed over stays open until it is answered with its own word, is   *)
(* reported as a bus error, or all reads are dropped by an abort.          *)
(*                                                                         *)
(* This is the abstract specification that PtwMbuf implements.  One step   *)
(* is a clock cycle in which one read may be opened, one answered and one  *)
(* reported, all at the same edge.                                         *)
(***************************************************************************)
CONSTANTS
  Job,       \* page table reads
  PteKind,   \* what can be read
  NoJob,     \* no read
  NoData     \* no answer in the last cycle

VARIABLES
  open,      \* the reads in progress
  reply      \* the answer given in the last cycle: [job, pte]

vars == <<open, reply>>

Init == open = {} /\ reply = NoData

\* At most one read is opened (asked), one answered and one reported (failed).
Serve(asked, answered, failed, kind) ==
  /\ asked \notin open
  /\ {answered, failed} \ {NoJob} \subseteq open
  /\ answered # failed \/ answered = NoJob
  /\ open' = (open \cup ({asked} \ {NoJob})) \ {answered, failed}
  /\ reply' = IF answered = NoJob THEN NoData
              ELSE [job |-> answered, pte |-> [job |-> answered, kind |-> kind]]

DropAll == open' = {} /\ reply' = NoData

Next ==
  \/ DropAll
  \/ \E asked, answered, failed \in Job \cup {NoJob}, kind \in PteKind :
       Serve(asked, answered, failed, kind)

Spec == Init /\ [][Next]_vars
=============================================================================
