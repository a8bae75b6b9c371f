----------------------------- MODULE MCL2Access -----------------------------
(***************************************************************************)
(* L2Access for TLC.  Its configurations differ in the operations CP0 may  *)
(* ask for; no set of values is symmetric, since the entries of the miss   *)
(* buffer are chosen by their index.                                       *)
(***************************************************************************)
EXTENDS L2Access
=============================================================================
