----------------------------- MODULE MCDtlbMiss -----------------------------
(***************************************************************************)
(* DtlbMiss for TLC.  Instructions 1 and 2 are on one page; 3, the         *)
(* youngest, is on a page of its own.                                      *)
(***************************************************************************)
EXTENDS DtlbMiss

MCPage   == {"p", "q"}
MCPageOf == [i \in Inst |-> IF i = 3 THEN "q" ELSE "p"]
=============================================================================
