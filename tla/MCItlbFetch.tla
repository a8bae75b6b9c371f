---------------------------- MODULE MCItlbFetch ----------------------------
(***************************************************************************)
(* ItlbFetch for TLC.  The last eight bits of two of the pages are equal.  *)
(***************************************************************************)
EXTENDS ItlbFetch

MCVpn == {"p", "q", "r"}
MCLow == [v \in MCVpn |-> IF v = "r" THEN 1 ELSE 0]
=============================================================================
