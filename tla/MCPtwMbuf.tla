------------------------------ MODULE MCPtwMbuf ------------------------------
(***************************************************************************)
(* PtwMbuf with two DTLB entries and the ITLB entry.                       *)
(***************************************************************************)
EXTENDS PtwMbuf, TLC

\* The DTLB jobs are interchangeable (each entry compares nothing but valid bits)
JobSymmetry == Permutations(DtlbJobs)
=============================================================================
