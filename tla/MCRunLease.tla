----------------------------- MODULE MCRunLease -----------------------------
(* RunLease on small instances.                                            *)
EXTENDS RunLease, TLC

CONSTANTS c1, c2

Symmetry == Permutations(Controllers)
=============================================================================
