--------------------------- MODULE MCSessionStore ---------------------------
(* Small instances of SessionStore for TLC.                                *)
EXTENDS SessionStore, TLC

CONSTANTS p1, p2

MCProcs == {p1, p2}
Symmetry == Permutations(MCProcs)
=============================================================================
