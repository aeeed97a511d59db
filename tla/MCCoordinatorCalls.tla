------------------------- MODULE MCCoordinatorCalls -------------------------
(* CoordinatorCalls on small instances.                                    *)
EXTENDS CoordinatorCalls, TLC

CONSTANTS w1, w2, e1, e2, e3, k1, k2, disc

Symmetry == Permutations(Workers)
=============================================================================
