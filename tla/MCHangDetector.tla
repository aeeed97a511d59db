--------------------------- MODULE MCHangDetector ---------------------------
(* HangDetector on small instances.                                        *)
EXTENDS HangDetector, TLC

CONSTANTS w1, w2

Symmetry == Permutations(Warps)
=============================================================================
