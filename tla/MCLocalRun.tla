----------------------------- MODULE MCLocalRun -----------------------------
(* LocalRun on small instances.                                        *)
EXTENDS LocalRun, TLC

CONSTANTS d1, d2, k1, k2, san, st, disc

AllInputs == [mode : {"RETURN_ONLY", "FILE"}, pinned : BOOLEAN]
=============================================================================
