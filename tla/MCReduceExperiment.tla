------------------------- MODULE MCReduceExperiment -------------------------
(* A reduction over four points.  A truthful script is left to the proof   *)
(* of ResultTriggers, which holds for every oracle; here scripts answer    *)
(* anything.                                                               *)
EXTENDS ReduceExperiment

MCTargets == {<<"replay", FALSE>>, <<"replay", TRUE>>, <<"script", TRUE>>}
=============================================================================
