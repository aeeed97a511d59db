-------------------------- MODULE ReduceExperiment --------------------------
(***************************************************************************)
(* The service's reduction experiment (service/experiments/reduce.py): the *)
(* triggering configuration of an earlier campaign is staged and its       *)
(* identity checked, DelayReducer reduces it, and the report is published. *)
(* Whatever stops it becomes an outcome of the result, which the session   *)
(* accepts or rejects (session.py).  A bare test script is the command     *)
(* line's `cutracer reduce`, which has no such wrapper.                    *)
(***************************************************************************)
EXTENDS DelayReducer, Sequences

VARIABLES
    flaws,      \* what is wrong with the input, before anything is replayed
    answer      \* the ReduceExperimentResult

rvars == <<vars, flaws, answer>>

Service == oracle = "replay"
NoAnswer == [outcome |-> "none"]

(* In the order in which they are found: stage_verified_local_artifact     *)
(* (the reference has no digest, the file cannot be copied, the bytes are  *)
(* others), then validate_reduce_input (the caller's own versions are      *)
(* unknown, the trigger's are, they differ, the kernel differs, the        *)
(* configuration does not name it or is malformed).                        *)
Checks == <<"identity", "materialization", "integrity", "active runtime",
            "trigger runtime", "other runtime", "other kernel", "no checksum", "malformed">>

Flaws == {Checks[k] : k \in DOMAIN Checks}

FirstFlaw == Checks[CHOOSE k \in DOMAIN Checks :
                      /\ Checks[k] \in flaws
                      /\ \A j \in DOMAIN Checks : Checks[j] \in flaws => k <= j]

(* classify_reduction_failure: the outcome and the status of an exception. *)
(* Mutant: the outcome alone is adjusted for a timeout.                    *)
ClassifyTimeoutAsFailure(what) ==
    CASE what \in {"materialization", "active runtime", "infra_error", "OSError"} ->
           <<"INFRA_ERROR", "INFRA_ERROR">>
      [] what = "timed_out" -> <<"NON_REPRODUCIBLE", "FAILED">>
      [] what = "does not trigger" -> <<"NON_REPRODUCIBLE", "FAILED">>
      [] OTHER -> <<"STALE_INPUT", "FAILED">>
Classify(what) ==
    CASE what \in {"materialization", "active runtime", "infra_error", "OSError"} ->
           <<"INFRA_ERROR", "INFRA_ERROR">>
      [] what = "timed_out" -> <<"INFRA_ERROR", "TIMED_OUT">>
      [] what = "does not trigger" -> <<"NON_REPRODUCIBLE", "FAILED">>
      [] OTHER -> <<"STALE_INPUT", "FAILED">>

(* run_reduce_experiment after an exception: nothing is published.         *)
Failed(what) ==
    [outcome |-> Classify(what)[1], status |-> Classify(what)[2], error |-> TRUE,
     report |-> FALSE, minimized |-> NoConfig, points |-> {}]

ReduceInit ==
    /\ Init
    /\ answer = NoAnswer
    /\ \/ flaws = {}
       \/ Service /\ race = {} /\ flaws \in {F \in SUBSET Flaws : Cardinality(F) \in {1, 2}}

(* The input is refused; a configuration with nothing enabled is the last  *)
(* check (_validate_reduction_input).                                      *)
RefuseInput ==
    /\ Service /\ answer = NoAnswer /\ phase = "validate"
    /\ flaws # {} \/ on = {}
    /\ answer' = Failed(IF flaws # {} THEN FirstFlaw ELSE "no enabled points")
    /\ UNCHANGED <<vars, flaws>>

(* The exception with which this step of the reducer ends it.              *)
Causes ==
    CASE phase' = "rejected" -> {"does not trigger"}
      [] disk' # disk -> {"OSError"}
      [] OTHER -> Outcomes(IF phase = "validate" THEN on ELSE Candidate) \ Answers

(* _run_reduction: a step of the reducer, which has a path to write to.    *)
(* An exception is caught by run_reduce_experiment.                        *)
Reduce ==
    /\ phase \notin Ended
    /\ flaws = {} /\ (Service => on # {})
    /\ Next
    /\ (Service /\ phase' = "done") => saved' # NoConfig
    /\ IF Service /\ phase' \in {"aborted", "rejected"}
       THEN \E what \in Causes : answer' = Failed(what)
       ELSE UNCHANGED answer
    /\ UNCHANGED flaws

(* _publish_reduction_result, and the result of a reduction.               *)
PublishReduction ==
    /\ Service /\ phase = "done" /\ answer = NoAnswer
    /\ \/ answer' = [outcome |-> "REDUCED", status |-> "SUCCEEDED", error |-> FALSE,
                     report |-> TRUE, minimized |-> saved, points |-> essential]
       \/ answer' = Failed("OSError")
    /\ UNCHANGED <<vars, flaws>>

Over ==
    /\ IF Service THEN answer # NoAnswer ELSE phase \in Ended
    /\ UNCHANGED rvars

ReduceNext == RefuseInput \/ Reduce \/ PublishReduction \/ Over

ReduceSpec == ReduceInit /\ [][ReduceNext]_rvars

-----------------------------------------------------------------------------
(* _validate_reduce_result *)
AcceptsReduction(r) ==
    IF r.outcome = "REDUCED" THEN r.status = "SUCCEEDED" /\ r.report /\ ~r.error
    ELSE /\ r.minimized = NoConfig /\ ~r.report /\ r.points = {}
         /\ r.status \in IF r.outcome = "INFRA_ERROR" THEN {"INFRA_ERROR", "TIMED_OUT"}
                         ELSE {"FAILED"}

(* The session accepts every result of the adapter, and no failure is      *)
(* taken for a verdict on the race: a configuration is called              *)
(* non-reproducible only when a replay of the very configuration ran to an *)
(* end and did not show the race, and the points of a reduced one are      *)
(* those its minimal configuration has on (classify_reduction_failure,     *)
(* _validate_reduce_result).                                               *)
ReductionVerdict ==
    answer # NoAnswer =>
        /\ AcceptsReduction(answer)
        /\ answer.outcome = "NON_REPRODUCIBLE" =>
             /\ flaws = {} /\ phase = "rejected"
             /\ "not_interesting" \in Outcomes(on)
        /\ answer.outcome = "REDUCED" =>
             /\ answer.minimized.enabled = answer.points
             /\ ~flaky => answer.points \in race
             /\ flaws = {}

=============================================================================
