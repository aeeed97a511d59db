--------------------------- MODULE AnalysisSession ---------------------------
(***************************************************************************)
(* The reducers of one kernel-pinned diagnosis session                     *)
(* (python/cutracer/service/session.py).  A reducer maps a session and an  *)
(* input to the set of transitions it may return; the empty set is a       *)
(* raised exception, and several elements are the choices of policies the  *)
(* reducer consults (triage verdict, guarded follow-up batch).             *)
(***************************************************************************)
EXTENDS Integers, FiniteSets

CONSTANTS
    Experiments,    \* every experiment the session could ever run
    Initial,        \* the initial campaign
    Stress,         \* the initial experiments of the random-delay source; the
                    \* others are the sanitizer source
    Shared,         \* initial experiments whose result a discovery parent supplies
    Payloads,       \* what results say: a finding, a trustworthy clean run, neither,
                    \* or something that does not fit the experiment
    MaxRounds,      \* SessionBudget.max_rounds
    MaxExperiments  \* SessionBudget.max_experiments

ASSUME SessionAssumption ==
    /\ IsFiniteSet(Experiments)
    /\ Initial \subseteq Experiments
    /\ Stress \subseteq Initial
    /\ Shared \subseteq Initial \ Stress
    /\ Payloads \subseteq {"signal", "clean", "incomplete", "unfit"}
    /\ MaxRounds \in Nat
    /\ MaxExperiments \in Nat

Waiting  == {"WAITING_INITIAL", "WAITING_TRIAGE", "WAITING_REASONER",
             "WAITING_FOLLOWUP"}
Terminal == {"COMPLETED", "INCONCLUSIVE", "FAILED"}
Statuses == Waiting \cup Terminal

Publications == {"NOT_READY", "PENDING", "PUBLISHED", "FAILED"}

(* What a session may rest on.                                             *)
Results == [id : Experiments, payload : Payloads \ {"unfit"}]

Session == [state_revision : Nat, status : Statuses,
            pending : SUBSET Experiments, completed : SUBSET Experiments,
            evidence : SUBSET Results, fingerprints : SUBSET Experiments,
            submitted : Nat, round_index : Nat, report_publication : Publications]

Effects == {"NONE", "SUBMIT_EXPERIMENTS", "RUN_TRIAGE", "RUN_REASONER",
            "PUBLISH_REPORT"}

Transition(s, e) == [session |-> s, effect |-> e]

-----------------------------------------------------------------------------
(* _terminate_inconclusive: a report exists and waits for delivery.        *)
Finish(s, status) ==
    Transition([s EXCEPT !.status = status, !.report_publication = "PENDING"],
               "PUBLISH_REPORT")

Inconclusive(s) == Finish(s, "INCONCLUSIVE")

(* _initial_campaign_state and create_session: experiments with a shared   *)
(* result are complete from the start and cost no budget.  Over budget,    *)
(* the session starts and ends inconclusive with nothing pending.          *)
NewSession(shared, pend) ==
    [state_revision |-> 1,
     status |-> IF pend = {} THEN "WAITING_TRIAGE" ELSE "WAITING_INITIAL",
     pending |-> pend, completed |-> {r.id : r \in shared}, evidence |-> shared,
     fingerprints |-> pend, submitted |-> Cardinality(pend),
     round_index |-> 0, report_publication |-> "NOT_READY"]

SharedResults ==
    {{[id |-> x, payload |-> f[x]] : x \in Shared} : f \in [Shared -> Payloads \ {"unfit"}]}

CreateSession(shared) ==
    LET pend == Initial \ {r.id : r \in shared}
    IN  IF Cardinality(pend) > MaxExperiments
        THEN Inconclusive(NewSession(shared, {}))
        ELSE Transition(NewSession(shared, pend),
                        IF pend = {} THEN "RUN_TRIAGE" ELSE "SUBMIT_EXPERIMENTS")

(* Mutant: a follow-up batch whose dispatch was lost is not owed.          *)
ResumeSessionForgetsFollowup(s) ==
    Transition(s, CASE s.status = "WAITING_INITIAL"  -> "SUBMIT_EXPERIMENTS"
                    [] s.status = "WAITING_TRIAGE"   -> "RUN_TRIAGE"
                    [] s.status = "WAITING_REASONER" -> "RUN_REASONER"
                    [] s.report_publication = "PENDING" -> "PUBLISH_REPORT"
                    [] OTHER -> "NONE")

(* resume_session: the effect a session in this state still owes.          *)
ResumeSession(s) ==
    Transition(s, CASE s.status \in {"WAITING_INITIAL", "WAITING_FOLLOWUP"}
                         -> "SUBMIT_EXPERIMENTS"
                    [] s.status = "WAITING_TRIAGE"   -> "RUN_TRIAGE"
                    [] s.status = "WAITING_REASONER" -> "RUN_REASONER"
                    [] s.status \in Terminal ->
                         IF s.report_publication = "PENDING"
                         THEN "PUBLISH_REPORT" ELSE "NONE")

-----------------------------------------------------------------------------
(* record_experiment_result.                                               *)

(* _validate_session_result_indexes                                        *)
IndexesValid(s) ==
    /\ s.pending \cap s.completed = {}
    /\ \A x \in s.completed :
          Cardinality({r \in s.evidence : r.id = x}) = 1

(* _validate_spec_context: an initial result belongs to round zero, a      *)
(* follow-up result to the round that is waiting for it.                   *)
PhaseValid(s, x) ==
    IF x \in Initial
    THEN s.status = "WAITING_INITIAL" /\ s.round_index = 0
    ELSE s.status = "WAITING_FOLLOWUP" /\ s.round_index >= 1

(* _validate_result_against_spec, _validate_provenance: the kind, the      *)
(* source revision, the architecture and the kernel are the experiment's.  *)
FitsSpec(r) == r.payload # "unfit"

AcceptResult(s, r) ==
    LET left == s.pending \ {r.id}
        s1   == [s EXCEPT !.evidence = @ \cup {r}, !.pending = left,
                          !.completed = @ \cup {r.id}]
    IN  IF left # {} THEN Transition(s1, "NONE")
        ELSE IF r.id \in Initial
        THEN Transition([s1 EXCEPT !.status = "WAITING_TRIAGE"], "RUN_TRIAGE")
        ELSE Transition([s1 EXCEPT !.status = "WAITING_REASONER"], "RUN_REASONER")

RecordExperimentResult(s, r) ==
    IF ~IndexesValid(s) THEN {}
    ELSE IF r.id \in s.completed
    THEN IF r \in s.evidence THEN {Transition(s, "NONE")} ELSE {}
    ELSE IF r.id \in s.pending /\ PhaseValid(s, r.id) /\ FitsSpec(r)
    THEN {AcceptResult(s, r)} ELSE {}

-----------------------------------------------------------------------------
(* record_triage_decision, with the verdicts TriagePolicy.decide can reach. *)

HasSignal(s) == \E r \in s.evidence : r.payload = "signal"

(* sanitizer_is_trustworthy_clean, stress_is_trustworthy_non_reproduction:  *)
(* an absent source is not a clean one.                                    *)
TrustworthyClean(s, source) ==
    /\ \E r \in s.evidence : r.id \in source
    /\ \A r \in s.evidence : r.id \in source => r.payload = "clean"

(* initial_evidence_requires_inconclusive                                  *)
RequiresInconclusive(s) ==
    /\ s.evidence # {}
    /\ ~HasSignal(s)
    /\ ~(TrustworthyClean(s, Stress) /\ TrustworthyClean(s, Initial \ Stress))

TriageOutcomes(s) ==
    IF RequiresInconclusive(s) THEN {"INCONCLUSIVE"}
    ELSE IF HasSignal(s) THEN {"ANALYZE", "FINISH", "INCONCLUSIVE"}
    ELSE {"FINISH", "INCONCLUSIVE"}

ApplyTriage(s, outcome) ==
    CASE outcome = "INCONCLUSIVE" -> Inconclusive(s)
      [] outcome = "FINISH"       -> Finish(s, "COMPLETED")
      [] outcome = "ANALYZE"      ->
            Transition([s EXCEPT !.status = "WAITING_REASONER"], "RUN_REASONER")

RecordTriageDecision(s) ==
    IF s.status = "WAITING_TRIAGE"
    THEN {ApplyTriage(s, o) : o \in TriageOutcomes(s)}
    ELSE {Transition(s, "NONE")}

-----------------------------------------------------------------------------
(* record_analysis_decision.                                               *)

Decisions == {"FINAL", "INCONCLUSIVE", "FOLLOWUP_REQUIRED"}

(* ExperimentGuardPolicy.expand rejects what was ever submitted before.    *)
GuardExpand(s) == SUBSET (Experiments \ (s.fingerprints \cup Initial))

FollowUp(s, batch) ==
    IF batch = {} \/ s.submitted + Cardinality(batch) > MaxExperiments
    THEN Inconclusive(s)
    ELSE Transition([s EXCEPT !.status = "WAITING_FOLLOWUP",
                              !.round_index = @ + 1,
                              !.pending = batch,
                              !.fingerprints = @ \cup batch,
                              !.submitted = @ + Cardinality(batch)],
                    "SUBMIT_EXPERIMENTS")

RoundsExhausted(s) == s.round_index >= MaxRounds

RecordAnalysisDecision(s, kind) ==
    IF s.status # "WAITING_REASONER" THEN {}
    ELSE IF s.round_index = 0 /\ RequiresInconclusive(s) THEN {Inconclusive(s)}
    ELSE CASE kind = "FINAL" ->      \* an unsupported report is rejected
                {Finish(s, "COMPLETED"), Inconclusive(s)}
           [] kind = "INCONCLUSIVE" -> {Inconclusive(s)}
           [] kind = "FOLLOWUP_REQUIRED" ->
                IF RoundsExhausted(s) THEN {Inconclusive(s)}
                ELSE {FollowUp(s, batch) : batch \in GuardExpand(s)}

-----------------------------------------------------------------------------
(* Mutant: a late failure overrides a session that has ended.              *)
RecordInfrastructureFailureLate(s) ==
    {Transition([s EXCEPT !.status = "FAILED", !.pending = {}], "NONE")}

(* record_infrastructure_failure                                           *)
RecordInfrastructureFailure(s) ==
    IF s.status \in Terminal THEN {Transition(s, "NONE")}
    ELSE {Transition([s EXCEPT !.status = "FAILED", !.pending = {}], "NONE")}

Reported(s) == s.status \in {"COMPLETED", "INCONCLUSIVE"}

(* record_report_published                                                 *)
RecordReportPublished(s) ==
    IF ~Reported(s) THEN {}
    ELSE IF s.report_publication = "PUBLISHED" THEN {Transition(s, "NONE")}
    ELSE IF s.report_publication = "PENDING"
    THEN {Transition([s EXCEPT !.report_publication = "PUBLISHED"], "NONE")}
    ELSE {}

(* record_report_publication_failed                                        *)
RecordReportPublicationFailed(s) ==
    IF ~Reported(s) THEN {}
    ELSE IF s.report_publication = "FAILED" THEN {Transition(s, "NONE")}
    ELSE IF s.report_publication = "PENDING"
    THEN {Transition([s EXCEPT !.report_publication = "FAILED"], "NONE")}
    ELSE {}

=============================================================================
