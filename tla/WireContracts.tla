--------------------------- MODULE WireContracts ---------------------------
(***************************************************************************)
(* The contracts of contracts.py and run_contracts.py and their wire form: *)
(* what to_dict writes, what from_dict demands, fills in, renames and      *)
(* normalises, and what __post_init__ refuses.  Every durable document of  *)
(* the service (session, run control, run input, envelope, summary) is one *)
(* of these, is read back by a process of a later release, and is saved    *)
(* again from what was read.                                               *)
(*                                                                         *)
(* A contract has three sets of keys:                                      *)
(*   need  from_dict refuses a document without it;                        *)
(*   opt   to_dict always writes it, from_dict has a default for it;       *)
(*   Kept  to_dict writes it only when it is set.                          *)
(* An object is a function from keys to values: "dflt" is the default of   *)
(* from_dict and "set" any other value; the keys whose value decides what  *)
(* else may be said (Choices) have values of their own.  A nested contract *)
(* is the value of its key.                                                *)
(***************************************************************************)
VARIABLES contract, object, doc, hashed, reading, stage

wvars == <<contract, object, doc, hashed, reading, stage>>

Schema(need, opt) == [need |-> need, opt |-> opt]

-----------------------------------------------------------------------------
KernelId == Schema({"name", "cubin_hash"}, {})
SourceLoc == Schema({"file", "line"}, {})
ConfirmVerdict == Schema({"status", "rate"}, {"delay_ns", "warpgroup"})
CrossValidation == Schema({"agrees", "notes"}, {})
ArtifactRef == Schema({"uri"}, {"relative_path", "sha256", "size_bytes", "media_type"})
ExplainInput == Schema(
    {"unit_id", "kernel", "arch", "tool", "error_type", "source", "repro_cmd"},
    {"sani_log_path", "trace_path", "confirm_verdict"})
ExplainReport == Schema(
    {"root_cause", "race_class", "confidence", "is_reproduced", "cross_validation",
     "evidence_sufficiency", "recommended_action", "raw_ai_output"},
    {"evidence_refs"})
OracleSpec == Schema({"oracle_id", "argv"}, {"not_interesting_exit_codes"})
WorkUnit == Schema(
    {"unit_id", "argv"},
    {"workload", "test_id", "cwd", "arch", "source_revision", "kernel", "oracle",
     "env", "kernel_filters"})
TriggeringDelayConfig == Schema(
    {"artifact", "work_unit_id", "target_argv", "oracle", "delay_ns"},
    {"source_revision", "arch", "kernel", "enable_prob", "warpgroup_id",
     "attempt_index", "completed_trials", "reproductions", "reproduction_rate",
     "enabled_point_count", "cutracer_version", "toolchain_version"})
ExecutionProvenance == Schema(
    {},
    {"source_revision", "arch", "kernel", "tool_version", "toolchain_version"})
FindingRecord == Schema(
    {"source_tool", "error_type"},
    {"kernel_name", "source", "count", "raw", "error_detail"})
SuppressionRule == Schema(
    {"rule_id", "version", "reason", "owner"},
    {"kernel_pattern", "tools", "error_types", "expires_on", "tracking_ticket",
     "reviewed_by", "reviewed_on", "review_due_on", "permanent"})
ScopeId == Schema({"test_family", "tool"}, {})
TriageDecision == Schema({"outcome", "reason"}, {"snapshot"})
ScopeTriageSnapshot == Schema(
    {"scope", "completeness"},
    {"baseline_verdict", "observed_keys", "new_keys", "resolved_keys",
     "unchanged_keys", "baseline_recorded"})
TriageSnapshot == Schema({}, {"scopes", "stress_completeness", "suppression_audit"})
SuppressionDecision == Schema(
    {"rule_id", "rule_version", "reason"},
    {"owner", "expires_on", "tracking_ticket", "reviewed_by", "reviewed_on",
     "review_due_on", "permanent"})
SuppressionAuditEntry == Schema(
    {"finding_key", "source_tool", "error_type", "decision"},
    {"kernel_name", "source"})
SanitizerSummary == Schema(
    {"total_hazards", "errors", "warnings"},
    {"raw", "not_printed"})
KernelDiscoveryOptions == Schema({}, {"max_kernels"})
StressOptions == Schema(
    {},
    {"delay_ladder_ns", "attempts_per_delay", "enable_prob", "warpgroup_ids",
     "stop_on_first_reproduction"})
TraceSelector == Schema(
    {},
    {"kernel", "launch_id", "warp_id", "warpgroup_id", "pc_offsets",
     "instruction_categories", "config_source"})
TraceOptions == Schema({"mode"}, {"trace_size_limit_mb", "selector", "config_artifact"})
ReduceOptions == Schema(
    {"triggering_config"},
    {"strategy", "confidence_runs", "require_kernel_identity"})
ExperimentSpec == Schema(
    {"experiment_id", "session_id", "phase", "kind", "unit"},
    {"round_index", "discovery", "sanitizer_tool", "stress", "trace", "reduction"})
KernelDiscoveryManifest == Schema(
    {"target_unit_id"},
    {"source_revision", "arch", "kernels", "event_artifacts", "target_returncode",
     "kernel_filters"})
KernelDiscoveryResult == Schema(
    {"experiment_id", "execution_status", "outcome", "provenance"},
    {"discovery", "manifest_artifact", "duration_s", "error"})
SanitizerSweepResult == Schema(
    {"experiment_id", "execution_status", "outcome", "tool", "provenance"},
    {"findings", "log", "duration_s", "error", "summary", "completeness",
     "summary_issues", "output_truncated"})
StressTestResult == Schema(
    {"experiment_id", "execution_status", "outcome", "provenance"},
    {"completed_trials", "reproductions", "infra_errors", "triggering_config",
     "log", "duration_s", "error", "planned_trials", "timed_out_trials",
     "completeness", "unattributed_reproductions", "rejected_configs",
     "reproduction_rate"})
TraceDetectorSummary == Schema(
    {"source_tool", "sub_component", "verdict", "severity"},
    {"finding_count", "description", "trace_file"})
TraceAnalysisFinding == Schema(
    {"source_tool", "sub_component", "severity", "category"},
    {"description", "ctas", "warps", "pcs", "trace_indices", "source_locations",
     "trace_file"})
TraceAnalysisEvidence == Schema(
    {"analyzer", "execution_status", "total_findings", "schema_version"},
    {"detector_summaries", "findings", "warnings", "artifact", "error"})
TraceExperimentResult == Schema(
    {"kind", "experiment_id", "execution_status", "provenance"},
    {"mode", "trace", "log", "analysis", "duration_s", "error", "traces",
     "supporting_artifacts", "completeness", "analysis_duration_s"})
EssentialDelayPoint == Schema({}, {"kernel_name", "pc_offset", "sass", "delay_ns"})
ReduceExperimentResult == Schema(
    {"experiment_id", "execution_status", "outcome", "provenance", "input_config"},
    {"minimized_config", "report", "essential_points_artifact", "essential_points",
     "duration_s", "error", "note"})
ExperimentDispatchBinding == Schema(
    {"session_id", "experiment_id", "analyzed_state_revision", "dispatch_key"},
    {})
ExperimentEnvelope == Schema(
    {"session_id", "experiment_id", "analyzed_state_revision", "dispatch_key",
     "result"},
    {"schema_version"})
EvidenceBundle == Schema(
    {},
    {"discovery", "sanitizer", "stress", "traces", "reductions"})
ExperimentRequest == Schema({"kind"}, {"rationale", "trace_selector"})
AnalysisDecision == Schema({"kind"}, {"rationale", "report", "requests"})
SessionBudget == Schema({}, {"max_rounds", "max_experiments"})
AnalysisTurn == Schema({"turn_index", "decision"}, {"guard_notes"})
ExperimentRecord == Schema(
    {"experiment_id", "kind", "phase", "execution_status"},
    {"round_index", "outcome", "completeness"})
AnalysisSession == Schema(
    {"session_id", "unit", "status"},
    {"evidence", "budget", "pending_experiments", "completed_experiment_ids",
     "experiment_fingerprints", "round_index", "submitted_experiments", "turns",
     "report", "triage", "experiment_history", "discovery_plan",
     "child_sanitizer_tools", "child_enable_stress", "child_stress_options",
     "child_session_ids", "termination_reason", "report_publication",
     "report_publication_error", "state_revision", "schema_version"})
SessionReport == Schema(
    {"session_id", "status", "explanation"},
    {"evidence", "turns", "termination_reason", "unit", "triage", "experiments",
     "artifact_citations", "triggering_configs", "minimized_configs",
     "rounds_used"})
RunOutput == Schema({"mode"}, {"path"})
RunInput == Schema(
    {"schema_version", "run_id", "profile", "toolchain_version", "deadline_ms",
     "max_kernels", "output", "campaign_policy", "unit", "budget", "input_digest"},
    {"deployment_config_digest"})
RunSessionSummary == Schema(
    {"session_id", "unit_id", "status", "report_publication"},
    {"kernel", "termination_reason", "report_publication_error", "report_uri",
     "report_sha256", "has_report", "race_class", "evidence_sufficiency",
     "initial_evidence_complete", "sanitizer_positive_signal",
     "stress_positive_signal", "pending_experiment_ids"})
RunSummary == Schema(
    {"schema_version", "run_id", "status", "root_session_id", "sessions",
     "publication"},
    {"error", "output_uri"})
RunResult == Schema({"summary", "reports"}, {})
RunControl == Schema(
    {"schema_version", "revision", "input"},
    {"owner_token", "lease_expires_ms", "next_poll_ms", "controller_job_id",
     "controller_link", "controller_input", "controller_launch_digest",
     "submission_state", "submission_token", "summary", "error",
     "backend_identity"})

Schemas == [
    KernelId |-> KernelId, SourceLoc |-> SourceLoc, ConfirmVerdict |-> ConfirmVerdict,
    CrossValidation |-> CrossValidation, ArtifactRef |-> ArtifactRef,
    ExplainInput |-> ExplainInput, ExplainReport |-> ExplainReport,
    OracleSpec |-> OracleSpec, WorkUnit |-> WorkUnit,
    TriggeringDelayConfig |-> TriggeringDelayConfig,
    ExecutionProvenance |-> ExecutionProvenance, FindingRecord |-> FindingRecord,
    SuppressionRule |-> SuppressionRule, ScopeId |-> ScopeId,
    TriageDecision |-> TriageDecision, ScopeTriageSnapshot |-> ScopeTriageSnapshot,
    TriageSnapshot |-> TriageSnapshot, SuppressionDecision |-> SuppressionDecision,
    SuppressionAuditEntry |-> SuppressionAuditEntry,
    SanitizerSummary |-> SanitizerSummary,
    KernelDiscoveryOptions |-> KernelDiscoveryOptions, StressOptions |-> StressOptions,
    TraceSelector |-> TraceSelector, TraceOptions |-> TraceOptions,
    ReduceOptions |-> ReduceOptions, ExperimentSpec |-> ExperimentSpec,
    KernelDiscoveryManifest |-> KernelDiscoveryManifest,
    KernelDiscoveryResult |-> KernelDiscoveryResult,
    SanitizerSweepResult |-> SanitizerSweepResult,
    StressTestResult |-> StressTestResult,
    TraceDetectorSummary |-> TraceDetectorSummary,
    TraceAnalysisFinding |-> TraceAnalysisFinding,
    TraceAnalysisEvidence |-> TraceAnalysisEvidence,
    TraceExperimentResult |-> TraceExperimentResult,
    EssentialDelayPoint |-> EssentialDelayPoint,
    ReduceExperimentResult |-> ReduceExperimentResult,
    ExperimentDispatchBinding |-> ExperimentDispatchBinding,
    ExperimentEnvelope |-> ExperimentEnvelope, EvidenceBundle |-> EvidenceBundle,
    ExperimentRequest |-> ExperimentRequest, AnalysisDecision |-> AnalysisDecision,
    SessionBudget |-> SessionBudget, AnalysisTurn |-> AnalysisTurn,
    ExperimentRecord |-> ExperimentRecord, AnalysisSession |-> AnalysisSession,
    SessionReport |-> SessionReport, RunOutput |-> RunOutput, RunInput |-> RunInput,
    RunSessionSummary |-> RunSessionSummary, RunSummary |-> RunSummary,
    RunResult |-> RunResult, RunControl |-> RunControl]

-----------------------------------------------------------------------------
\* The keys to_dict leaves out at their default.
Kept == [
    KernelId |-> {"mangled_name"},
    TraceOptions |-> {"instrument_modes"},
    TraceAnalysisEvidence |-> {"capture_summaries", "omitted_capture_summaries"},
    ExperimentRequest |-> {"instrument_modes"},
    AnalysisSession |-> {"admission_input_digest", "published_report"}]

KeptOf(c) == IF c \in DOMAIN Kept THEN Kept[c] ELSE {}

Fields(c) == Schemas[c].need \cup Schemas[c].opt \cup KeptOf(c)

\* The keys whose value the constructors look at.
Choices == [
    ExplainReport |-> [race_class |-> {"none", "raw"}],
    TraceOptions |-> [selector |-> {"dflt", "set", "sourced"}],
    ExperimentSpec |-> [
        kind |-> {"discovery", "sanitizer_tool", "stress", "trace", "reduction"},
        unit |-> {"target", "pinned", "approved"}],
    KernelDiscoveryResult |-> [
        execution_status |-> {"SUCCEEDED", "FAILED", "INFRA_ERROR", "TIMED_OUT"},
        outcome |-> {"DISCOVERED", "NO_KERNELS", "INFRA_ERROR"}],
    TraceAnalysisEvidence |-> [
        schema_version |-> {"current"}, total_findings |-> {"zero", "some"}],
    TraceExperimentResult |-> [
        mode |-> {"set"}, traces |-> {"dflt", "one", "two"}],
    ReduceExperimentResult |-> [
        outcome |-> {"REDUCED", "NON_REPRODUCIBLE", "INFRA_ERROR"}],
    ExperimentEnvelope |-> [schema_version |-> {"current"}],
    ExperimentRequest |-> [kind |-> {"trace", "other"}],
    AnalysisDecision |-> [kind |-> {"FINAL", "FOLLOWUP_REQUIRED"}],
    AnalysisSession |-> [
        status |-> {"active", "ended", "FAILED"},
        report_publication |-> {"NOT_READY", "PENDING", "PUBLISHED"},
        schema_version |-> {"current"}],
    RunOutput |-> [mode |-> {"FILE", "other"}],
    RunInput |-> [profile |-> {"LOCAL", "HOSTED"}, output |-> {"local", "REMOTE"}]]

ChoicesOf(c) == IF c \in DOMAIN Choices THEN Choices[c] ELSE <<>>

\* What documents of other releases hold under a key, and this one never writes.
Respelled == [
    ExplainReport |-> [race_class |-> {"RAW"}],
    TraceOptions |-> [instrument_modes |-> {"primary"}],
    ExperimentRequest |-> [instrument_modes |-> {"primary"}],
    ReduceExperimentResult |-> [outcome |-> {"replay_failed", "failed"}],
    TraceAnalysisEvidence |-> [schema_version |-> {"other"}],
    ExperimentEnvelope |-> [schema_version |-> {"other"}, dispatch_key |-> {"other"}],
    ExperimentDispatchBinding |-> [dispatch_key |-> {"other"}],
    AnalysisSession |-> [schema_version |-> {"older", "ancient", "newer"}],
    RunInput |-> [unit |-> {"older"}, budget |-> {"older"}]]

RespelledOf(c) == IF c \in DOMAIN Respelled THEN Respelled[c] ELSE <<>>

\* The readers of the enums and of nested documents: legacy spellings become
\* the current value, a list that names only the primary mode becomes empty, an
\* older session is stamped with the current version, a nested document gets
\* the keys it lacks.
FromWire(k, v) ==
    CASE k = "race_class" /\ v = "RAW" -> "raw"
      [] k = "outcome" /\ v = "replay_failed" -> "NON_REPRODUCIBLE"
      [] k = "outcome" /\ v = "failed" -> "INFRA_ERROR"
      [] k = "instrument_modes" /\ v = "primary" -> "dflt"
      [] k = "schema_version" /\ v = "older" -> "current"
      [] k \in {"unit", "budget"} /\ v = "older" -> "set"
      [] OTHER -> v

\* _derived_reproduction_rate: "set" counts are 2 completed and 1 reproduced.
DerivedRate(completed, reproduced) ==
    IF completed = "set" /\ reproduced = "set" THEN "set" ELSE "dflt"

\* What __post_init__ demands of the counts behind a reproduction rate.
CountsFit(o) ==
    /\ o["reproductions"] = "set" => o["completed_trials"] = "set"
    /\ o["reproduction_rate"] = DerivedRate(o["completed_trials"], o["reproductions"])

\* The outcome, the status and the evidence of a discovery belong together.
DiscoveryFits(o) ==
    IF o["outcome"] = "DISCOVERED"
    THEN /\ o["execution_status"] = "SUCCEEDED" /\ o["error"] = "dflt"
         /\ o["discovery"] = "set" /\ o["manifest_artifact"] = "set"
    ELSE /\ o["execution_status"] \in (IF o["outcome"] = "NO_KERNELS" THEN {"FAILED"}
                                       ELSE {"INFRA_ERROR", "TIMED_OUT"})
         /\ o["discovery"] = "dflt" /\ o["manifest_artifact"] = "dflt"
         /\ o["error"] = "set"

\* A spec carries the options of its kind; discovery runs on an unpinned
\* target, and a reduction only with the approved oracle it was captured with.
SpecFits(o) ==
    /\ o[o["kind"]] = "set"
    /\ o["kind"] = "discovery" => o["unit"] = "target"
    /\ o["kind"] = "reduction" => o["unit"] = "approved"

\* __post_init__: the combinations each contract refuses.
Constructible(c, o) ==
    /\ c = "TriggeringDelayConfig" => CountsFit(o)
    /\ c = "StressTestResult" =>
           /\ CountsFit(o)
           /\ o["unattributed_reproductions"] = "set" => o["completed_trials"] = "set"
    /\ c = "SuppressionRule" => ~(o["permanent"] = "set" /\ o["expires_on"] = "set")
    /\ c = "TraceSelector" => ~(o["warp_id"] = "set" /\ o["warpgroup_id"] = "set")
    /\ c = "TraceOptions" =>
           (o["selector"] = "sourced") = (o["config_artifact"] = "set")
    /\ c = "ExperimentSpec" => SpecFits(o)
    /\ c = "KernelDiscoveryManifest" =>
           o["kernels"] = "set" /\ o["event_artifacts"] = "set"
    /\ c = "KernelDiscoveryResult" => DiscoveryFits(o)
    /\ c = "TraceAnalysisFinding" =>
           (o["source_locations"] = "set" => o["pcs"] = "set")
    /\ c = "TraceAnalysisEvidence" =>
           (o["findings"] = "set" => o["total_findings"] = "some")
    /\ c = "ExperimentRequest" =>
           \/ o["kind"] = "trace"
           \/ o["trace_selector"] = "dflt" /\ o["instrument_modes"] = "dflt"
    /\ c = "AnalysisDecision" =>
           IF o["kind"] = "FINAL" THEN o["report"] = "set" ELSE o["requests"] = "set"
    /\ c = "RunOutput" => (o["mode"] = "FILE") = (o["path"] = "set")
    /\ c = "RunInput" => (o["profile"] = "LOCAL") = (o["output"] = "local")
    /\ c \in {"TraceAnalysisEvidence", "ExperimentEnvelope"} =>
           o["schema_version"] = "current"
    /\ c = "AnalysisSession" => o["schema_version"] # "ancient"
    /\ "dispatch_key" \in DOMAIN o => o["dispatch_key"] = "set"

\* TraceExperimentResult.__post_init__: trace is an alias of traces[0].
Normal(c, o) ==
    IF c # "TraceExperimentResult" THEN o
    ELSE [o EXCEPT
             !["traces"] = IF o["trace"] = "set" /\ @ = "dflt" THEN "one" ELSE @,
             !["trace"] = IF o["traces"] # "dflt" THEN "set" ELSE @]

-----------------------------------------------------------------------------
\* RunInput._payload: what the digest of an immutable input is taken over.
Payload(d) == [k \in DOMAIN d \ {"input_digest"} |-> d[k]]

\* to_dict: the keys a document is written with.
Written(c, o, k) ==
    \/ k \notin KeptOf(c)
    \/ o[k] # "dflt"
    \/ c = "TraceAnalysisEvidence" /\ \E g \in KeptOf(c) : o[g] # "dflt"

Encode(c, o) == LET keys == {k \in Fields(c) : Written(c, o, k)}
                IN  [k \in keys |-> o[k]]

\* Mutant: a session without a publication status has not published.
DefaultUnpublished(c, d, k) ==
    CASE c = "AnalysisSession" /\ k = "report_publication" -> "NOT_READY"
      [] c = "AnalysisSession" /\ k = "schema_version" -> "current"
      [] c = "TraceExperimentResult" /\ k = "mode" -> d["kind"]
      [] k = "reproduction_rate" ->
             IF {"completed_trials", "reproductions"} \subseteq DOMAIN d
             THEN DerivedRate(d["completed_trials"], d["reproductions"]) ELSE "dflt"
      [] OTHER -> "dflt"

\* from_dict: the value of a key the document d does not have.  A session that
\* ended before publication was tracked counts as published.
Default(c, d, k) ==
    CASE c = "AnalysisSession" /\ k = "report_publication" ->
             IF d["status"] = "ended" THEN "PUBLISHED" ELSE "NOT_READY"
      [] c = "AnalysisSession" /\ k = "schema_version" -> "current"
      [] c = "TraceExperimentResult" /\ k = "mode" -> d["kind"]
      [] k = "reproduction_rate" ->
             IF {"completed_trials", "reproductions"} \subseteq DOMAIN d
             THEN DerivedRate(d["completed_trials"], d["reproductions"]) ELSE "dflt"
      [] OTHER -> "dflt"

\* from_dict: the object a document is read as, or none.  Unknown keys are
\* dropped, except by RunSessionSummary, which hands every key to its
\* constructor; RunInput recomputes the digest over what it read.
Decode(c, d, digest) ==
    LET read == Normal(c, [k \in Fields(c) |->
                    IF k \in DOMAIN d THEN FromWire(k, d[k]) ELSE Default(c, d, k)])
    IN  IF /\ Schemas[c].need \subseteq DOMAIN d
           /\ c = "RunSessionSummary" => DOMAIN d \subseteq Fields(c)
           /\ Constructible(c, read)
           /\ c = "RunInput" => Payload(read) = digest
        THEN {read} ELSE {}

-----------------------------------------------------------------------------
\* Objects the program builds: everything at its default or everything set, up
\* to one key, with every choice; constructed, so normal and not refused.
Picks(c) ==
    {g \in [DOMAIN ChoicesOf(c) -> UNION {ChoicesOf(c)[k] : k \in DOMAIN ChoicesOf(c)}] :
        \A k \in DOMAIN ChoicesOf(c) : g[k] \in ChoicesOf(c)[k]}

Build(c, g, base, odd) ==
    [k \in Fields(c) |->
        IF k \in DOMAIN ChoicesOf(c) THEN g[k]
        ELSE IF k \in Schemas[c].need THEN "set"
        ELSE IF k # odd THEN base
        ELSE IF base = "dflt" THEN "set" ELSE "dflt"]

WireInit ==
    /\ contract \in DOMAIN Schemas
    /\ \E g \in Picks(contract), base \in {"dflt", "set"}, odd \in Fields(contract) :
          object = Normal(contract, Build(contract, g, base, odd))
    /\ Constructible(contract, object)
    /\ doc = <<>> /\ hashed = <<>> /\ reading = {} /\ stage = "held"

Write(d) == doc' = d /\ hashed' = Payload(d) /\ stage' = "saved"

Save ==
    /\ stage = "held"
    /\ Write(Encode(contract, object))
    /\ UNCHANGED <<contract, object, reading>>

\* Bound: an older document lacks one or two of the keys of this release.
Losses(keys) == {{a, b} : a, b \in keys}

\* An earlier release wrote the object without the keys it did not have.
SaveOlder ==
    /\ stage = "held"
    /\ LET keys == DOMAIN Encode(contract, object)
       IN  \E gone \in Losses(keys) : Write([k \in keys \ gone |-> object[k]])
    /\ UNCHANGED <<contract, object, reading>>

\* Another release wrote one key in a spelling of its own.
SaveRespelled ==
    /\ stage = "held"
    /\ \E k \in DOMAIN RespelledOf(contract) : \E v \in RespelledOf(contract)[k] :
          Write([x \in DOMAIN Encode(contract, object) \cup {k} |->
                    IF x = k THEN v ELSE object[x]])
    /\ UNCHANGED <<contract, object, reading>>

\* A later release wrote a key this one does not know.
SaveNewer ==
    /\ stage = "held"
    /\ Write([k \in DOMAIN Encode(contract, object) \cup {"of_a_later_release"} |->
                 IF k \in Fields(contract) THEN object[k] ELSE "set"])
    /\ UNCHANGED <<contract, object, reading>>

Read ==
    /\ stage = "saved"
    /\ reading' = Decode(contract, doc, hashed)
    /\ stage' = "read"
    /\ UNCHANGED <<contract, object, doc, hashed>>

\* The process goes on with what it read, and saves it.
Resave ==
    /\ stage = "read"
    /\ \E o \in reading : object' = o /\ Write(Encode(contract, o))
    /\ UNCHANGED <<contract, reading>>

WireNext == Save \/ SaveOlder \/ SaveRespelled \/ SaveNewer \/ Read \/ Resave

WireSpec == WireInit /\ [][WireNext]_wvars

-----------------------------------------------------------------------------
\* A document this release wrote reads back as the object it was written from,
\* a resaved one included; one of another release is refused or agrees with the
\* document on every key it has; and a session that ended before publication was
\* tracked is not published a second time.
ReadsBack == stage = "read" =>
    /\ doc = Encode(contract, object) => reading = {object}
    /\ \A o \in reading : \A k \in DOMAIN doc \cap Fields(contract) :
          o[k] = FromWire(k, doc[k])
    /\ contract = "AnalysisSession" /\ "report_publication" \notin DOMAIN doc =>
          \A o \in reading : (o["status"] = "ended") = (o["report_publication"] = "PUBLISHED")
=============================================================================
