--------------------------- MODULE StressCampaign ---------------------------
(***************************************************************************)
(* A random-delay stress campaign: a schedule of trials, each one run of   *)
(* the target under injected delays, until one reproduces the bug.  The    *)
(* service runs a campaign in a worker that may die; after every trial it  *)
(* publishes the log and the triggering configuration and then reports its *)
(* progress, from which a later worker resumes.  The command line runs a   *)
(* campaign in one process, after a control arm without delays.            *)
(*                                                                         *)
(* A log is the sequence of the trials written to it; its size in bytes is *)
(* the number of its trials.                                               *)
(***************************************************************************)
EXTENDS Naturals, Sequences, FiniteSets

CONSTANTS Planned,          \* planned_trials
          Callers,          \* {TRUE, FALSE}, or one of them: see `service`
          BaselineRuns,     \* --baseline-runs of the command line
          HangIsBug,        \* hang_is_bug
          AnyCodeIsClean,   \* not_interesting_exit_codes is empty
          Targeted,         \* a warpgroup or an isolate target is set
          MaxCrashes,       \* bound: deaths of a worker
          MaxFaults         \* bound: file or callback operations that fail

ASSUME CampaignAssumption ==
    /\ Planned \in Nat \ {0} /\ {BaselineRuns, MaxCrashes, MaxFaults} \subseteq Nat
    /\ {HangIsBug, AnyCodeIsClean, Targeted} \cup Callers \subseteq BOOLEAN

VARIABLES
    service,    \* whether the service's adapter runs it, or the command line
    stopOnFirst,\* stop_on_first
    phase,      \* where the worker is; "idle" without one
    arm,        \* control runs so far
    counts,     \* run_stress's counters
    trig,       \* the trial whose configuration is `triggering`, or 0
    trial,      \* the trial that has run and is not in the log yet
    log,        \* stress.log of the attempt directory
    hasLog,     \* log_path is not None
    fresh,      \* the log and trigger published in this round, and its errors
    closing,    \* the round is the one after the last trial
    core,       \* the adapter's latest_core: its counters
    latest,     \* the adapter's latest
    pub,        \* stress.log of out_dir
    pubTrigs,   \* trials whose configuration is in out_dir
    saved,      \* the last progress the caller has persisted
    result,     \* the terminal result
    crashes, faults

worker == <<arm, counts, trig, trial, log, hasLog, fresh, closing, core, latest>>
disk == <<pub, pubTrigs, saved>>
input == <<service, stopOnFirst>>
vars == <<input, phase, worker, disk, result, crashes, faults>>

None == [none |-> TRUE]
NoTally == <<0, 0>>
NoRound == [log |-> 0, trig |-> 0, tally |-> NoTally, failed |-> FALSE]
Zero == [completed |-> 0, repro |-> 0, infra |-> 0, timed |-> 0, unattr |-> 0]

-----------------------------------------------------------------------------
(***************************************************************************)
(* One trial.  How the target ended, whether CUTracer's watchdog ended a   *)
(* kernel, what the dumped delay configuration is, and whether a launch    *)
(* that has the targeted warps was recorded.                               *)
(***************************************************************************)
Runs == [end : {"zero", "clean_code", "other_code", "timeout", "not_started"},
         hang : BOOLEAN,
         config : {"missing", "unreadable", "invalid", "no_points", "valid"},
         launched : BOOLEAN]

Hung(r) == r.hang /\ HangIsBug
Interesting(r) == Hung(r) \/ r.end = "zero"
CleanExit(r) == r.end = "clean_code" \/ (AnyCodeIsClean /\ r.end = "other_code")

\* _validate_delay_config and _validate_target_launch.
Validated(r) == r.config = "valid" /\ (Targeted => r.launched)

\* _run_attempt_in_output_dir: what the trial counts as.
AttemptKind(r) ==
    CASE r.end = "not_started" -> "infra"
      [] r.end = "timeout" /\ ~Hung(r) -> "timeout"
      [] r.end # "not_started" /\ ~(r.end = "timeout" /\ ~Hung(r)) ->
            IF ~Interesting(r) /\ ~CleanExit(r) THEN "infra"
            ELSE IF Interesting(r) /\ r.config = "no_points" THEN "unattributed"
            ELSE IF ~Validated(r) THEN "infra"
            ELSE IF Interesting(r) THEN "hit" ELSE "clean"

\* The counters after one more trial of a kind.
Counted(c, kind) ==
    [completed |-> c.completed + (IF kind \in {"clean", "hit", "unattributed"} THEN 1 ELSE 0),
     repro |-> c.repro + (IF kind = "hit" THEN 1 ELSE 0),
     infra |-> c.infra + (IF kind = "infra" THEN 1 ELSE 0),
     timed |-> c.timed + (IF kind = "timeout" THEN 1 ELSE 0),
     unattr |-> c.unattr + (IF kind = "unattributed" THEN 1 ELSE 0)]

Attempted(c) == c.completed + c.infra + c.timed

\* The counts _triggering_delay_config writes into the trigger it publishes.
Tally(c) == <<c.completed, c.repro>>

-----------------------------------------------------------------------------
(***************************************************************************)
(* The control arm: the same instrumentation with every delay off.         *)
(***************************************************************************)
ControlKinds(r) ==
    CASE Hung(r) -> "repro"
      [] ~Hung(r) /\ r.end = "timeout" -> "timeout"
      [] ~Hung(r) /\ r.end = "zero" -> "repro"
      [] ~Hung(r) /\ CleanExit(r) -> "clean"
      [] OTHER -> "infra"

\* The service asks for no control runs.
Baseline == IF service THEN 0 ELSE BaselineRuns
ControlCount(S) == Cardinality({k \in DOMAIN arm : arm[k] \in S})

\* _attribution.
Attribution ==
    CASE Baseline = 0 -> "no_baseline"
      [] Baseline > 0 /\ ControlCount({"repro"}) > 0 -> "natural"
      [] Baseline > 0 /\ ControlCount({"repro"}) = 0 ->
            IF ControlCount({"clean", "repro"}) < Baseline THEN "baseline_incomplete"
            ELSE IF trig = 0 THEN "not_reproduced" ELSE "attributed"

-----------------------------------------------------------------------------
Init ==
    /\ service \in Callers /\ stopOnFirst \in BOOLEAN
    /\ phase = "idle" /\ arm = <<>> /\ counts = Zero /\ trig = 0 /\ trial = None
    /\ log = <<>> /\ hasLog = FALSE /\ fresh = NoRound /\ closing = FALSE
    /\ core = None /\ latest = None
    /\ pub = <<>> /\ pubTrigs = {} /\ saved = None
    /\ result = None /\ crashes = 0 /\ faults = 0

\* The checks of _resume_core_result, run_stress and _prepare_stress_log.
Resumable(p) ==
    /\ p.counts.repro + p.counts.unattr <= p.counts.completed
    /\ Attempted(p.counts) <= Planned
    /\ (p.trig # 0) <=> (p.counts.repro > 0)
    /\ p.trig # 0 => p.trig \in pubTrigs
    /\ Attempted(p.counts) > 0 => p.log > 0 /\ p.log <= Len(pub)

\* A campaign without progress.
StartFresh ==
    /\ phase = "idle" /\ saved = None
    /\ phase' = IF Baseline > 0 THEN "control" ELSE "search"
    /\ arm' = <<>> /\ counts' = Zero /\ trig' = 0 /\ trial' = None
    /\ log' = <<>> /\ hasLog' = FALSE /\ fresh' = NoRound /\ closing' = FALSE
    /\ core' = None /\ latest' = None
    /\ UNCHANGED <<disk, result, crashes, faults>>

\* The log a resumed campaign goes on with: the prefix the progress was saved
\* with.  Mutant: the whole file.
WholeLog(p) == pub
DurablePrefix(p) == SubSeq(pub, 1, p.log)

\* A new worker resumes from the progress the last one had saved.
Resume ==
    /\ phase = "idle" /\ saved # None
    /\ latest' = saved /\ core' = None
    /\ arm' = <<>> /\ trial' = None /\ fresh' = NoRound /\ closing' = FALSE
    /\ counts' = saved.counts /\ trig' = saved.trig
    /\ log' = IF Resumable(saved) THEN DurablePrefix(saved) ELSE <<>>
    /\ hasLog' = Resumable(saved)
    /\ phase' = IF Resumable(saved) THEN "search" ELSE "recover"
    /\ UNCHANGED <<disk, result, crashes, faults>>

\* _run_baseline, one control run; the last one writes the control log.
ControlRun ==
    /\ phase = "control"
    /\ \E r \in Runs :
         /\ r.end # "not_started"
         /\ arm' = Append(arm, ControlKinds(r))
    /\ phase' = IF Len(arm') = Baseline THEN "search" ELSE "control"
    /\ hasLog' = (Len(arm') = Baseline)
    /\ UNCHANGED <<counts, trig, trial, log, fresh, closing, core, latest, disk, result,
                   crashes, faults>>

\* A control run that cannot be started, or a control log that cannot be
\* written, ends the command.
ControlFails ==
    /\ phase = "control"
    /\ phase' = "failed"
    /\ UNCHANGED <<worker, disk, result, crashes, faults>>

\* The loop over the schedule goes on.
MoreTrials ==
    /\ Attempted(counts) < Planned
    /\ ~(stopOnFirst /\ trig # 0)

\* The next trial of schedule[attempted_trials:].
RunTrial ==
    /\ phase = "search" /\ MoreTrials
    /\ \E kind \in {AttemptKind(r) : r \in Runs} :
         /\ trial' = [pos |-> Attempted(counts) + 1, kind |-> kind]
         /\ counts' = Counted(counts, kind)
         /\ trig' = IF kind = "hit" /\ trig = 0 THEN Attempted(counts) + 1 ELSE trig
    /\ phase' = "log"
    /\ UNCHANGED <<arm, log, hasLog, fresh, closing, core, latest, disk, result, crashes, faults>>

\* _write_stress_log: the trial is appended, or the write fails, is rolled back
\* and the progress is handed to the adapter without a log.
WriteLog ==
    /\ phase = "log"
    /\ trial' = None
    /\ \/ /\ log' = Append(log, trial) /\ hasLog' = TRUE
          /\ phase' = IF service THEN "publish" ELSE "search"
          /\ UNCHANGED faults
       \/ /\ faults < MaxFaults /\ faults' = faults + 1
          /\ hasLog' = FALSE
          /\ phase' = IF service THEN "publish" ELSE "failed"
          /\ UNCHANGED log
    /\ UNCHANGED <<arm, counts, trig, fresh, closing, core, latest, disk, result, crashes>>

\* The schedule is done or stopped: one more round of publication, or the
\* command line's report.
Close ==
    /\ phase = "search" /\ ~MoreTrials
    /\ closing' = TRUE
    /\ \/ /\ service /\ phase' = "publish"
          /\ UNCHANGED result
       \/ /\ ~service /\ phase' = "ended"
          /\ result' = [outcome |-> "report", status |-> "succeeded",
                        completeness |-> "unknown", counts |-> counts, trig |-> trig,
                        tally |-> Tally(counts), log |-> Len(log), attribution |-> Attribution]
    /\ UNCHANGED <<arm, counts, trig, trial, log, hasLog, fresh, core, latest, disk,
                   crashes, faults>>

-----------------------------------------------------------------------------
(***************************************************************************)
(* Publication, after every trial (_publish_progress_artifacts) and at the *)
(* end (_publish_stress_artifacts).  Both publish the log, then the        *)
(* trigger, each atomically, and go on after an error.                     *)
(***************************************************************************)
PublishLog ==
    /\ phase = "publish"
    /\ phase' = "trigger"
    /\ core' = IF closing THEN core ELSE counts
    /\ \/ /\ hasLog
          /\ pub' = log
          /\ fresh' = [NoRound EXCEPT !.log = Len(log)]
          /\ UNCHANGED faults
       \/ /\ hasLog /\ faults < MaxFaults
          /\ faults' = faults + 1
          /\ fresh' = [NoRound EXCEPT !.failed = TRUE]
          /\ UNCHANGED pub
       \/ /\ ~hasLog
          /\ fresh' = [NoRound EXCEPT !.failed = TRUE]
          /\ UNCHANGED <<pub, faults>>
    /\ UNCHANGED <<arm, counts, trig, trial, log, hasLog, closing, latest, pubTrigs, saved,
                   result, crashes>>

\* Mutant of PublishTrigger: a failed round is tried again until it works.
PublishTriggerRetries ==
    /\ phase = "trigger"
    /\ \/ /\ trig = 0
          /\ phase' = IF closing THEN "classify" ELSE "adapt"
          /\ UNCHANGED <<fresh, pubTrigs>>
       \/ /\ trig # 0
          /\ phase' = IF closing THEN "classify" ELSE "adapt"
          /\ pubTrigs' = pubTrigs \cup {trig}
          /\ fresh' = [fresh EXCEPT !.trig = trig, !.tally = Tally(counts)]
       \/ /\ trig # 0
          /\ phase' = "publish" /\ fresh' = NoRound
          /\ UNCHANGED pubTrigs
    /\ UNCHANGED <<arm, counts, trig, trial, log, hasLog, closing, core, latest, pub, saved,
                   result, crashes, faults>>
PublishTrigger ==
    /\ phase = "trigger"
    /\ phase' = IF closing THEN "classify" ELSE "adapt"
    /\ \/ /\ trig = 0
          /\ UNCHANGED <<fresh, pubTrigs, faults>>
       \/ /\ trig # 0
          /\ pubTrigs' = pubTrigs \cup {trig}
          /\ fresh' = [fresh EXCEPT !.trig = trig, !.tally = Tally(counts)]
          /\ UNCHANGED faults
       \/ /\ trig # 0 /\ faults < MaxFaults
          /\ faults' = faults + 1
          /\ fresh' = [fresh EXCEPT !.failed = TRUE]
          /\ UNCHANGED pubTrigs
    /\ UNCHANGED <<arm, counts, trig, trial, log, hasLog, closing, core, latest, pub, saved,
                   result, crashes>>

\* What is new, and for what could not be published what the last progress had.
WithFallback ==
    [log |-> IF fresh.log # 0 \/ latest = None THEN fresh.log ELSE latest.log,
     trig |-> IF fresh.trig # 0 \/ latest = None THEN fresh.trig ELSE latest.trig,
     tally |-> IF fresh.trig # 0 \/ latest = None THEN fresh.tally ELSE latest.tally]

\* _adapt_core_progress and _StressProgressAdapter.__call__: an error of the
\* publication is raised before the progress is reported.
Adapt ==
    /\ phase = "adapt"
    /\ latest' = [counts |-> counts, log |-> WithFallback.log, trig |-> WithFallback.trig,
                  tally |-> WithFallback.tally]
    /\ phase' = IF fresh.failed THEN "recover" ELSE "callback"
    /\ UNCHANGED <<arm, counts, trig, trial, log, hasLog, fresh, closing, core, disk,
                   result, crashes, faults>>

\* progress_callback: the caller persists the progress, or raises and may have
\* persisted it.
Callback ==
    /\ phase = "callback"
    /\ \/ /\ saved' = latest /\ phase' = "search"
          /\ UNCHANGED faults
       \/ /\ faults < MaxFaults /\ faults' = faults + 1
          /\ saved' \in {saved, latest} /\ phase' = "recover"
    /\ UNCHANGED <<worker, pub, pubTrigs, result, crashes>>

\* _partial_stress_outcome.  Mutant: it does not ask whether a trial was a hit.
PartialOutcomeAnyHit(t, c) ==
    IF t # 0 THEN "reproduced"
    ELSE IF c.unattr > 0 THEN "unattributed" ELSE "incomplete"
PartialOutcome(t, c) ==
    IF t # 0 THEN "reproduced"
    ELSE IF c.repro = 0 /\ c.unattr > 0 THEN "unattributed" ELSE "incomplete"

Terminal(c, e) ==
    [outcome |-> PartialOutcome(e.trig, c), status |-> "infra_error", completeness |-> "partial",
     counts |-> [c EXCEPT !.infra = @ + 1], trig |-> e.trig, tally |-> e.tally, log |-> e.log,
     attribution |-> Attribution]

\* _recover_stress_progress: run_stress raised; the terminal result keeps what
\* was counted and what the last progress holds.
\* Mutant: the evidence of earlier rounds is left out.
RecoverForgets ==
    /\ phase = "recover"
    /\ result' = Terminal(IF core # None THEN core ELSE Zero, fresh)
    /\ phase' = "ended"
    /\ UNCHANGED <<worker, disk, crashes, faults>>
Recover ==
    /\ phase = "recover"
    /\ result' = Terminal(IF core # None THEN core
                          ELSE IF latest # None THEN latest.counts ELSE Zero,
                          IF latest # None THEN latest ELSE NoRound)
    /\ phase' = "ended"
    /\ UNCHANGED <<worker, disk, crashes, faults>>

\* _campaign_completed.
CampaignCompleted == counts.completed = Planned /\ counts.infra = 0 /\ counts.timed = 0

\* _classify_stress_result.
Classified ==
    LET as(o, s, k) == [outcome |-> o, status |-> s, completeness |-> k, counts |-> counts,
                        trig |-> fresh.trig, tally |-> fresh.tally, log |-> fresh.log,
                        attribution |-> Attribution]
    IN  CASE fresh.trig # 0 ->
               as("reproduced", "succeeded",
                  IF CampaignCompleted THEN "complete"
                  ELSE IF stopOnFirst /\ Attempted(counts) < Planned
                          /\ counts.infra = 0 /\ counts.timed = 0
                       THEN "complete_early" ELSE "partial")
          [] fresh.trig = 0 /\ counts.unattr > 0 ->
               as("unattributed", "succeeded",
                  IF CampaignCompleted THEN "complete" ELSE "partial")
          [] fresh.trig = 0 /\ counts.unattr = 0 ->
               IF CampaignCompleted /\ counts.repro = 0
               THEN as("not_reproduced", "succeeded", "complete")
               ELSE IF counts.infra > 0 THEN as("incomplete", "infra_error", "partial")
               ELSE IF counts.timed > 0 THEN as("incomplete", "timed_out", "partial")
               ELSE as("incomplete", "infra_error", "partial")

\* The end of _run_stress_attempt.
Classify ==
    /\ phase = "classify"
    /\ result' = IF fresh.failed THEN Terminal(counts, WithFallback)
                                 ELSE Classified
    /\ phase' = "ended"
    /\ UNCHANGED <<worker, disk, crashes, faults>>

-----------------------------------------------------------------------------
\* The worker dies.  Its attempt directory is lost.
Crash ==
    /\ service /\ phase \notin {"idle", "ended", "failed"} /\ crashes < MaxCrashes
    /\ crashes' = crashes + 1
    /\ phase' = "idle"
    /\ arm' = <<>> /\ counts' = Zero /\ trig' = 0 /\ trial' = None
    /\ log' = <<>> /\ hasLog' = FALSE /\ fresh' = NoRound /\ closing' = FALSE
    /\ core' = None /\ latest' = None
    /\ UNCHANGED <<disk, result, faults>>

Stopped == phase \in {"ended", "failed"} /\ UNCHANGED vars

Work == \/ StartFresh \/ Resume \/ ControlRun \/ RunTrial \/ WriteLog \/ Close
        \/ PublishLog \/ PublishTrigger \/ Adapt \/ Callback \/ Recover \/ Classify

Next == (Work \/ ControlFails \/ Crash \/ Stopped) /\ UNCHANGED input

Spec == Init /\ [][Next]_vars

\* A worker is started until there is a result, and every trial has a timeout.
FairSpec == Spec /\ WF_vars(Work /\ UNCHANGED input)

-----------------------------------------------------------------------------
\* The trials a log shows, counted.
Shown(s, kinds) == Cardinality({k \in DOMAIN s : s[k].kind \in kinds})
FirstHit(s) == IF Shown(s, {"hit"}) = 0 THEN 0
               ELSE CHOOSE k \in DOMAIN s :
                      s[k].kind = "hit" /\ \A j \in 1..k - 1 : s[j].kind # "hit"
Explains(s, c, t) ==
    /\ \A k \in DOMAIN s : s[k].pos = k
    /\ stopOnFirst => \A k \in DOMAIN s : s[k].kind = "hit" => k = Len(s)
    /\ c = [completed |-> Shown(s, {"clean", "hit", "unattributed"}),
            repro |-> Shown(s, {"hit"}), infra |-> Shown(s, {"infra"}),
            timed |-> Shown(s, {"timeout"}), unattr |-> Shown(s, {"unattributed"})]
    /\ t = FirstHit(s)

\* Whatever a worker published after its last report and whichever worker died,
\* the log prefix a persisted progress names shows the trials 1 to n of the
\* schedule, once each and none after a hit that stops the campaign, and they
\* are exactly what the progress counted (_StressProgressAdapter, _prepare_stress_log).
ProgressIsExplained ==
    saved # None => saved.log <= Len(pub) /\ Explains(SubSeq(pub, 1, saved.log), saved.counts, saved.trig)

\* A terminal result rests on what was published.  A trustworthy
\* non-reproduction (has_trustworthy_non_reproduction): the log shows every
\* planned trial once, and all were clean.  A reproduction: its configuration
\* is that of a trial counted as a hit.  And a reproduction whose progress was
\* persisted is never lost to a later failure (_recover_stress_progress); one
\* attributed to the delays has a control arm that was clean throughout.
VerdictIsEarned ==
    result # None =>
        /\ result.outcome = "not_reproduced" =>
               pub = [k \in 1..Planned |-> [pos |-> k, kind |-> "clean"]]
        /\ (service /\ result.outcome = "reproduced") =>
               result.trig \in pubTrigs /\ result.counts.repro > 0
        /\ (saved # None /\ saved.trig # 0) =>
               result.outcome = "reproduced" /\ result.trig = saved.trig
        /\ result.attribution = "attributed" =>
               result.trig # 0 /\ arm = [k \in 1..Baseline |-> "clean"]

\* What session.py asks of a stress result: _validate_stress_counts,
\* _validate_stress_outcome and _validate_stress_completeness.
CountsInPlan(r) == /\ r.counts.repro + r.counts.unattr <= r.counts.completed
                   /\ r.counts.completed + r.counts.timed <= Planned

OutcomeFits(r) ==
    /\ r.trig # 0 => r.counts.repro > 0
    /\ CASE r.outcome = "reproduced" -> r.trig # 0
         [] r.outcome = "unattributed" -> r.counts.unattr > 0 /\ r.counts.repro = 0 /\ r.trig = 0
         [] r.outcome = "not_reproduced" ->
              /\ r.status = "succeeded" /\ r.completeness = "complete"
              /\ r.counts = [Zero EXCEPT !.completed = Planned]
         [] r.outcome = "incomplete" -> r.completeness \notin {"complete", "complete_early"}

CompletenessFits(r) ==
    CASE r.completeness = "complete" ->
           r.counts.completed = Planned /\ r.counts.infra = 0 /\ r.counts.timed = 0
      [] r.completeness = "complete_early" ->
           /\ r.outcome = "reproduced" /\ stopOnFirst
           /\ r.counts.completed < Planned /\ r.counts.infra = 0 /\ r.counts.timed = 0
      [] r.completeness = "partial" -> TRUE

\* _validate_triggering_config: the trigger was counted as the result is.
TriggerFits(r) == r.trig # 0 => r.tally = Tally(r.counts)

\* The session accepts every terminal result the adapter builds, whichever of
\* its pieces come from an earlier round or an earlier worker; of the counts
\* in the trigger that is so for a campaign that stops at its first hit
\* (_validate_stress_result).
StressAccepted ==
    (service /\ result # None) =>
        /\ CountsInPlan(result) /\ OutcomeFits(result) /\ CompletenessFits(result)
        /\ stopOnFirst => TriggerFits(result)

\* A worker's campaign ends with a result, in spite of crashes and failures.
CampaignEnds == <>(phase \in {"ended", "failed"})
=============================================================================
