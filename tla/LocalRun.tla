------------------------------ MODULE LocalRun ------------------------------
(***************************************************************************)
(* LocalBackend (python/cutracer/service/local_workflow.py): processes run *)
(* and resume one diagnosis Run in the foreground.  The Run's execution    *)
(* lock admits one driver at a time and dies with it; everything else is   *)
(* files: the Run record, one file per session, the output file.  A driver *)
(* may be killed between any two writes, the deadline may pass at any      *)
(* moment.                                                                 *)
(***************************************************************************)
EXTENDS DiscoverySession

CONSTANTS
    Drivers,        \* processes that run or resume the Run
    Identities,     \* the runtimes a driver may be configured with
    Inputs,         \* the requests the Run may be started with
    Root,           \* the session id of the Run's root
    NoVal,          \* an absent file, lock holder, identity or summary
    MaxCrashes,     \* bound: drivers killed
    MaxRevision     \* bound: the revision of the Run record stops counting here

Ids == {Root} \cup Kernels

(* What the files hold: sessions, pinned or parents of a discovery, the    *)
(* Run's summary and record, and the output file.                          *)
AnyExperiment == Experiments \cup {Discovery}
AnyResult == [id : AnyExperiment, payload : Payloads \cup {"discovered", "undiscovered"}]

Core == [state_revision : Nat, status : Statuses \cup {"WAITING_CHILDREN"},
         pending : SUBSET AnyExperiment, completed : SUBSET AnyExperiment,
         evidence : SUBSET AnyResult, fingerprints : SUBSET AnyExperiment,
         submitted : Nat, round_index : Nat, report_publication : Publications]

StoredSession == [core : Core, manifest : SUBSET Kernels, children : SUBSET Kernels]

SummaryRow == [status : Statuses \cup {"WAITING_CHILDREN", "not_started"},
               publication : Publications]

RunSummary == [status : {"RUNNING", "EXPIRED", "FAILED", "COMPLETED"},
               publication : {"NOT_REQUESTED", "PENDING", "PUBLISHED", "FAILED"},
               rows : UNION {[ids -> SummaryRow] : ids \in SUBSET Ids}]

Requests == [mode : {"RETURN_ONLY", "FILE"}, pinned : BOOLEAN]

RunControl == [revision : Nat, input : Requests, identity : Identities \cup {NoVal},
               summary : RunSummary \cup {NoVal}]

Report == [id : Ids, status : Statuses \cup {"WAITING_CHILDREN"}, evidence : SUBSET AnyResult]

OutputFile == [summary : RunSummary, reports : SUBSET Report]

ASSUME LocalAssumption ==
    /\ Root \notin Kernels
    /\ Inputs \subseteq Requests
    /\ MaxCrashes \in Nat
    /\ MaxRevision \in Nat
    /\ NoVal \notin Drivers \cup Identities
    /\ NoVal \notin {"PENDING", "PUBLISHED", "FAILED"}
    /\ NoVal \notin StoredSession /\ NoVal \notin RunSummary
    /\ NoVal \notin RunControl /\ NoVal \notin OutputFile

VARIABLES
    control,    \* RunControl: input, backend identity, summary
    store,      \* session id -> stored session
    file,       \* what the output file holds
    lock,       \* holder of the execution lock
    late,       \* the deadline has passed
    runtime,    \* the runtime each driver is configured with
    pc, cur,    \* each driver: where it is, the session it drives and owes
    todo,       \* each driver: the children it has still to create or drive
    res,        \* each driver: the summary it has computed
    rev,        \* each driver: the revision of the Run record it works from
    crashes,
    clash       \* history: some compare-and-swap of a driver was refused

driver == <<pc, runtime, cur, todo, res, rev>>
vars == <<control, store, file, lock, late, driver, crashes, clash>>

Idle == [id |-> Root, rec |-> NoVal, effect |-> "NONE"]

Init ==
    /\ control = NoVal /\ store = [i \in Ids |-> NoVal] /\ file = NoVal
    /\ lock = NoVal /\ late = FALSE /\ crashes = 0
    /\ pc = [d \in Drivers |-> "idle"] /\ cur = [d \in Drivers |-> Idle]
    /\ todo = [d \in Drivers |-> {}] /\ res = [d \in Drivers |-> NoVal]
    /\ rev = [d \in Drivers |-> 0] /\ runtime = [d \in Drivers |-> NoVal]
    /\ clash = FALSE

Bump(n) == IF n < MaxRevision THEN n + 1 ELSE n

Goto(d, at) == pc' = [pc EXCEPT ![d] = at]

(* Mutant: the lock outlives its holder.                                   *)
LeaveLocked(d) ==
    /\ Goto(d, "idle")
    /\ cur' = [cur EXCEPT ![d] = Idle] /\ todo' = [todo EXCEPT ![d] = {}]
    /\ res' = [res EXCEPT ![d] = NoVal] /\ rev' = [rev EXCEPT ![d] = 0]
    /\ runtime' = [runtime EXCEPT ![d] = NoVal]
    /\ UNCHANGED lock

(* Leaving the execution context, by return, by exception or by death.     *)
Leave(d) ==
    /\ Goto(d, "idle")
    /\ cur' = [cur EXCEPT ![d] = Idle] /\ todo' = [todo EXCEPT ![d] = {}]
    /\ res' = [res EXCEPT ![d] = NoVal] /\ rev' = [rev EXCEPT ![d] = 0]
    /\ runtime' = [runtime EXCEPT ![d] = NoVal]
    /\ lock' = IF lock = d THEN NoVal ELSE lock

-----------------------------------------------------------------------------
(* build_run_summary.                                                      *)

Present(ids) == {i \in ids : store[i] # NoVal}
Status(i) == store[i].core.status

(* expected_run_units: the root, and a child per kernel of its manifest.   *)
Expected == {Root} \cup (IF store[Root] = NoVal THEN {} ELSE store[Root].manifest)

(* summarize_session, or the row of a session that was not started.        *)
Row(i) ==
    IF store[i] = NoVal THEN [status |-> "not_started", publication |-> "NOT_READY"]
    ELSE [status |-> Status(i), publication |-> store[i].core.report_publication]

(* Mutant: only the sessions that exist are asked for.                     *)
SummaryOfPresent(input, ids, publication) ==
    LET active   == \E i \in Present(ids) : Status(i) \notin Terminal
        delivery == IF input.mode = "RETURN_ONLY" THEN "NOT_REQUESTED"
                    ELSE IF publication = NoVal THEN "PENDING" ELSE publication
        pending  == active \/ delivery = "PENDING"
    IN  [status |-> IF pending THEN IF late THEN "EXPIRED" ELSE "RUNNING" ELSE "COMPLETED",
         publication |-> delivery, rows |-> [i \in ids |-> Row(i)]]

BuildRunSummary(input, ids, publication) ==
    LET rootFailed == store[Root] # NoVal /\ Status(Root) = "FAILED"
        missing    == Present(ids) # ids
        active     == \E i \in Present(ids) : Status(i) \notin Terminal
        delivery   == IF input.mode = "RETURN_ONLY" THEN "NOT_REQUESTED"
                      ELSE IF publication = NoVal THEN "PENDING" ELSE publication
        pending    == active \/ (missing /\ ~rootFailed) \/ delivery = "PENDING"
        failed     == \/ \E i \in Present(ids) : Status(i) = "FAILED"
                      \/ delivery = "FAILED"
                      \/ rootFailed /\ missing
    IN  [status |-> IF pending /\ late THEN "EXPIRED"
                    ELSE IF pending THEN "RUNNING"
                    ELSE IF failed THEN "FAILED" ELSE "COMPLETED",
         publication |-> delivery,
         rows |-> [i \in ids |-> Row(i)]]

(* LocalBackend.result                                                     *)
Ended(summary) == summary # NoVal /\ summary.status # "RUNNING"

Result(ctl, ids) ==
    IF Ended(ctl.summary) THEN ctl.summary
    ELSE BuildRunSummary(ctl.input, ids,
                         IF ctl.summary = NoVal THEN NoVal ELSE ctl.summary.publication)

HasReport(i) == store[i] # NoVal /\ store[i].core.report_publication # "NOT_READY"

Reports(ids) ==
    {[id |-> i, status |-> Status(i), evidence |-> store[i].core.evidence] :
        i \in {j \in ids : HasReport(j)}}

-----------------------------------------------------------------------------
(* LocalBackend.run, resume, _bind_backend, _root.                         *)

(* Mutant: the execution lock is not exclusive.                            *)
ExecutionAlways(d) == pc[d] = "idle"

(* FileRunControlStore.execution: LOCK_EX | LOCK_NB.                       *)
Execution(d) == pc[d] = "idle" /\ lock = NoVal

Run(d, b) ==
    /\ Execution(d)
    /\ lock' = d
    /\ IF control # NoVal THEN UNCHANGED control
       ELSE \E input \in Inputs :
               control' = [revision |-> 0, input |-> input,
                           identity |-> NoVal, summary |-> NoVal]
    /\ runtime' = [runtime EXCEPT ![d] = b]
    /\ Goto(d, "bind")
    /\ UNCHANGED <<store, file, late, cur, todo, res, rev, crashes, clash>>

SameBackend(d) == control.identity \in {NoVal, runtime[d]}

BindBackend(d) ==
    /\ pc[d] = "bind"
    /\ IF ~SameBackend(d) THEN Leave(d) /\ UNCHANGED control
       ELSE /\ control' = IF control.identity # NoVal THEN control
                          ELSE [control EXCEPT !.revision = Bump(@), !.identity = runtime[d]]
            /\ rev' = [rev EXCEPT ![d] = control'.revision]
            /\ Goto(d, "root")
            /\ UNCHANGED <<runtime, cur, todo, res, lock>>
    /\ UNCHANGED <<store, file, late, crashes, clash>>

(* A Run with a terminal summary is returned as it is.                     *)
AlreadyEnded(d) ==
    /\ pc[d] = "root" /\ Ended(control.summary)
    /\ Leave(d)
    /\ UNCHANGED <<control, store, file, late, crashes, clash>>

NewRoot ==
    IF control.input.pinned THEN Stored(CreateSession({}).session, {}, {})
    ELSE Stored(CreateDiscoverySession.session, {}, {})

Drive(d, i, rec) ==
    /\ cur' = [cur EXCEPT ![d] = [id |-> i, rec |-> rec, effect |-> Owed(rec)]]
    /\ Goto(d, "drive")

(* Mutant: every run starts from a new root session.                       *)
LoadRootAnew(d) ==
    /\ pc[d] = "root" /\ ~Ended(control.summary)
    /\ store' = [store EXCEPT ![Root] = NewRoot]
    /\ Drive(d, Root, NewRoot)
    /\ UNCHANGED <<control, file, lock, late, runtime, todo, res, rev, crashes, clash>>

LoadRoot(d) ==
    /\ pc[d] = "root" /\ ~Ended(control.summary)
    /\ LET rec == IF store[Root] = NoVal THEN NewRoot ELSE store[Root]
       IN  /\ store' = [store EXCEPT ![Root] = rec]
           /\ Drive(d, Root, rec)
    /\ UNCHANGED <<control, file, lock, late, runtime, todo, res, rev, crashes, clash>>

-----------------------------------------------------------------------------
(* resume_local_session.                                                   *)

(* _SessionCheckpoint.save, then the rest of the drive; a refused swap is  *)
(* an exception that ends the process's work on the Run.                   *)
Save(d, rec, effect, at) ==
    LET i == cur[d].id
        old == cur[d].rec.core.state_revision
        new == [rec EXCEPT !.core = [@ EXCEPT !.state_revision = old + 1]]
    IN  IF store[i] # NoVal /\ store[i].core.state_revision = old
        THEN /\ store' = [store EXCEPT ![i] = new]
             /\ cur' = [cur EXCEPT ![d] = [id |-> i, rec |-> new, effect |-> effect]]
             /\ Goto(d, at)
             /\ UNCHANGED <<runtime, todo, res, rev, lock, clash>>
        ELSE Leave(d) /\ clash' = TRUE /\ UNCHANGED store

(* The deadline is read before every effect and every experiment; what     *)
(* has begun is finished and kept.                                         *)
BeginEffect(d) ==
    /\ pc[d] = "drive" /\ ~late
    /\ cur[d].effect \notin {"NONE", "CREATE_CHILD_SESSIONS"}
    /\ Goto(d, "effect")
    /\ UNCHANGED <<control, store, file, lock, late, runtime, cur, todo, res, rev, crashes, clash>>

DriveReturns(d) ==
    /\ pc[d] = "drive"
    /\ late \/ cur[d].effect \in {"NONE", "CREATE_CHILD_SESSIONS"}
    /\ Goto(d, IF cur[d].id = Root THEN "fanout" ELSE "children")
    /\ UNCHANGED <<control, store, file, lock, late, runtime, cur, todo, res, rev, crashes, clash>>

Effect(d, e) == pc[d] = "effect" /\ cur[d].effect = e

StepRest == UNCHANGED <<control, file, late, crashes>>

(* Batches are lists: discovery comes first, then the campaign's order.    *)
FirstOf(batch) == IF Discovery \in batch THEN Discovery ELSE CHOOSE x \in batch : TRUE

(* _run_experiment_batch: one experiment, accepted and saved before the    *)
(* next one starts.                                                        *)
RunKernelExperiment(d) ==
    /\ Effect(d, "SUBMIT_EXPERIMENTS")
    /\ cur[d].id # Root \/ control.input.pinned
    /\ \E p \in Payloads :
          LET r == [id |-> FirstOf(cur[d].rec.core.pending), payload |-> p]
          IN  \E t \in RecordExperimentResult(cur[d].rec.core, r) :
                 Save(d, [cur[d].rec EXCEPT !.core = t.session],
                      IF t.session.pending # {} THEN "SUBMIT_EXPERIMENTS" ELSE t.effect,
                      "drive")
    /\ StepRest

RunParentExperiment(d) ==
    /\ Effect(d, "SUBMIT_EXPERIMENTS")
    /\ cur[d].id = Root /\ ~control.input.pinned
    /\ LET x == FirstOf(cur[d].rec.core.pending)
       IN  \E p \in IF x = Discovery THEN {"discovered", "undiscovered"} ELSE Payloads,
              m \in Manifests \cup {{}} :
              /\ (m # {}) <=> (p = "discovered")
              /\ LET rec == RecordParentResult(cur[d].rec, [id |-> x, payload |-> p], m)
                 IN  Save(d, rec, Owed(rec), "drive")
    /\ StepRest

Triage(d) ==
    /\ Effect(d, "RUN_TRIAGE")
    /\ \E t \in RecordTriageDecision(cur[d].rec.core) :
          Save(d, [cur[d].rec EXCEPT !.core = t.session], t.effect, "drive")
    /\ StepRest

Reason(d) ==
    /\ Effect(d, "RUN_REASONER")
    /\ \E k \in Decisions : \E t \in RecordAnalysisDecision(cur[d].rec.core, k) :
          Save(d, [cur[d].rec EXCEPT !.core = t.session], t.effect, "drive")
    /\ StepRest

(* The executor, the reasoner or the result's validation fails.            *)
InfrastructureFails(d) ==
    /\ pc[d] = "effect" /\ cur[d].effect \in {"SUBMIT_EXPERIMENTS", "RUN_REASONER"}
    /\ \E t \in RecordInfrastructureFailure(cur[d].rec.core) :
          Save(d, [cur[d].rec EXCEPT !.core = t.session], "NONE", "drive")
    /\ StepRest

(* No sink: handing the report to the caller is its delivery.              *)
PublishReport(d) ==
    /\ Effect(d, "PUBLISH_REPORT")
    /\ \E t \in RecordReportPublished(cur[d].rec.core) :
          Save(d, [cur[d].rec EXCEPT !.core = t.session], t.effect, "drive")
    /\ StepRest

-----------------------------------------------------------------------------
(* _create_children and the loop over the children in _resume.             *)

Fanout(d) ==
    /\ pc[d] = "fanout"
    /\ todo' = [todo EXCEPT ![d] = Expected \ {Root}]
    /\ Goto(d, IF cur[d].rec.core.status = "WAITING_CHILDREN" /\ ~late
               THEN "create" ELSE "children")
    /\ UNCHANGED <<control, store, file, lock, late, runtime, cur, res, rev, crashes, clash>>

(* _ensure_session: a child a previous attempt created is kept.            *)
CreateChild(d) ==
    /\ pc[d] = "create" /\ todo[d] # {}
    /\ LET k == FirstOf(todo[d])
       IN  store' = IF store[k] # NoVal THEN store
                    ELSE [store EXCEPT ![k] = CreateChildSession(cur[d].rec)]
    /\ todo' = [todo EXCEPT ![d] = @ \ {FirstOf(@)}]
    /\ UNCHANGED <<control, file, lock, late, runtime, pc, cur, res, rev, crashes, clash>>

ChildrenStarted(d) ==
    /\ pc[d] = "create" /\ todo[d] = {}
    /\ \E rec \in RecordDiscoveryChildrenStarted(cur[d].rec, cur[d].rec.manifest) :
          Save(d, rec, "NONE", "fanout")
    /\ UNCHANGED <<control, file, late, crashes>>

DriveChild(d) ==
    /\ pc[d] = "children" /\ todo[d] # {}
    /\ todo' = [todo EXCEPT ![d] = @ \ {FirstOf(@)}]
    /\ LET k == FirstOf(todo[d])
       IN  IF store[k] = NoVal THEN UNCHANGED <<pc, cur>> ELSE Drive(d, k, store[k])
    /\ UNCHANGED <<control, store, file, lock, late, runtime, res, rev, crashes, clash>>

-----------------------------------------------------------------------------
(* The end of _resume: result, _publish, the summary.                      *)

DiagnosesFinished(summary) ==
    \/ Ended(summary)
    \/ \A i \in DOMAIN summary.rows : summary.rows[i].status \in Terminal

Summarize(d) ==
    /\ pc[d] = "children" /\ todo[d] = {}
    /\ LET summary == Result(control, Expected)
       IN  /\ res' = [res EXCEPT ![d] = summary]
           /\ Goto(d, IF DiagnosesFinished(summary) /\ control.input.mode = "FILE"
                      THEN "publish" ELSE "store")
    /\ UNCHANGED <<control, store, file, lock, late, runtime, cur, todo, rev, crashes, clash>>

(* _publication_sessions                                                   *)
Unacknowledged ==
    {i \in Present(Expected) : store[i].core.report_publication = "PENDING"}

Acknowledged(i) ==
    [store[i] EXCEPT !.core.report_publication = "PUBLISHED", !.core.state_revision = @ + 1]

(* Mutant: the summary is of the sessions as stored.                       *)
DeliveredStale == BuildRunSummary(control.input, Expected, "PUBLISHED")

(* The delivered summary is of the sessions as acknowledged, which are     *)
(* saved only after the file is written.                                   *)
Delivered ==
    LET s == BuildRunSummary(control.input, Expected, "PUBLISHED")
    IN  [s EXCEPT !.rows = [i \in Expected |->
            IF i \in Unacknowledged THEN [Row(i) EXCEPT !.publication = "PUBLISHED"]
            ELSE Row(i)]]

Publish(d) ==
    /\ pc[d] = "publish"
    /\ file' = [summary |-> Delivered, reports |-> Reports(Expected)]
    /\ res' = [res EXCEPT ![d] = Delivered]
    /\ todo' = [todo EXCEPT ![d] = Unacknowledged]
    /\ Goto(d, "acknowledge")
    /\ UNCHANGED <<control, store, lock, late, runtime, cur, rev, crashes, clash>>

PublishFails(d) ==
    /\ pc[d] = "publish"
    /\ res' = [res EXCEPT ![d] = BuildRunSummary(control.input, Expected, "FAILED")]
    /\ Goto(d, "store")
    /\ UNCHANGED <<control, store, file, lock, late, runtime, cur, todo, rev, crashes, clash>>

(* _SessionCheckpoint.save compares with the revision that was loaded      *)
(* before the file was written (_publication_sessions).  The driver has    *)
(* held the Run's lock since, so the stored session is still the loaded    *)
(* one: the comparison cannot fail and is left out.                        *)
Acknowledge(d) ==
    /\ pc[d] = "acknowledge"
    /\ IF todo[d] = {} THEN Goto(d, "store") /\ UNCHANGED <<store, todo>>
       ELSE \E i \in todo[d] :
               /\ store' = [store EXCEPT ![i] = Acknowledged(i)]
               /\ todo' = [todo EXCEPT ![d] = @ \ {i}]
               /\ UNCHANGED pc
    /\ UNCHANGED <<control, file, lock, late, runtime, cur, res, rev, crashes, clash>>

StoreSummary(d) ==
    /\ pc[d] = "store"
    /\ IF control.revision = rev[d]
       THEN control' = [control EXCEPT !.revision = Bump(@), !.summary = res[d]] /\ UNCHANGED clash
       ELSE clash' = TRUE /\ UNCHANGED control
    /\ Leave(d)
    /\ UNCHANGED <<store, file, late, crashes>>

-----------------------------------------------------------------------------
(* The driver is killed; the operating system releases its lock.           *)
Crash(d) ==
    /\ pc[d] # "idle" /\ crashes < MaxCrashes
    /\ crashes' = crashes + 1
    /\ Leave(d)
    /\ UNCHANGED <<control, store, file, late, clash>>

DeadlinePasses ==
    /\ ~late /\ late' = TRUE
    /\ UNCHANGED <<control, store, file, lock, driver, crashes, clash>>

DriverStep(d) ==
    \/ BindBackend(d) \/ AlreadyEnded(d) \/ LoadRoot(d)
    \/ BeginEffect(d) \/ DriveReturns(d)
    \/ RunKernelExperiment(d) \/ RunParentExperiment(d) \/ Triage(d) \/ Reason(d)
    \/ InfrastructureFails(d) \/ PublishReport(d)
    \/ Fanout(d) \/ ChildrenStarted(d)
    \/ CreateChild(d) \/ DriveChild(d)
    \/ Summarize(d) \/ Publish(d) \/ PublishFails(d) \/ Acknowledge(d) \/ StoreSummary(d)

Next ==
    \/ \E d \in Drivers : DriverStep(d) \/ Crash(d) \/ \E b \in Identities : Run(d, b)
    \/ DeadlinePasses

Spec == Init /\ [][Next]_vars

(* A driver that is not killed goes on, and someone resumes the Run with   *)
(* the runtime it is bound to.                                             *)
Fairness ==
    /\ \A d \in Drivers : WF_vars(DriverStep(d))
    /\ \A b \in Identities : SF_vars(\E d \in Drivers : Run(d, b))
    /\ WF_vars(DeadlinePasses)

FairSpec == Spec /\ Fairness

-----------------------------------------------------------------------------
(* Properties.                                                             *)

(* The execution lock is enough: however often the Run is killed and       *)
(* resumed, no checkpoint of its driver meets another writer               *)
(* (_SessionCheckpoint.save).                                              *)
CheckpointsNeverConflict == ~clash

Diagnosed ==
    \A i \in Expected :
       /\ store[i] # NoVal /\ Status(i) \in {"COMPLETED", "INCONCLUSIVE"}
       /\ HasReport(i) \/ (i = Root /\ store[i].children = store[i].manifest)

(* What a foreground Run returns is true.  COMPLETED: every kernel its     *)
(* discovery found has a session that ended with a report, and the parent  *)
(* has started exactly its manifest.  EXPIRED: the deadline has passed.    *)
(* It returns RUNNING in one case only: it has an output file, and its     *)
(* discovery parent failed with a manifest whose children were not         *)
(* started, so nothing was published (build_run_summary, _resume).         *)
SummaryIsTrue ==
    (control # NoVal /\ control.summary # NoVal) =>
        CASE control.summary.status = "COMPLETED" -> Diagnosed
          [] control.summary.status = "EXPIRED" -> late
          [] control.summary.status = "FAILED" ->
               \/ control.summary.publication = "FAILED"
               \/ \E i \in Present(Expected) : Status(i) = "FAILED"
          [] control.summary.status = "RUNNING" ->
               /\ control.input.mode = "FILE" /\ Status(Root) = "FAILED"
               /\ Present(Expected) # Expected

(* The output file holds only reports of stored sessions that have ended,  *)
(* and a Run whose record says PUBLISHED has the file that says the same   *)
(* of every session, whatever was killed in between (_publish).            *)
DeliveredFileAgrees ==
    /\ file # NoVal => \A r \in file.reports : store[r.id].core.evidence = r.evidence
                                               /\ Status(r.id) = r.status
    /\ (control # NoVal /\ Ended(control.summary) /\ control.summary.publication = "PUBLISHED")
          => /\ file # NoVal /\ file.summary = control.summary
             /\ \A i \in Present(Expected) : file.summary.rows[i] = Row(i)

(* Resuming only adds: no run or resume replaces an accepted result or     *)
(* takes a session back, and once a terminal summary is stored none        *)
(* changes the Run, a session or the output file (_ensure_session,         *)
(* record_experiment_result, _resume).                                     *)
ResumeOnlyAdds ==
    [][/\ \A i \in Ids : store[i] # NoVal =>
             /\ store[i].core.evidence \subseteq store'[i].core.evidence
             /\ store'[i].core.state_revision >= store[i].core.state_revision
       /\ (control # NoVal /\ Ended(control.summary)) => UNCHANGED <<control, store, file>>]_vars

(* A Run that is resumed after every kill ends, with or without reaching   *)
(* its deadline.                                                           *)
RunEnds == (control # NoVal) ~> (control # NoVal /\ Ended(control.summary))

=============================================================================
