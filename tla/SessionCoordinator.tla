------------------------- MODULE SessionCoordinator -------------------------
(***************************************************************************)
(* DistributedCoordinator (python/cutracer/service/distributed.py): any    *)
(* number of workers run callbacks for one session.  _apply loads the      *)
(* session, reduces, commits by compare-and-swap on state_revision and     *)
(* then dispatches the effect; every load, commit and dispatch is a step,  *)
(* and a worker may die or have its dispatch refused between any two.      *)
(* Remote jobs and callbacks may be repeated, late, reordered or lost.     *)
(***************************************************************************)
EXTENDS AnalysisSession

CONSTANTS
    Workers,        \* processes running coordinator calls
    Absent,         \* the store before the session is created
    MaxCasAttempts, \* _MAX_CAS_ATTEMPTS
    MaxFaults       \* bound: dispatches refused and workers lost

ASSUME CoordinatorAssumption ==
    /\ MaxCasAttempts \in Nat \ {0}
    /\ MaxFaults \in Nat
    /\ Absent \notin Session

VARIABLES
    store,      \* the durable session
    pc,         \* where each worker is
    op,         \* the call the worker runs
    txn,        \* the transition it has computed and not finished
    attempt,    \* failed compare-and-swaps of the current _apply
    jobs,       \* experiment jobs the MAST dispatcher was asked for
    turns,      \* reasoning turns the Sandcastle dispatcher was asked for
    delivered,  \* evidence of the reports handed to the report sink
    baselines,  \* evidence recorded as triage baselines
    faults,
    \* history variable
    judged      \* per applied decision: evidence it analysed, evidence it met

vars == <<store, pc, op, txn, attempt, jobs, turns, delivered, baselines, faults, judged>>

remote == <<jobs, turns, delivered, baselines>>

Idle == [kind |-> "none"]
NoTxn == [effect |-> "NONE"]

Init ==
    /\ store = Absent
    /\ pc = [w \in Workers |-> "idle"]
    /\ op = [w \in Workers |-> Idle]
    /\ txn = [w \in Workers |-> NoTxn]
    /\ attempt = [w \in Workers |-> 0]
    /\ jobs = {} /\ turns = {} /\ delivered = {} /\ baselines = {}
    /\ faults = 0
    /\ judged = {}

Exists == store # Absent

-----------------------------------------------------------------------------
(* Entry points.                                                           *)

Begin(w, o, at) ==
    /\ pc[w] = "idle"
    /\ op' = [op EXCEPT ![w] = o]
    /\ pc' = [pc EXCEPT ![w] = at]
    /\ UNCHANGED <<txn, attempt, faults, judged>>

Return(w) ==
    /\ pc' = [pc EXCEPT ![w] = "idle"]
    /\ op' = [op EXCEPT ![w] = Idle]
    /\ txn' = [txn EXCEPT ![w] = NoTxn]
    /\ attempt' = [attempt EXCEPT ![w] = 0]

(* start: create, or resume a session admitted with the same inputs.       *)
Start(w) ==
    /\ ~Exists
    /\ pc[w] = "idle"
    /\ \E shared \in SharedResults :
          /\ store' = CreateSession(shared).session
          /\ txn' = [txn EXCEPT ![w] = CreateSession(shared)]
    /\ pc' = [pc EXCEPT ![w] = "dispatch"]
    /\ UNCHANGED <<op, attempt, remote, faults, judged>>

(* resume: also what start does after losing the race to create.           *)
Resume(w) ==
    /\ Exists
    /\ Begin(w, [kind |-> "resume"], "load")
    /\ UNCHANGED <<store, remote>>

(* A job sends one result per experiment; nothing makes two executions of  *)
(* an experiment agree.                                                    *)
OnExperimentEnvelope(w, x) ==
    /\ \E j \in jobs, p \in Payloads :
          /\ x \in j.experiments
          /\ Begin(w, [kind |-> "result", revision |-> j.revision,
                       result |-> [id |-> x, payload |-> p]], "load")
    /\ UNCHANGED <<store, remote>>

OnReasoningDecision(w, t) ==
    /\ \E d \in Decisions :
          Begin(w, [kind |-> "decision", revision |-> t.revision,
                    decision |-> d, analysed |-> t.evidence], "load")
    /\ UNCHANGED <<store, remote>>

(* The reconciler gives up on the revision it last saw, which may be       *)
(* overtaken before the call loads the session.                            *)
OnInfrastructureFailure(w) ==
    /\ Exists
    /\ Begin(w, [kind |-> "infra", revision |-> store.state_revision], "load")
    /\ UNCHANGED <<store, remote>>

OnReportPublicationFailure(w) ==
    /\ Exists
    /\ Begin(w, [kind |-> "pubfail", revision |-> store.state_revision], "load")
    /\ UNCHANGED <<store, remote>>

-----------------------------------------------------------------------------
(* _apply.                                                                 *)

(* Mutant: any decision for a session that waits for one is accepted.      *)
RevisionCurrentIgnored(s, o) == o.revision <= s.state_revision

RevisionCurrent(s, o) == o.revision = s.state_revision

Reduce(s, o) ==
    CASE o.kind = "result" ->
           IF o.revision > s.state_revision THEN {}
           ELSE RecordExperimentResult(s, o.result)
      [] o.kind = "decision" ->
           IF RevisionCurrent(s, o) THEN RecordAnalysisDecision(s, o.decision)
           ELSE {Transition(s, "NONE")}
      [] o.kind = "infra" ->
           IF o.revision = s.state_revision THEN RecordInfrastructureFailure(s)
           ELSE {Transition(s, "NONE")}
      [] o.kind = "pubfail" ->
           IF o.revision = s.state_revision /\ s.report_publication = "PENDING"
           THEN RecordReportPublicationFailed(s)
           ELSE {Transition(s, "NONE")}
      [] o.kind = "triage"    -> RecordTriageDecision(s)
      [] o.kind = "published" -> RecordReportPublished(s)

NoChange(t) == t.effect = "NONE" /\ t.session = store

(* Load and reduce; an exception or an unchanged session ends the call.    *)
ApplyEnds(w) ==
    /\ pc[w] = "load"
    /\ op[w].kind # "resume"
    /\ LET ts == Reduce(store, op[w]) IN ts = {} \/ \E t \in ts : NoChange(t)
    /\ Return(w)
    /\ UNCHANGED <<store, remote, faults, judged>>

ApplyLoad(w) ==
    /\ pc[w] = "load"
    /\ op[w].kind # "resume"
    /\ \E t \in Reduce(store, op[w]) :
          /\ ~NoChange(t)
          /\ txn' = [txn EXCEPT ![w] = t]
    /\ pc' = [pc EXCEPT ![w] = "commit"]
    /\ UNCHANGED <<store, op, attempt, remote, faults, judged>>

(* Mutant: the store compares nothing.                                     *)
CasMatchesAny(t) == store.state_revision >= t.session.state_revision

CasMatches(t) == store.state_revision = t.session.state_revision

Committed(t) == Transition([t.session EXCEPT !.state_revision = @ + 1], t.effect)

ApplyCommit(w) ==
    /\ pc[w] = "commit"
    /\ CasMatches(txn[w])
    /\ store' = Committed(txn[w]).session
    /\ judged' = IF op[w].kind = "decision"
                 THEN judged \cup {[analysed |-> op[w].analysed, met |-> store.evidence]}
                 ELSE judged
    /\ IF txn[w].effect = "NONE" THEN Return(w)
       ELSE /\ txn' = [txn EXCEPT ![w] = Committed(txn[w])]
            /\ pc' = [pc EXCEPT ![w] = "dispatch"]
            /\ op' = [op EXCEPT ![w] = Idle]
            /\ attempt' = [attempt EXCEPT ![w] = 0]
    /\ UNCHANGED <<remote, faults>>

ApplyConflict(w) ==
    /\ pc[w] = "commit"
    /\ ~CasMatches(txn[w])
    /\ IF attempt[w] + 1 < MaxCasAttempts
       THEN /\ attempt' = [attempt EXCEPT ![w] = @ + 1]
            /\ pc' = [pc EXCEPT ![w] = "load"]
            /\ txn' = [txn EXCEPT ![w] = NoTxn]
            /\ UNCHANGED op
       ELSE Return(w)
    /\ UNCHANGED <<store, remote, faults, judged>>

(* resume dispatches what the loaded session owes, without a commit.       *)
ResumeLoad(w) ==
    /\ pc[w] = "load"
    /\ op[w].kind = "resume"
    /\ IF ResumeSession(store).effect = "NONE" THEN Return(w)
       ELSE /\ txn' = [txn EXCEPT ![w] = ResumeSession(store)]
            /\ pc' = [pc EXCEPT ![w] = "dispatch"]
            /\ op' = [op EXCEPT ![w] = Idle]
            /\ UNCHANGED attempt
    /\ UNCHANGED <<store, remote, faults, judged>>

-----------------------------------------------------------------------------
(* _dispatch.                                                              *)

Dispatching(w, effect) == pc[w] = "dispatch" /\ txn[w].effect = effect

(* The nested _apply of a dispatched effect.                               *)
ApplyNext(w, kind) ==
    /\ op' = [op EXCEPT ![w] = [kind |-> kind]]
    /\ pc' = [pc EXCEPT ![w] = "load"]
    /\ txn' = [txn EXCEPT ![w] = NoTxn]
    /\ UNCHANGED attempt

Job(s) == [revision |-> s.state_revision, experiments |-> s.pending]

SubmitExperiments(w) ==
    /\ Dispatching(w, "SUBMIT_EXPERIMENTS")
    /\ jobs' = jobs \cup {Job(txn[w].session)}
    /\ Return(w)
    /\ UNCHANGED <<store, turns, delivered, baselines, faults, judged>>

RunTriage(w) ==
    /\ Dispatching(w, "RUN_TRIAGE")
    /\ ApplyNext(w, "triage")
    /\ UNCHANGED <<store, remote, faults, judged>>

RunReasoner(w) ==
    /\ Dispatching(w, "RUN_REASONER")
    /\ turns' = turns \cup {[revision |-> txn[w].session.state_revision,
                             evidence |-> txn[w].session.evidence]}
    /\ Return(w)
    /\ UNCHANGED <<store, jobs, delivered, baselines, faults, judged>>

(* Mutant: the baseline is advanced before the report is delivered.        *)
PublishReportLast(w) ==
    /\ Dispatching(w, "PUBLISH_REPORT")
    /\ baselines' = baselines \cup {txn[w].session.evidence}
    /\ pc' = [pc EXCEPT ![w] = "baselines"]
    /\ UNCHANGED <<store, op, txn, attempt, jobs, turns, delivered, faults, judged>>

PublishReport(w) ==
    /\ Dispatching(w, "PUBLISH_REPORT")
    /\ delivered' = delivered \cup {txn[w].session.evidence}
    /\ pc' = [pc EXCEPT ![w] = "baselines"]
    /\ UNCHANGED <<store, op, txn, attempt, jobs, turns, baselines, faults, judged>>

(* record_published_baselines, for a completed session whose report has    *)
(* sufficient evidence; then the acknowledgement through its own _apply.   *)
RecordBaselines(w) ==
    /\ pc[w] = "baselines"
    /\ \/ UNCHANGED baselines
       \/ /\ txn[w].session.status = "COMPLETED"
          /\ baselines' = baselines \cup {txn[w].session.evidence}
    /\ ApplyNext(w, "published")
    /\ UNCHANGED <<store, jobs, turns, delivered, faults, judged>>

(* A lost lease (before_dispatch), a refused remote call, or the death of  *)
(* the process: the rest of the call does not happen.                      *)
Fault(w) ==
    /\ pc[w] # "idle"
    /\ faults < MaxFaults
    /\ faults' = faults + 1
    /\ Return(w)
    /\ UNCHANGED <<store, remote, judged>>

-----------------------------------------------------------------------------
Step(w) ==
    \/ ApplyEnds(w) \/ ApplyLoad(w) \/ ApplyCommit(w) \/ ApplyConflict(w)
    \/ ResumeLoad(w)
    \/ SubmitExperiments(w) \/ RunTriage(w) \/ RunReasoner(w)
    \/ PublishReport(w) \/ RecordBaselines(w)

Callback(w) ==
    \/ Start(w) \/ Resume(w)
    \/ \E x \in Experiments : OnExperimentEnvelope(w, x)
    \/ \E t \in turns : OnReasoningDecision(w, t)
    \/ OnInfrastructureFailure(w) \/ OnReportPublicationFailure(w)

Next == \E w \in Workers : Step(w) \/ Callback(w) \/ Fault(w)

Spec == Init /\ [][Next]_vars

(* The hosts the coordinator runs on finish the calls they begin, the      *)
(* reconciler keeps resuming a session that has not settled, and MAST and  *)
(* Sandcastle retry a callback while the session still waits for it.       *)
DeliverPending(x) ==
    /\ Exists /\ x \in store.pending
    /\ \E w \in Workers : OnExperimentEnvelope(w, x)

DeliverDecision ==
    \E t \in turns, w \in Workers :
       t.revision = store.state_revision /\ OnReasoningDecision(w, t)

Fairness ==
    /\ \A w \in Workers : WF_vars(Step(w))
    /\ SF_vars(\E w \in Workers : Resume(w))
    /\ \A x \in Experiments : SF_vars(DeliverPending(x))
    /\ SF_vars(DeliverDecision)

-----------------------------------------------------------------------------
(* Properties.                                                             *)

(* A reasoning decision only takes effect on the evidence it was made      *)
(* from: one that was overtaken is discarded (on_reasoning_decision).      *)
ReasonedOnCurrentEvidence == \A j \in judged : j.analysed = j.met

(* The dispatch key (session, revision) stands for one batch only, so that *)
(* an idempotent dispatcher may drop a repeated submit (_dispatch), and a  *)
(* batch is committed to the session before anything runs.                 *)
DispatchKeyDeterminesWork ==
    /\ \A j, k \in jobs : j.revision = k.revision => j = k
    /\ \A j \in jobs : /\ j.revision <= store.state_revision
                       /\ j.experiments \subseteq store.fingerprints

(* A baseline only holds findings of a delivered report: a retry "can      *)
(* never consume an unreported finding" (record_published_baselines).      *)
BaselineOnlyDelivered == baselines \subseteq delivered

(* The coordinator implements the abstract session: however callbacks are  *)
(* repeated, lost or reordered and workers race, what readers of the store *)
(* see is a session that asks within its budget, waits exactly while       *)
(* experiments are out, ends once and keeps its evidence and verdict, and  *)
(* settles its report once (_apply, record_* in session.py).               *)
Lifecycle == INSTANCE SessionLifecycle WITH
    status      <- IF Exists THEN store.status ELSE "ABSENT",
    round       <- IF Exists THEN store.round_index ELSE 0,
    publication <- IF Exists THEN store.report_publication ELSE "NOT_READY",
    submitted   <- IF Exists THEN store.fingerprints ELSE {},
    spent       <- IF Exists THEN store.submitted ELSE 0,
    evidence    <- IF Exists THEN store.evidence ELSE {}

ImplementsLifecycle == Lifecycle!Spec

(* Every session that was created ends, and its report is delivered or     *)
(* given up, whatever dispatch or worker was lost on the way (resume).     *)
Settled == Exists /\ store.status \in Terminal /\ store.report_publication # "PENDING"

Settles == Exists ~> Settled

=============================================================================
