-------------------------- MODULE DiscoveryFanout --------------------------
(***************************************************************************)
(* The distributed fan-out of a discovery (_create_discovery_children of   *)
(* python/cutracer/service/distributed.py): a worker that finds a parent   *)
(* in WAITING_CHILDREN starts one session per kernel, creating or resuming *)
(* it and handing on what it owes, and then records the children in the    *)
(* parent.  Any number of workers may do so at the same time, for the same *)
(* parent and again after a failure.  The calls through _apply are one     *)
(* step each here: SessionCoordinator takes them apart.                    *)
(***************************************************************************)
EXTENDS DiscoverySession

CONSTANTS
    Workers,        \* processes running coordinator calls
    Root,           \* the session id of the parent; a child's is its kernel
    NoVal,          \* a session that was not created
    MaxFaults       \* bound: calls that fail and workers that stop

VARIABLES
    sessions,   \* session id -> stored session
    worker,     \* each worker: where its fan-out is
    childJobs,  \* experiment jobs the dispatcher has taken, by dispatch key
    lapses

fvars == <<sessions, worker, childJobs, lapses>>

(* What the store holds for a child; only its parent has a manifest.       *)
StoredChild == [core : Session, manifest : {{}}, children : {{}}]

Off == [at |-> "idle"]
Parent == sessions[Root]

FanoutInit ==
    /\ sessions = [i \in {Root} \cup Kernels |->
                     IF i = Root THEN Stored(CreateDiscoverySession.session, {}, {}) ELSE NoVal]
    /\ worker = [w \in Workers |-> Off]
    /\ childJobs = {} /\ lapses = 0

(* compare_and_swap with the revision _apply gives the new session.        *)
Commit(i, rec) ==
    sessions' = [sessions EXCEPT ![i] = [rec EXCEPT !.core.state_revision = @ + 1]]

CommitCore(i, s) == Commit(i, [sessions[i] EXCEPT !.core = s])

Move(w, to) == worker' = [worker EXCEPT ![w] = to]

-----------------------------------------------------------------------------
(* Callbacks of other processes.                                           *)

(* on_experiment_envelope of the parent; the call that completes it goes   *)
(* on to dispatch CREATE_CHILD_SESSIONS.                                   *)
BeginFanout(parent) ==
    [at |-> "loop", parent |-> parent, todo |-> parent.manifest, ids |-> {},
     failed |-> FALSE, kid |-> NoVal, txn |-> NoVal]

OnParentResult(w) ==
    /\ worker[w] = Off
    /\ \E x \in Parent.core.pending :
         \E p \in IF x = Discovery THEN {"discovered", "undiscovered"} ELSE Payloads,
            m \in Manifests \cup {{}} :
            /\ (m # {}) <=> (p = "discovered")
            /\ Commit(Root, RecordParentResult(Parent, [id |-> x, payload |-> p], m))
    /\ Move(w, IF Owed(sessions'[Root]) = "CREATE_CHILD_SESSIONS"
               THEN BeginFanout(sessions'[Root]) ELSE Off)
    /\ UNCHANGED <<childJobs, lapses>>

(* resume; a parent that still waits for results has them asked for again. *)
ResumeParent(w) ==
    /\ worker[w] = Off
    /\ Move(w, IF Owed(Parent) = "CREATE_CHILD_SESSIONS" THEN BeginFanout(Parent) ELSE Off)
    /\ UNCHANGED <<sessions, childJobs, lapses>>

(* on_infrastructure_failure: the reconciler gives the parent up.          *)
GiveUpParent ==
    /\ Parent.core.status \notin Terminal
    /\ \E t \in RecordInfrastructureFailure(Parent.core) : CommitCore(Root, t.session)
    /\ UNCHANGED <<worker, childJobs, lapses>>

(* A child lives its own life (SessionCoordinator): results of its jobs,   *)
(* triage, decisions, delivery, and workers that die before they dispatch. *)
ChildTransitions(k) ==
    LET s == sessions[k].core
        asked == UNION {j.experiments : j \in {i \in childJobs : i.session = k}}
    IN  UNION ({RecordExperimentResult(s, r) : r \in [id : asked, payload : Payloads]}
               \cup {RecordAnalysisDecision(s, d) : d \in Decisions}
               \cup {RecordTriageDecision(s), RecordReportPublished(s),
                     RecordReportPublicationFailed(s), RecordInfrastructureFailure(s)})

ChildMoves(k) ==
    /\ sessions[k] # NoVal
    /\ \E t \in ChildTransitions(k) :
          /\ t.session # sessions[k].core
          /\ CommitCore(k, t.session)
    /\ UNCHANGED <<worker, childJobs, lapses>>

-----------------------------------------------------------------------------
(* The loop over the kernels, in the order of the manifest.                *)

NextOf(todo) == CHOOSE k \in todo : TRUE

(* Mutant: a child that could not be started is counted as started.        *)
ChildFailedUnnoticed(f, k) == [f EXCEPT !.at = "loop", !.todo = @ \ {k}, !.ids = @ \cup {k}]

(* A failure is kept for later; the other children are still started.      *)
ChildFailed(f, k) == [f EXCEPT !.at = "loop", !.todo = @ \ {k}, !.failed = TRUE]

ChildDone(f, k) == [f EXCEPT !.at = "loop", !.todo = @ \ {k}, !.ids = @ \cup {k}]

(* What the child still has to hand on.                                    *)
ChildOwes(f, k, t) ==
    IF t.effect = "NONE" THEN ChildDone(f, k) ELSE [f EXCEPT !.at = "child", !.kid = k, !.txn = t]

(* session_admission_digest: of its inputs only the shared results are not *)
(* the same in every call of start for one kernel.                         *)
Admission(evidence) == {r \in evidence : r.id \in Shared}

(* start: create, or resume a session admitted with the same inputs.       *)
StartChild(w) ==
    /\ worker[w].at = "loop" /\ worker[w].todo # {}
    /\ LET f == worker[w]
           k == NextOf(f.todo)
           t == CreateSession(SharedEvidence(f.parent))
       IN  IF sessions[k] = NoVal
           THEN /\ sessions' = [sessions EXCEPT ![k] = Stored(t.session, {}, {})]
                /\ Move(w, ChildOwes(f, k, t))
           ELSE /\ Move(w, IF Admission(sessions[k].core.evidence) # SharedEvidence(f.parent)
                           THEN ChildFailed(f, k)
                           ELSE ChildOwes(f, k, ResumeSession(sessions[k].core)))
                /\ UNCHANGED sessions
    /\ UNCHANGED <<childJobs, lapses>>

(* _dispatch of the child's effect.                                        *)
HandOn(w, effects) == worker[w].at = "child" /\ worker[w].txn.effect \in effects

ChildJob(k, s) == [session |-> k, revision |-> s.state_revision, experiments |-> s.pending]

DispatchChild(w) ==
    /\ HandOn(w, {"SUBMIT_EXPERIMENTS", "RUN_REASONER"})
    /\ LET f == worker[w]
       IN  /\ childJobs' = IF f.txn.effect = "RUN_REASONER" THEN childJobs
                           ELSE childJobs \cup {ChildJob(f.kid, f.txn.session)}
           /\ Move(w, ChildDone(f, f.kid))
    /\ UNCHANGED <<sessions, lapses>>

(* Triage, or delivery of the report: a second commit, which may owe more. *)
ApplyChild(w) ==
    /\ HandOn(w, {"RUN_TRIAGE", "PUBLISH_REPORT"})
    /\ LET f  == worker[w]
           s  == sessions[f.kid].core
           ts == IF f.txn.effect = "RUN_TRIAGE" THEN RecordTriageDecision(s)
                 ELSE RecordReportPublished(s)
       IN  \/ ts = {} /\ Move(w, ChildFailed(f, f.kid)) /\ UNCHANGED sessions
           \/ \E t \in ts :
                 IF t.session = s THEN Move(w, ChildDone(f, f.kid)) /\ UNCHANGED sessions
                 ELSE /\ CommitCore(f.kid, t.session)
                      /\ Move(w, ChildOwes(f, f.kid,
                                           Transition(sessions'[f.kid].core, t.effect)))
    /\ UNCHANGED <<childJobs, lapses>>

(* start raises: the store or a dispatcher is not available.               *)
ChildFails(w) ==
    /\ lapses < MaxFaults /\ lapses' = lapses + 1
    /\ \/ worker[w].at = "child" /\ Move(w, ChildFailed(worker[w], worker[w].kid))
       \/ /\ worker[w].at = "loop"
          /\ worker[w].todo # {}
          /\ Move(w, ChildFailed(worker[w], NextOf(worker[w].todo)))
    /\ UNCHANGED <<sessions, childJobs>>

(* The failures are raised together, or the children are recorded; the     *)
(* parent may have been given up, or completed by another worker.          *)
RecordChildren(w) ==
    /\ worker[w].at = "loop" /\ worker[w].todo = {}
    /\ Move(w, Off)
    /\ LET recs == IF worker[w].failed THEN {}
                   ELSE RecordDiscoveryChildrenStarted(Parent, worker[w].ids)
       IN  IF recs \subseteq {Parent} THEN UNCHANGED sessions
           ELSE \E rec \in recs : Commit(Root, rec)
    /\ UNCHANGED <<childJobs, lapses>>

(* before_dispatch finds the lease lost, or the process dies.              *)
WorkerStops(w) ==
    /\ worker[w] # Off
    /\ lapses < MaxFaults /\ lapses' = lapses + 1
    /\ Move(w, Off)
    /\ UNCHANGED <<sessions, childJobs>>

FanoutNext ==
    \/ GiveUpParent
    \/ \E k \in Kernels : ChildMoves(k)
    \/ \E w \in Workers :
          \/ OnParentResult(w) \/ ResumeParent(w)
          \/ StartChild(w) \/ DispatchChild(w) \/ ApplyChild(w)
          \/ ChildFails(w) \/ RecordChildren(w) \/ WorkerStops(w)

FanoutSpec == FanoutInit /\ [][FanoutNext]_fvars

-----------------------------------------------------------------------------
(* A discovery that calls itself complete has left nothing behind: it has  *)
(* exactly the children of its manifest, each began with the parent's      *)
(* target-wide results, and the first batch of each was handed on, even if *)
(* the worker that created it failed or died before it could.  No attempt, *)
(* complete or not, starts a session for anything else                     *)
(* (_create_discovery_children, start).                                    *)
FanoutIsWhole ==
    /\ \A k \in Kernels : sessions[k] # NoVal =>
          /\ k \in Parent.manifest
          /\ Admission(sessions[k].core.evidence) = SharedEvidence(Parent)
    /\ Parent.core.status = "COMPLETED" =>
          /\ Parent.children = Parent.manifest
          /\ \A k \in Parent.manifest :
                /\ sessions[k] # NoVal
                /\ sessions[k].core.state_revision = 1 =>
                      \E j \in childJobs : j.session = k /\ j.revision = 1

=============================================================================
