-------------------------- MODULE DiscoverySession --------------------------
(***************************************************************************)
(* The parent session of an unpinned target (create_discovery_session and  *)
(* the discovery branches of python/cutracer/service/session.py): it runs  *)
(* kernel discovery and the target-scoped sanitizers, then fans out into   *)
(* one kernel-pinned session per kernel of the manifest, which starts with *)
(* the parent's sanitizer results.                                         *)
(***************************************************************************)
EXTENDS AnalysisSession

CONSTANTS
    Discovery,      \* the discovery experiment of the parent
    Kernels,        \* what the target can launch
    MaxKernels      \* KernelDiscoveryOptions.max_kernels

ASSUME DiscoveryAssumption ==
    /\ Discovery \notin Experiments
    /\ IsFiniteSet(Kernels)
    /\ MaxKernels \in Nat \ {0}

(* A stored session: the reducers' record, and what only a discovery       *)
(* parent has, its manifest and the children it has recorded.              *)
Stored(s, manifest, children) ==
    [core |-> s, manifest |-> manifest, children |-> children]

(* pin_discovered_work_units, discovery_child_session_id: the child of a   *)
(* kernel is determined by the parent and the kernel.                      *)
Manifests == {m \in SUBSET Kernels : m # {} /\ Cardinality(m) <= MaxKernels}

CreateDiscoverySession ==
    LET pend == {Discovery} \cup Shared
    IN  IF Cardinality(pend) > MaxExperiments
        THEN Inconclusive(NewSession({}, {}))
        ELSE Transition(NewSession({}, pend), "SUBMIT_EXPERIMENTS")

(* _initial_campaign_state: every target-scoped result of the parent is    *)
(* projected onto the child's experiment of the same tool.                 *)
SharedEvidence(parent) == {r \in parent.core.evidence : r.id \in Shared}

CreateChildSession(parent) == Stored(CreateSession(SharedEvidence(parent)).session, {}, {})

(* record_experiment_result for a discovery parent.  The last result of    *)
(* the batch decides: children for a manifest, failure for anything else.  *)
RecordParentResult(p, r, manifest) ==
    LET left == p.core.pending \ {r.id}
        kept == IF r.id = Discovery THEN manifest ELSE p.manifest
        s1   == [p.core EXCEPT !.evidence = @ \cup {r}, !.pending = left,
                               !.completed = @ \cup {r.id},
                               !.status = IF left # {} THEN @
                                          ELSE IF kept # {} THEN "WAITING_CHILDREN"
                                          ELSE "FAILED"]
    IN  Stored(s1, kept, p.children)

(* record_discovery_children_started                                       *)
RecordDiscoveryChildrenStarted(p, ids) ==
    IF p.core.status = "COMPLETED" THEN {x \in {p} : p.children = ids}
    ELSE IF p.core.status = "WAITING_CHILDREN" /\ Cardinality(ids) = Cardinality(p.manifest)
    THEN {Stored([p.core EXCEPT !.status = "COMPLETED"], p.manifest, ids)}
    ELSE {}

(* resume_session, discovery parents included.                             *)
Owed(p) == IF p.core.status = "WAITING_CHILDREN" THEN "CREATE_CHILD_SESSIONS"
           ELSE ResumeSession(p.core).effect

=============================================================================
