--------------------------- MODULE LocalRunProofs ---------------------------
(***************************************************************************)
(* For any number of drivers, kernels, experiments, rounds and kills: what *)
(* the execution lock and the checkpoints make of a Run in the foreground. *)
(* No checkpoint of its driver is refused, resuming only adds, and the     *)
(* summary and the output file it leaves are true of its sessions.         *)
(***************************************************************************)
EXTENDS LocalRun, FiniteSetTheorems, TLAPS

(* What the reducers keep true of a session that is pinned to a kernel,    *)
(* and of the parent of a discovery.                                       *)
KernelCore(s) ==
    /\ s \in Core /\ s.status \in Statuses
    /\ s.report_publication # "NOT_READY" <=> s.status \in {"COMPLETED", "INCONCLUSIVE"}
    /\ s.status \in {"WAITING_INITIAL", "WAITING_FOLLOWUP"} => s.pending # {}

KernelSession(p) == p \in StoredSession /\ KernelCore(p.core) /\ p.manifest = {}

ParentSession(p) ==
    /\ p \in StoredSession
    /\ p.core.status \in {"WAITING_INITIAL", "WAITING_CHILDREN"} \cup Terminal
    /\ p.core.report_publication # "NOT_READY" <=> p.core.status = "INCONCLUSIVE"
    /\ p.core.status = "WAITING_INITIAL" => p.core.pending # {}
    /\ p.core.status = "INCONCLUSIVE" => p.manifest = {}
    /\ p.core.status = "COMPLETED" => p.children = p.manifest

(* What a reducer makes of a session: the same revision, nothing forgotten *)
(* and the effect the result owes.                                         *)
Moves(s, t) ==
    /\ KernelCore(t.session)
    /\ t.session.state_revision = s.state_revision
    /\ s.evidence \subseteq t.session.evidence
    /\ t.effect = ResumeSession(t.session).effect

-----------------------------------------------------------------------------
(* Sessions and their reducers.                                            *)

LEMMA CoreFields ==
    ASSUME NEW s \in Core
    PROVE  /\ s.state_revision \in Nat /\ s.status \in Statuses \cup {"WAITING_CHILDREN"}
           /\ s.pending \subseteq AnyExperiment /\ s.completed \subseteq AnyExperiment
           /\ s.evidence \subseteq AnyResult /\ s.fingerprints \subseteq AnyExperiment
           /\ s.submitted \in Nat /\ s.round_index \in Nat
           /\ s.report_publication \in Publications
BY DEF Core

(* What a session owes depends on its status and on its report.            *)
LEMMA ResumeIs ==
    ASSUME NEW s
    PROVE  /\ s.status \in {"WAITING_INITIAL", "WAITING_FOLLOWUP"} =>
                 ResumeSession(s).effect = "SUBMIT_EXPERIMENTS"
           /\ s.status = "WAITING_TRIAGE" => ResumeSession(s).effect = "RUN_TRIAGE"
           /\ s.status = "WAITING_REASONER" => ResumeSession(s).effect = "RUN_REASONER"
           /\ s.status \in Terminal =>
                 ResumeSession(s).effect =
                    IF s.report_publication = "PENDING" THEN "PUBLISH_REPORT" ELSE "NONE"
BY DEF ResumeSession, Transition, Terminal

LEMMA FinishMoves ==
    ASSUME NEW s, KernelCore(s), NEW status \in {"COMPLETED", "INCONCLUSIVE"}
    PROVE  Moves(s, Finish(s, status))
<1> DEFINE n == [s EXCEPT !.status = status, !.report_publication = "PENDING"]
<1>1. Finish(s, status) = [session |-> n, effect |-> "PUBLISH_REPORT"]
  BY DEF Finish, Transition
<1>2. /\ n \in Core /\ n.status = status /\ n.report_publication = "PENDING"
      /\ n.evidence = s.evidence /\ n.state_revision = s.state_revision
  BY DEF KernelCore, Core, Statuses, Terminal, Publications
<1> HIDE DEF n
<1>3. KernelCore(n)
  BY <1>2 DEF KernelCore, Statuses, Terminal
<1>4. ResumeSession(n).effect = "PUBLISH_REPORT"
  BY <1>2, ResumeIs DEF Terminal
<1> QED BY <1>1, <1>2, <1>3, <1>4 DEF Moves

(* A result that is accepted leaves a batch, or completes it.              *)
LEMMA AcceptMoves ==
    ASSUME NEW s, KernelCore(s), NEW r \in AnyResult, r.id \in s.pending, PhaseValid(s, r.id)
    PROVE  LET t == AcceptResult(s, r)
           IN  Moves(s, Transition(t.session, IF t.session.pending # {} THEN "SUBMIT_EXPERIMENTS"
                                              ELSE t.effect))
<1> DEFINE left == s.pending \ {r.id}
           s1 == [s EXCEPT !.evidence = @ \cup {r}, !.pending = left,
                           !.completed = @ \cup {r.id}]
           to == IF r.id \in Initial THEN "WAITING_TRIAGE" ELSE "WAITING_REASONER"
           s2 == [s1 EXCEPT !.status = to]
           owes == IF r.id \in Initial THEN "RUN_TRIAGE" ELSE "RUN_REASONER"
<1>1. AcceptResult(s, r) = IF left # {} THEN Transition(s1, "NONE") ELSE Transition(s2, owes)
  BY DEF AcceptResult
<1>2. r.id \in AnyExperiment /\ s.status \in {"WAITING_INITIAL", "WAITING_FOLLOWUP"}
  BY DEF AnyResult, PhaseValid
<1>3. /\ s1 \in Core /\ s1.status = s.status /\ s1.pending = left
      /\ s1.evidence = s.evidence \cup {r} /\ s1.state_revision = s.state_revision
      /\ s1.report_publication = s.report_publication
  BY <1>2 DEF KernelCore, Core
<1> HIDE DEF s1
<1>4. /\ s2 \in Core /\ s2.status = to /\ s2.pending = s1.pending
      /\ s2.evidence = s1.evidence /\ s2.state_revision = s1.state_revision
      /\ s2.report_publication = s1.report_publication
  BY <1>3 DEF Core, Statuses, Waiting
<1> HIDE DEF s2, left
<1>5. CASE left # {}
  <2>1. KernelCore(s1) /\ ResumeSession(s1).effect = "SUBMIT_EXPERIMENTS"
    BY <1>2, <1>3, <1>5, ResumeIs DEF KernelCore
  <2> QED BY <1>1, <1>3, <1>5, <2>1 DEF Moves, Transition
<1>6. CASE left = {}
  <2>1. KernelCore(s2) /\ ResumeSession(s2).effect = owes
    BY <1>2, <1>3, <1>4, <1>6, ResumeIs DEF KernelCore, Statuses, Waiting
  <2> QED BY <1>1, <1>3, <1>4, <1>6, <2>1 DEF Moves, Transition
<1> QED BY <1>5, <1>6

LEMMA ResultMoves ==
    ASSUME NEW s, KernelCore(s), s.status \in {"WAITING_INITIAL", "WAITING_FOLLOWUP"},
           NEW r \in AnyResult, NEW t \in RecordExperimentResult(s, r)
    PROVE  Moves(s, Transition(t.session, IF t.session.pending # {} THEN "SUBMIT_EXPERIMENTS"
                                          ELSE t.effect))
<1>1. CASE t = Transition(s, "NONE")
  <2>1. s.pending # {} /\ ResumeSession(s).effect = "SUBMIT_EXPERIMENTS"
    BY ResumeIs DEF KernelCore
  <2> QED BY <1>1, <2>1 DEF Moves, Transition
<1>2. CASE t = AcceptResult(s, r) /\ r.id \in s.pending /\ PhaseValid(s, r.id)
  BY <1>2, AcceptMoves
<1> QED BY <1>1, <1>2 DEF RecordExperimentResult

LEMMA TriageMoves ==
    ASSUME NEW s, KernelCore(s), s.status = "WAITING_TRIAGE", NEW t \in RecordTriageDecision(s)
    PROVE  Moves(s, t)
<1> DEFINE n == [s EXCEPT !.status = "WAITING_REASONER"]
<1>1. \/ t = Finish(s, "INCONCLUSIVE") \/ t = Finish(s, "COMPLETED")
      \/ t = Transition(n, "RUN_REASONER")
  BY DEF RecordTriageDecision, TriageOutcomes, ApplyTriage, Inconclusive
<1>2. /\ n \in Core /\ n.status = "WAITING_REASONER" /\ n.evidence = s.evidence
      /\ n.report_publication = s.report_publication /\ n.state_revision = s.state_revision
  BY DEF KernelCore, Core, Statuses, Waiting
<1> HIDE DEF n
<1>3. Moves(s, Transition(n, "RUN_REASONER"))
  <2>1. KernelCore(n)
    BY <1>2 DEF KernelCore, Statuses, Waiting
  <2> QED BY <1>2, <2>1, ResumeIs DEF Moves, Transition
<1> QED BY <1>1, <1>3, FinishMoves

LEMMA FollowUpMoves ==
    ASSUME NEW s, KernelCore(s), s.status = "WAITING_REASONER", NEW batch \in GuardExpand(s)
    PROVE  Moves(s, FollowUp(s, batch))
<1>1. CASE batch = {} \/ s.submitted + Cardinality(batch) > MaxExperiments
  BY <1>1, FinishMoves DEF FollowUp, Inconclusive
<1>2. CASE ~(batch = {} \/ s.submitted + Cardinality(batch) > MaxExperiments)
  <2> DEFINE n == [s EXCEPT !.status = "WAITING_FOLLOWUP", !.round_index = @ + 1,
                            !.pending = batch, !.fingerprints = @ \cup batch,
                            !.submitted = @ + Cardinality(batch)]
  <2>1. FollowUp(s, batch) = [session |-> n, effect |-> "SUBMIT_EXPERIMENTS"]
    BY <1>2 DEF FollowUp, Transition
  <2>2. batch \subseteq Experiments /\ Cardinality(batch) \in Nat
    <3>1. batch \subseteq Experiments
      BY DEF GuardExpand
    <3> QED BY <3>1, SessionAssumption, FS_Subset, FS_CardinalityType
  <2>3. s \in Core /\ s.round_index + 1 \in Nat /\ s.submitted + Cardinality(batch) \in Nat
        /\ s.fingerprints \cup batch \subseteq AnyExperiment /\ batch \subseteq AnyExperiment
    BY <2>2, CoreFields DEF KernelCore, AnyExperiment
  <2>4. /\ n \in Core /\ n.status = "WAITING_FOLLOWUP" /\ n.pending = batch
        /\ n.evidence = s.evidence /\ n.state_revision = s.state_revision
        /\ n.report_publication = s.report_publication
    BY <2>3 DEF Core, Statuses, Waiting
  <2> HIDE DEF n
  <2>5. KernelCore(n) /\ ResumeSession(n).effect = "SUBMIT_EXPERIMENTS"
    BY <1>2, <2>4, ResumeIs DEF KernelCore, Statuses, Waiting
  <2> QED BY <2>1, <2>4, <2>5 DEF Moves
<1> QED BY <1>1, <1>2

LEMMA DecisionMoves ==
    ASSUME NEW s, KernelCore(s), s.status = "WAITING_REASONER",
           NEW kind \in Decisions, NEW t \in RecordAnalysisDecision(s, kind)
    PROVE  Moves(s, t)
<1>1. \/ t = Finish(s, "INCONCLUSIVE") \/ t = Finish(s, "COMPLETED")
      \/ \E batch \in GuardExpand(s) : t = FollowUp(s, batch)
  BY DEF RecordAnalysisDecision, Inconclusive, Decisions
<1> QED BY <1>1, FinishMoves, FollowUpMoves

LEMMA FailedIs ==
    ASSUME NEW s \in Core, s.status \notin Terminal, NEW t \in RecordInfrastructureFailure(s)
    PROVE  /\ t.session \in Core /\ t.session.status = "FAILED"
           /\ t.session.evidence = s.evidence /\ t.session.state_revision = s.state_revision
           /\ t.session.report_publication = s.report_publication
<1> DEFINE n == [s EXCEPT !.status = "FAILED", !.pending = {}]
<1>1. t = [session |-> n, effect |-> "NONE"]
  BY DEF RecordInfrastructureFailure, Transition
<1>2. /\ n \in Core /\ n.status = "FAILED" /\ n.evidence = s.evidence
      /\ n.state_revision = s.state_revision /\ n.report_publication = s.report_publication
  BY DEF Core, Statuses, Terminal
<1> HIDE DEF n
<1> QED BY <1>1, <1>2

LEMMA PublishedIs ==
    ASSUME NEW s \in Core, s.report_publication = "PENDING", NEW t \in RecordReportPublished(s)
    PROVE  /\ t.session \in Core /\ t.session.status = s.status /\ t.effect = "NONE"
           /\ t.session.evidence = s.evidence /\ t.session.state_revision = s.state_revision
           /\ t.session.report_publication = "PUBLISHED" /\ t.session.pending = s.pending
<1> DEFINE n == [s EXCEPT !.report_publication = "PUBLISHED"]
<1>1. t = [session |-> n, effect |-> "NONE"]
  BY DEF RecordReportPublished, Transition
<1>2. /\ n \in Core /\ n.status = s.status /\ n.evidence = s.evidence /\ n.pending = s.pending
      /\ n.state_revision = s.state_revision /\ n.report_publication = "PUBLISHED"
  BY DEF Core, Publications
<1> HIDE DEF n
<1> QED BY <1>1, <1>2

(* Sessions as they are created.                                           *)
LEMMA NewSessionIs ==
    ASSUME NEW shared \in SUBSET AnyResult, NEW pend \in SUBSET AnyExperiment,
           Cardinality(pend) \in Nat
    PROVE  /\ NewSession(shared, pend) \in Core
           /\ NewSession(shared, pend).pending = pend
           /\ NewSession(shared, pend).report_publication = "NOT_READY"
           /\ NewSession(shared, pend).status =
                 IF pend = {} THEN "WAITING_TRIAGE" ELSE "WAITING_INITIAL"
           /\ NewSession(shared, pend).evidence = shared
<1>1. {r.id : r \in shared} \subseteq AnyExperiment
  BY DEF AnyResult
<1> DEFINE status == IF pend = {} THEN "WAITING_TRIAGE" ELSE "WAITING_INITIAL"
           n == NewSession(shared, pend)
<1>2. n = [state_revision |-> 1, status |-> status, pending |-> pend,
           completed |-> {r.id : r \in shared}, evidence |-> shared, fingerprints |-> pend,
           submitted |-> Cardinality(pend), round_index |-> 0, report_publication |-> "NOT_READY"]
  BY DEF NewSession
<1>3. status \in Statuses
  BY DEF Statuses, Waiting
<1> HIDE DEF n, status
<1>4. /\ n \in Core /\ n.pending = pend /\ n.report_publication = "NOT_READY"
      /\ n.status = status /\ n.evidence = shared
  BY <1>1, <1>2, <1>3 DEF Core, Publications
<1> QED BY <1>4 DEF n, status

LEMMA NoneFinite == Cardinality({}) \in Nat
BY FS_EmptySet

LEMMA OverBudgetIs ==
    ASSUME NEW shared \in SUBSET AnyResult
    PROVE  LET s == Inconclusive(NewSession(shared, {})).session
           IN  /\ s \in Core /\ s.status = "INCONCLUSIVE"
               /\ s.report_publication = "PENDING"
<1> DEFINE b == NewSession(shared, {})
           s == [b EXCEPT !.status = "INCONCLUSIVE", !.report_publication = "PENDING"]
<1>1. Inconclusive(b).session = s
  BY DEF Inconclusive, Finish, Transition
<1>2. b \in Core
  BY NewSessionIs, NoneFinite
<1> HIDE DEF b
<1>3. s \in Core /\ s.status = "INCONCLUSIVE" /\ s.report_publication = "PENDING"
  BY <1>2 DEF Core, Statuses, Terminal, Publications
<1> HIDE DEF s
<1> QED BY <1>1, <1>3 DEF b

LEMMA StoredIs ==
    ASSUME NEW s \in Core, NEW m \in SUBSET Kernels, NEW c \in SUBSET Kernels
    PROVE  /\ Stored(s, m, c) \in StoredSession /\ Stored(s, m, c).core = s
           /\ Stored(s, m, c).manifest = m /\ Stored(s, m, c).children = c
BY DEF Stored, StoredSession

LEMMA CreatedIsKernel ==
    ASSUME NEW shared \in SUBSET AnyResult
    PROVE  KernelSession(Stored(CreateSession(shared).session, {}, {}))
<1> DEFINE pend == Initial \ {r.id : r \in shared}
           s == CreateSession(shared).session
<1>1. pend \subseteq Experiments /\ pend \subseteq AnyExperiment /\ Cardinality(pend) \in Nat
  <2>1. pend \subseteq Experiments
    BY SessionAssumption
  <2> QED BY <2>1, SessionAssumption, FS_Subset, FS_CardinalityType DEF AnyExperiment
<1>2. CASE Cardinality(pend) > MaxExperiments
  <2>1. s = Inconclusive(NewSession(shared, {})).session
    BY <1>2 DEF CreateSession
  <2> HIDE DEF s
  <2>2. KernelCore(s)
    BY <2>1, OverBudgetIs DEF KernelCore, Statuses, Terminal
  <2>3. KernelSession(Stored(s, {}, {}))
    BY <2>2, StoredIs DEF KernelSession, KernelCore
  <2> QED BY <2>3 DEF s
<1>3. CASE ~(Cardinality(pend) > MaxExperiments)
  <2>1. s = NewSession(shared, pend)
    BY <1>3 DEF CreateSession, Transition
  <2> HIDE DEF s, pend
  <2>2. KernelCore(s)
    BY <1>1, <2>1, NewSessionIs DEF KernelCore, Statuses, Waiting
  <2>3. KernelSession(Stored(s, {}, {}))
    BY <2>2, StoredIs DEF KernelSession, KernelCore
  <2> QED BY <2>3 DEF s
<1> QED BY <1>2, <1>3

LEMMA CreatedIsParent ==
    /\ ParentSession(Stored(CreateDiscoverySession.session, {}, {}))
    /\ Stored(CreateDiscoverySession.session, {}, {}).manifest = {}
<1> DEFINE pend == {Discovery} \cup Shared
           s == CreateDiscoverySession.session
<1>1. pend \subseteq AnyExperiment /\ Cardinality(pend) \in Nat /\ pend # {}
  <2>1. Shared \subseteq Experiments
    BY SessionAssumption
  <2>2. IsFiniteSet(Shared)
    BY <2>1, SessionAssumption, FS_Subset
  <2>3. IsFiniteSet(pend)
    BY <2>2, FS_AddElement
  <2> QED BY <2>1, <2>3, FS_CardinalityType DEF AnyExperiment
<1>2. CASE Cardinality(pend) > MaxExperiments
  <2>1. s = Inconclusive(NewSession({}, {})).session
    BY <1>2 DEF CreateDiscoverySession
  <2> HIDE DEF s
  <2>2. s \in Core /\ s.status = "INCONCLUSIVE" /\ s.report_publication = "PENDING"
    BY <2>1, OverBudgetIs
  <2>3. ParentSession(Stored(s, {}, {})) /\ Stored(s, {}, {}).manifest = {}
    BY <2>2, StoredIs DEF ParentSession, Terminal
  <2> QED BY <2>3 DEF s
<1>3. CASE ~(Cardinality(pend) > MaxExperiments)
  <2>1. s = NewSession({}, pend)
    BY <1>3 DEF CreateDiscoverySession, Transition
  <2> HIDE DEF s, pend
  <2>2. /\ s \in Core /\ s.status = "WAITING_INITIAL" /\ s.report_publication = "NOT_READY"
        /\ s.pending # {}
    BY <1>1, <2>1, NewSessionIs
  <2>3. ParentSession(Stored(s, {}, {})) /\ Stored(s, {}, {}).manifest = {}
    BY <2>2, StoredIs DEF ParentSession, Terminal
  <2> QED BY <2>3 DEF s
<1> QED BY <1>2, <1>3

LEMMA SameOwed ==
    ASSUME NEW s, NEW u, s.status \in Statuses,
           u.status = s.status, u.report_publication = s.report_publication
    PROVE  ResumeSession(u).effect = ResumeSession(s).effect
BY ResumeIs DEF Statuses, Waiting

(* The checkpoint gives the new session the next revision.                 *)
Stamped(p, n) == [p EXCEPT !.core = [@ EXCEPT !.state_revision = n]]

LEMMA StampedIs ==
    ASSUME NEW p \in StoredSession, NEW n \in Nat
    PROVE  LET q == Stamped(p, n)
           IN  /\ q \in StoredSession /\ q.manifest = p.manifest /\ q.children = p.children
               /\ q.core.state_revision = n /\ q.core.status = p.core.status
               /\ q.core.pending = p.core.pending /\ q.core.evidence = p.core.evidence
               /\ q.core.report_publication = p.core.report_publication
<1> DEFINE c == [p.core EXCEPT !.state_revision = n]
           q == [p EXCEPT !.core = c]
<1>1. Stamped(p, n) = q
  BY DEF Stamped
<1>2. p.core \in Core /\ p.manifest \subseteq Kernels /\ p.children \subseteq Kernels
  BY DEF StoredSession
<1>3. /\ c \in Core /\ c.state_revision = n /\ c.status = p.core.status
      /\ c.pending = p.core.pending /\ c.evidence = p.core.evidence
      /\ c.report_publication = p.core.report_publication
  BY <1>2 DEF Core
<1> HIDE DEF c
<1>4. q \in StoredSession /\ q.core = c /\ q.manifest = p.manifest /\ q.children = p.children
  BY <1>2, <1>3 DEF StoredSession
<1> HIDE DEF q
<1> QED BY <1>1, <1>3, <1>4

LEMMA StampedKernel ==
    ASSUME NEW p, KernelSession(p), NEW n \in Nat
    PROVE  /\ KernelSession(Stamped(p, n)) /\ Owed(Stamped(p, n)) = ResumeSession(p.core).effect
<1>1. p \in StoredSession /\ p.core.status \in Statuses /\ p.core.status # "WAITING_CHILDREN"
  BY DEF KernelSession, KernelCore, Statuses, Waiting, Terminal
<1>2. KernelSession(Stamped(p, n))
  <2>1. Stamped(p, n).core \in Core
    BY <1>1, StampedIs DEF StoredSession
  <2> HIDE DEF Stamped
  <2> QED BY <1>1, <2>1, StampedIs DEF KernelSession, KernelCore
<1>3. Owed(Stamped(p, n)) = ResumeSession(Stamped(p, n).core).effect
  BY <1>1, StampedIs DEF Owed
<1>4. ResumeSession(Stamped(p, n).core).effect = ResumeSession(p.core).effect
  BY <1>1, StampedIs, SameOwed
<1> QED BY <1>2, <1>3, <1>4

LEMMA StampedParent ==
    ASSUME NEW p, ParentSession(p), NEW n \in Nat
    PROVE  /\ ParentSession(Stamped(p, n)) /\ Owed(Stamped(p, n)) = Owed(p)
<1>1. p \in StoredSession
  BY DEF ParentSession
<1>2. ParentSession(Stamped(p, n))
  BY <1>1, StampedIs DEF ParentSession
<1>3. p.core.status \in Statuses =>
         ResumeSession(Stamped(p, n).core).effect = ResumeSession(p.core).effect
  BY <1>1, StampedIs, SameOwed
<1>4. Owed(Stamped(p, n)) = Owed(p)
  BY <1>1, <1>3, StampedIs DEF Owed, ParentSession, Statuses, Waiting
<1> QED BY <1>2, <1>4

(* From one checkpoint of a session to the next: a session that has ended  *)
(* keeps its status, its evidence and its report.                          *)
Advances(p, q) ==
    /\ q \in StoredSession
    /\ q.core.state_revision = p.core.state_revision + 1
    /\ p.core.evidence \subseteq q.core.evidence
    /\ p.core.status \in Terminal =>
          /\ q.core.status = p.core.status /\ q.core.evidence = p.core.evidence
          /\ q.manifest = p.manifest /\ q.children = p.children
          /\ p.core.report_publication # "NOT_READY" => q.core.report_publication # "NOT_READY"

(* A kernel's session after a reducer.                                     *)
LEMMA KernelAdvances ==
    ASSUME NEW p, KernelSession(p), p.core.status \notin Terminal, NEW t, Moves(p.core, t),
           NEW n \in Nat, n = p.core.state_revision + 1
    PROVE  LET q == Stamped([p EXCEPT !.core = t.session], n)
           IN  KernelSession(q) /\ Advances(p, q) /\ Owed(q) = t.effect
<1> DEFINE c == t.session
           b == [p EXCEPT !.core = c]
<1>1. p \in StoredSession
  BY DEF KernelSession
<1>2. /\ c \in Core /\ KernelCore(c) /\ p.core.evidence \subseteq c.evidence
      /\ t.effect = ResumeSession(c).effect
  BY DEF Moves, KernelCore
<1> HIDE DEF c
<1>3. b \in StoredSession /\ b.core = c /\ b.manifest = p.manifest
  BY <1>1, <1>2 DEF StoredSession
<1> HIDE DEF b
<1>4. KernelSession(b)
  BY <1>2, <1>3 DEF KernelSession
<1>5. KernelSession(Stamped(b, n)) /\ Owed(Stamped(b, n)) = t.effect
  BY <1>2, <1>3, <1>4, StampedKernel
<1>6. Advances(p, Stamped(b, n))
  BY <1>2, <1>3, StampedIs DEF Advances
<1> QED BY <1>5, <1>6 DEF b, c

LEMMA KernelFails ==
    ASSUME NEW p, KernelSession(p), p.core.status \notin Terminal,
           NEW t \in RecordInfrastructureFailure(p.core), NEW n \in Nat, n = p.core.state_revision + 1
    PROVE  LET q == Stamped([p EXCEPT !.core = t.session], n)
           IN  KernelSession(q) /\ Advances(p, q) /\ Owed(q) = "NONE"
<1>1. p.core \in Core /\ p.core.report_publication = "NOT_READY"
  BY DEF KernelSession, KernelCore, Terminal
<1>2. /\ t.session \in Core /\ t.session.status = "FAILED"
      /\ t.session.evidence = p.core.evidence
      /\ t.session.state_revision = p.core.state_revision
      /\ t.session.report_publication = "NOT_READY"
  BY <1>1, FailedIs
<1>3. KernelCore(t.session) /\ ResumeSession(t.session).effect = "NONE"
  BY <1>2, ResumeIs DEF KernelCore, Statuses, Terminal
<1>4. t.effect = "NONE"
  BY DEF RecordInfrastructureFailure, Transition
<1>5. Moves(p.core, t)
  BY <1>2, <1>3, <1>4 DEF Moves
<1> QED BY <1>4, <1>5, KernelAdvances

(* The parent of a discovery.                                              *)
LEMMA ParentFields ==
    ASSUME NEW p, ParentSession(p)
    PROVE  /\ p \in StoredSession /\ p.core \in Core /\ p.core.state_revision \in Nat
           /\ p.manifest \subseteq Kernels /\ p.children \subseteq Kernels
           /\ p.core.pending \subseteq AnyExperiment /\ p.core.evidence \subseteq AnyResult
<1>1. p \in StoredSession /\ p.core \in Core
  BY DEF ParentSession, StoredSession
<1> QED BY <1>1, CoreFields DEF StoredSession

LEMMA ParentFails ==
    ASSUME NEW p, ParentSession(p), p.core.status = "WAITING_INITIAL",
           NEW t \in RecordInfrastructureFailure(p.core),
           NEW n \in Nat, n = p.core.state_revision + 1
    PROVE  LET q == Stamped([p EXCEPT !.core = t.session], n)
           IN  /\ ParentSession(q) /\ Advances(p, q) /\ Owed(q) = "NONE"
               /\ q.core.status = "FAILED"
<1> DEFINE c == t.session
           b == [p EXCEPT !.core = c]
<1>1. p.core \in Core /\ p.core.report_publication = "NOT_READY" /\ p.core.status \notin Terminal
  BY ParentFields DEF ParentSession, Terminal
<1>2. /\ c \in Core /\ c.status = "FAILED" /\ c.evidence = p.core.evidence
      /\ c.report_publication = "NOT_READY"
  BY <1>1, FailedIs
<1> HIDE DEF c
<1>3. b \in StoredSession /\ b.core = c /\ b.manifest = p.manifest
  BY <1>2, ParentFields DEF StoredSession
<1> HIDE DEF b
<1>4. ParentSession(b) /\ Owed(b) = "NONE"
  BY <1>2, <1>3, ResumeIs DEF ParentSession, Terminal, Owed
<1>5. Advances(p, Stamped(b, n))
  BY <1>1, <1>2, <1>3, StampedIs DEF Advances
<1>6. Stamped(b, n).core.status = "FAILED"
  BY <1>2, <1>3, StampedIs
<1> QED BY <1>4, <1>5, <1>6, StampedParent DEF b, c

(* Delivery changes nothing else, for a kernel or for a parent.            *)
LEMMA Publishes ==
    ASSUME NEW p, KernelSession(p) \/ ParentSession(p), p.core.report_publication = "PENDING",
           NEW t \in RecordReportPublished(p.core),
           NEW n \in Nat, n = p.core.state_revision + 1
    PROVE  LET q == Stamped([p EXCEPT !.core = t.session], n)
           IN  /\ KernelSession(p) => KernelSession(q)
               /\ ParentSession(p) => ParentSession(q)
               /\ Advances(p, q) /\ t.effect = "NONE" /\ Owed(q) = "NONE"
               /\ q.core.status = p.core.status /\ q.manifest = p.manifest
<1> DEFINE c == t.session
           b == [p EXCEPT !.core = c]
<1>1. p \in StoredSession /\ p.core \in Core /\ p.core.status \in Terminal
  BY DEF KernelSession, KernelCore, ParentSession, StoredSession, Terminal
<1>2. /\ c \in Core /\ c.status = p.core.status /\ c.evidence = p.core.evidence
      /\ c.pending = p.core.pending /\ c.report_publication = "PUBLISHED"
  BY <1>1, PublishedIs
<1>3. t.effect = "NONE"
  BY <1>1, PublishedIs
<1> HIDE DEF c
<1>4. b \in StoredSession /\ b.core = c /\ b.manifest = p.manifest /\ b.children = p.children
  BY <1>1, <1>2 DEF StoredSession
<1> HIDE DEF b
<1>5. ResumeSession(b.core).effect = "NONE" /\ Owed(b) = "NONE"
  BY <1>1, <1>2, <1>4, ResumeIs DEF Owed, Terminal
<1>6. /\ Advances(p, Stamped(b, n))
      /\ Stamped(b, n).core.status = p.core.status /\ Stamped(b, n).manifest = p.manifest
  BY <1>1, <1>2, <1>4, StampedIs DEF Advances
<1>7. KernelSession(p) => KernelSession(b)
  BY <1>1, <1>2, <1>4 DEF KernelSession, KernelCore
<1>8. ParentSession(p) => ParentSession(b)
  BY <1>1, <1>2, <1>4 DEF ParentSession
<1>9. KernelSession(p) => KernelSession(Stamped(b, n)) /\ Owed(Stamped(b, n)) = "NONE"
  BY <1>5, <1>7, StampedKernel
<1>10. ParentSession(p) => ParentSession(Stamped(b, n)) /\ Owed(Stamped(b, n)) = "NONE"
  BY <1>5, <1>8, StampedParent
<1> QED BY <1>3, <1>6, <1>9, <1>10 DEF b, c

LEMMA ParentResult ==
    ASSUME NEW p, ParentSession(p), p.core.status = "WAITING_INITIAL",
           NEW r \in AnyResult, NEW m \in SUBSET Kernels, NEW n \in Nat, n = p.core.state_revision + 1
    PROVE  LET b == RecordParentResult(p, r, m)
               q == Stamped(b, n)
           IN  /\ ParentSession(q) /\ Advances(p, q) /\ Owed(q) = Owed(b)
               /\ q.core.status \notin {"COMPLETED", "INCONCLUSIVE"}
<1> DEFINE left == p.core.pending \ {r.id}
           kept == IF r.id = Discovery THEN m ELSE p.manifest
           to == IF left # {} THEN "WAITING_INITIAL"
                 ELSE IF kept # {} THEN "WAITING_CHILDREN" ELSE "FAILED"
           s1 == [p.core EXCEPT !.evidence = @ \cup {r}, !.pending = left,
                                !.completed = @ \cup {r.id}, !.status = to]
           b == RecordParentResult(p, r, m)
<1>1. b = Stored(s1, kept, p.children)
  BY DEF RecordParentResult
<1>2. /\ p.core \in Core /\ n \in Nat /\ kept \subseteq Kernels /\ p.children \subseteq Kernels
      /\ r.id \in AnyExperiment /\ to \in Statuses \cup {"WAITING_CHILDREN"}
      /\ p.core.report_publication = "NOT_READY" /\ left \subseteq AnyExperiment
  BY ParentFields DEF AnyResult, Statuses, Waiting, Terminal, ParentSession
<1>3. /\ s1 \in Core /\ s1.status = to /\ s1.pending = left
      /\ s1.evidence = p.core.evidence \cup {r} /\ s1.report_publication = "NOT_READY"
  <2> HIDE DEF left, to
  <2> QED BY <1>2, CoreFields DEF Core
<1> HIDE DEF s1, kept, b
<1>4. b \in StoredSession /\ b.core = s1
  BY <1>1, <1>2, <1>3, StoredIs
<1> HIDE DEF left
<1>5. ParentSession(b)
  BY <1>3, <1>4 DEF ParentSession, Terminal
<1>6. ParentSession(Stamped(b, n)) /\ Owed(Stamped(b, n)) = Owed(b)
  BY <1>2, <1>5, StampedParent
<1>7. Advances(p, Stamped(b, n)) /\ Stamped(b, n).core.status = to
  BY <1>2, <1>3, <1>4, StampedIs DEF Advances, Terminal
<1> QED BY <1>6, <1>7 DEF b

LEMMA ParentCompletes ==
    ASSUME NEW p, ParentSession(p), p.core.status = "WAITING_CHILDREN",
           NEW b \in RecordDiscoveryChildrenStarted(p, p.manifest),
           NEW n \in Nat, n = p.core.state_revision + 1
    PROVE  LET q == Stamped(b, n)
           IN  /\ ParentSession(q) /\ Advances(p, q) /\ Owed(q) = "NONE"
               /\ q.core.status = "COMPLETED" /\ q.manifest = p.manifest
<1> DEFINE c == [p.core EXCEPT !.status = "COMPLETED"]
<1>1. b = Stored(c, p.manifest, p.manifest)
  BY DEF RecordDiscoveryChildrenStarted
<1>2. p.core \in Core /\ n \in Nat /\ p.manifest \subseteq Kernels
      /\ p.core.report_publication = "NOT_READY"
  BY ParentFields DEF ParentSession, Terminal
<1>3. /\ c \in Core /\ c.status = "COMPLETED" /\ c.evidence = p.core.evidence
      /\ c.report_publication = "NOT_READY"
  BY <1>2 DEF Core, Statuses, Terminal
<1> HIDE DEF c
<1>4. b \in StoredSession /\ b.core = c /\ b.manifest = p.manifest /\ b.children = p.manifest
  BY <1>1, <1>2, <1>3, StoredIs
<1>5. ParentSession(b) /\ Owed(b) = "NONE"
  BY <1>3, <1>4, ResumeIs DEF ParentSession, Owed, Terminal
<1>6. ParentSession(Stamped(b, n)) /\ Owed(Stamped(b, n)) = "NONE"
  BY <1>2, <1>5, StampedParent
<1>7. /\ Advances(p, Stamped(b, n)) /\ Stamped(b, n).core.status = "COMPLETED"
      /\ Stamped(b, n).manifest = p.manifest
  BY <1>2, <1>3, <1>4, StampedIs DEF Advances, Terminal
<1> QED BY <1>6, <1>7

-----------------------------------------------------------------------------
(* The inductive invariant.                                                *)

Places == {"idle", "bind", "root", "drive", "effect", "fanout", "create", "children",
           "publish", "acknowledge", "store"}

Driven == [id : Ids, rec : StoredSession \cup {NoVal},
           effect : Effects \cup {"CREATE_CHILD_SESSIONS"}]

DriverType ==
    /\ lock \in Drivers \cup {NoVal} /\ pc \in [Drivers -> Places]
    /\ cur \in [Drivers -> Driven] /\ todo \in [Drivers -> SUBSET Ids]
    /\ res \in [Drivers -> RunSummary \cup {NoVal}] /\ rev \in [Drivers -> Nat]
    /\ runtime \in [Drivers -> Identities \cup {NoVal}]

FileTypes ==
    /\ control \in RunControl \cup {NoVal}
    /\ store \in [Ids -> StoredSession \cup {NoVal}]
    /\ file \in OutputFile \cup {NoVal}

AllPresent == \A i \in Expected : store[i] # NoVal

(* A summary says what the sessions say.                                   *)
TrueSummary(s) ==
    /\ s.status = "COMPLETED" => Diagnosed
    /\ s.status = "EXPIRED" => late
    /\ s.status = "FAILED" =>
          s.publication = "FAILED" \/ \E i \in Present(Expected) : Status(i) = "FAILED"
    /\ s.status = "RUNNING" => /\ control.input.mode = "FILE" /\ Status(Root) = "FAILED"
                               /\ ~AllPresent /\ s.publication = "PENDING"

RecordIsTrue ==
    control # NoVal /\ control.summary # NoVal =>
       control.identity # NoVal /\ store[Root] # NoVal /\ TrueSummary(control.summary)

SessionsAreSound ==
    /\ store[Root] # NoVal =>
          /\ control # NoVal
          /\ IF control.input.pinned THEN KernelSession(store[Root]) ELSE ParentSession(store[Root])
          /\ Status(Root) \in {"COMPLETED", "INCONCLUSIVE"} => AllPresent
    /\ \A k \in Kernels : store[k] # NoVal => KernelSession(store[k])

FileIsOfSessions ==
    file # NoVal => \A r \in file.reports :
       HasReport(r.id) /\ store[r.id].core.evidence = r.evidence /\ Status(r.id) = r.status

FilesInv ==
    /\ FileTypes /\ RecordIsTrue /\ SessionsAreSound /\ FileIsOfSessions
    /\ DeliveredFileAgrees /\ CheckpointsNeverConflict

(* Whoever is at work holds the lock and works from the current record of  *)
(* a Run that has not ended.                                               *)
HasRun(d) ==
    /\ pc[d] # "idle" => lock = d /\ control # NoVal /\ runtime[d] # NoVal
    /\ pc[d] \notin {"idle", "bind"} => rev[d] = control.revision /\ control.identity # NoVal
    /\ pc[d] \notin {"idle", "bind", "root"} => ~Ended(control.summary) /\ store[Root] # NoVal

(* It drives a session as it is stored, and owes what that session owes.   *)
IsCurrent(d) ==
    /\ pc[d] \in {"drive", "effect", "fanout", "create"} =>
          /\ store[cur[d].id] # NoVal /\ cur[d].rec = store[cur[d].id]
          /\ cur[d].effect = Owed(cur[d].rec)
    /\ pc[d] \in {"fanout", "create"} => cur[d].id = Root
    /\ pc[d] = "create" => /\ Status(Root) = "WAITING_CHILDREN"
                           /\ todo[d] \subseteq store[Root].manifest
                           /\ \A k \in store[Root].manifest \ todo[d] : store[k] # NoVal

(* What lies behind it has ended, unless the deadline has passed.          *)
Settled(i) == store[i] # NoVal => Status(i) \in Terminal

BehindIsSettled(ahead) ==
    /\ Status(Root) = "FAILED" \/ AllPresent
    /\ \A i \in Expected \ ahead : Settled(i)

LeavesNothing(d) ==
    ~late => /\ pc[d] = "fanout" => Status(Root) \in Terminal \cup {"WAITING_CHILDREN"}
             /\ pc[d] = "children" => BehindIsSettled(todo[d])
             /\ pc[d] \in {"drive", "effect"} /\ cur[d].id # Root =>
                   BehindIsSettled(todo[d] \cup {cur[d].id})

(* The summary it has computed is true, and what it says was published is  *)
(* in the file.                                                            *)
AllEnded == \A i \in Expected : store[i] # NoVal /\ Status(i) \in Terminal

PublishedRow(i) == [status |-> Status(i), publication |-> "PUBLISHED"]

IsTruthful(d) ==
    /\ pc[d] = "publish" => control.input.mode = "FILE" /\ (late \/ AllEnded)
    /\ pc[d] \in {"acknowledge", "store"} => res[d] # NoVal /\ TrueSummary(res[d])
    /\ pc[d] = "acknowledge" => res[d].publication = "PUBLISHED" /\ todo[d] \subseteq Unacknowledged
    /\ pc[d] \in {"acknowledge", "store"} /\ res[d].publication = "PUBLISHED" =>
          /\ file # NoVal /\ file.summary = res[d]
          /\ \A i \in Present(Expected) :
                res[d].rows[i] = IF pc[d] = "acknowledge" /\ i \in todo[d] THEN PublishedRow(i)
                                 ELSE Row(i)

DriverInv(d) == HasRun(d) /\ IsCurrent(d) /\ LeavesNothing(d) /\ IsTruthful(d)

LocalInv == DriverType /\ FilesInv /\ \A d \in Drivers : DriverInv(d)

-----------------------------------------------------------------------------
(* Steps of the one driver at work.                                        *)

LEMMA OnlyDriver ==
    ASSUME LocalInv, NEW d \in Drivers, pc[d] # "idle", NEW e \in Drivers, e # d
    PROVE  pc[e] = "idle"
BY DEF LocalInv, DriverInv, HasRun

LEMMA IdleDriver == ASSUME NEW e, pc'[e] = "idle" PROVE DriverInv(e)'
BY DEF DriverInv, HasRun, IsCurrent, LeavesNothing, IsTruthful

LEMMA MoveStep ==
    ASSUME LocalInv, NEW d \in Drivers, pc[d] # "idle", NEW at, pc' = [pc EXCEPT ![d] = at],
           FilesInv', DriverType', DriverInv(d)'
    PROVE  LocalInv'
<1>1. ASSUME NEW e \in Drivers PROVE DriverInv(e)'
  <2>1. CASE e = d
    BY <2>1
  <2>2. CASE e # d
    <3>1. pc'[e] = "idle"
      BY <2>2, OnlyDriver DEF LocalInv, DriverType
    <3> QED BY <3>1, IdleDriver
  <2> QED BY <2>1, <2>2
<1> QED BY <1>1 DEF LocalInv

LEMMA LeaveStep ==
    ASSUME LocalInv, NEW d \in Drivers, pc[d] # "idle", Leave(d), FilesInv'
    PROVE  LocalInv'
<1>1. ASSUME NEW e \in Drivers PROVE pc'[e] = "idle"
  BY OnlyDriver DEF LocalInv, DriverType, Leave, Goto
<1>2. \A e \in Drivers : DriverInv(e)'
  BY <1>1, IdleDriver
<1>3. DriverType'
  <2>1. Idle \in Driven
    BY DEF Idle, Driven, Ids, Effects
  <2> QED BY <2>1 DEF LocalInv, DriverType, Leave, Goto, Places
<1> QED BY <1>2, <1>3 DEF LocalInv

LEMMA PresentIs == Present(Expected) = Expected <=> AllPresent
BY DEF Present, AllPresent

(* What the files say stays true while they stay as they are.              *)
LEMMA SameFiles ==
    ASSUME LocalInv, UNCHANGED <<control, store, file, clash>>, late => late'
    PROVE  FilesInv'
<1> USE DEF LocalInv, FilesInv
<1>1. Expected' = Expected /\ Present(Expected)' = Present(Expected)
  BY DEF Expected, Present
<1>2. \A i : Status(i)' = Status(i) /\ HasReport(i)' = HasReport(i) /\ Row(i)' = Row(i)
  BY DEF Status, HasReport, Row
<1>3. FileTypes' /\ CheckpointsNeverConflict'
  BY DEF FileTypes, CheckpointsNeverConflict
<1>4. RecordIsTrue'
  BY <1>1, <1>2 DEF RecordIsTrue, TrueSummary, Diagnosed, AllPresent
<1>5. SessionsAreSound'
  BY <1>1, <1>2 DEF SessionsAreSound, AllPresent
<1>6. FileIsOfSessions'
  BY <1>2 DEF FileIsOfSessions
<1>7. DeliveredFileAgrees'
  BY <1>1, <1>2 DEF DeliveredFileAgrees
<1> QED BY <1>3, <1>4, <1>5, <1>6, <1>7

(* A session is saved while the Run goes on: what has ended stays as it    *)
(* is, and the root only ends well when its children are there.            *)
LEMMA StoreFiles ==
    ASSUME LocalInv, NEW i \in Ids, NEW n \in StoredSession, store' = [store EXCEPT ![i] = n],
           UNCHANGED <<control, file, late, clash>>, control # NoVal, ~Ended(control.summary),
           IF i = Root /\ ~control.input.pinned THEN ParentSession(n) ELSE KernelSession(n),
           store[i] # NoVal => Advances(store[i], n),
           store[i] = NoVal => i = Root \/ (store[Root] # NoVal /\ Status(Root) # "FAILED"),
           i = Root /\ n.core.status \in {"COMPLETED", "INCONCLUSIVE"} =>
              \A k \in n.manifest : store[k] # NoVal
    PROVE  FilesInv'
<1> USE DEF LocalInv, FilesInv, Status
<1>0. /\ store \in [Ids -> StoredSession \cup {NoVal}] /\ n # NoVal
      /\ store' \in [Ids -> StoredSession \cup {NoVal}]
      /\ store'[i] = n /\ \A j \in Ids : j # i => store'[j] = store[j]
  BY LocalAssumption DEF FileTypes
<1>1. FileTypes' /\ CheckpointsNeverConflict'
  BY <1>0 DEF FileTypes, CheckpointsNeverConflict
<1>2. /\ Root \in Ids /\ \A k \in Kernels : k \in Ids /\ k # Root
      /\ Expected \subseteq Ids /\ Expected' \subseteq Ids
  <2>1. Root \in Ids /\ \A k \in Kernels : k \in Ids /\ k # Root
    BY LocalAssumption DEF Ids
  <2>2. \A p \in StoredSession : p.manifest \subseteq Kernels
    BY DEF StoredSession
  <2> QED BY <1>0, <2>1, <2>2 DEF Expected, Ids
<1>3. SessionsAreSound'
  <2>1. \A k \in Kernels : store'[k] # NoVal => KernelSession(store'[k])
    BY <1>0, <1>2 DEF SessionsAreSound
  <2>2. store'[Root] # NoVal =>
           IF control.input.pinned THEN KernelSession(store'[Root]) ELSE ParentSession(store'[Root])
    BY <1>0, <1>2 DEF SessionsAreSound
  <2>3. ASSUME store'[Root] # NoVal, store'[Root].core.status \in {"COMPLETED", "INCONCLUSIVE"}
        PROVE  AllPresent'
    <3>1. CASE i = Root
      <4>1. Expected' = {Root} \cup n.manifest
        BY <1>0, <1>2, <3>1 DEF Expected
      <4>2. \A k \in n.manifest : store[k] # NoVal
        BY <1>0, <2>3, <3>1
      <4>3. n.manifest \subseteq Kernels
        BY DEF StoredSession
      <4> QED BY <1>0, <1>2, <3>1, <4>1, <4>2, <4>3 DEF AllPresent
    <3>2. CASE i # Root
      <4>1. store'[Root] = store[Root] /\ Expected' = Expected
        BY <1>0, <1>2, <3>2 DEF Expected
      <4>2. AllPresent
        BY <2>3, <4>1 DEF SessionsAreSound
      <4> QED BY <1>0, <1>2, <4>1, <4>2 DEF AllPresent
    <3> QED BY <3>1, <3>2
  <2> QED BY <2>1, <2>2, <2>3 DEF SessionsAreSound
<1>4. RecordIsTrue'
  <2> SUFFICES ASSUME control.summary # NoVal
               PROVE  control.identity # NoVal /\ store'[Root] # NoVal /\ TrueSummary(control.summary)'
    BY DEF RecordIsTrue
  <2>1. /\ control.identity # NoVal /\ store[Root] # NoVal /\ control.summary.status = "RUNNING"
        /\ control.input.mode = "FILE" /\ Status(Root) = "FAILED"
        /\ ~AllPresent /\ control.summary.publication = "PENDING"
    BY DEF RecordIsTrue, TrueSummary, Ended
  <2>2. store[i] # NoVal
    BY <2>1
  <2>3. /\ store'[Root] # NoVal /\ store'[Root].core.status = "FAILED"
        /\ store'[Root].manifest = store[Root].manifest
    BY <1>0, <1>2, <2>1, <2>2 DEF Advances, Terminal
  <2>4. Expected' = Expected
    BY <2>1, <2>3 DEF Expected
  <2>5. ~AllPresent'
    BY <1>0, <1>2, <2>1, <2>2, <2>4 DEF AllPresent
  <2> QED BY <2>1, <2>3, <2>5 DEF TrueSummary
<1>5. FileIsOfSessions'
  <2> SUFFICES ASSUME file # NoVal, NEW r \in file.reports
               PROVE  /\ HasReport(r.id)' /\ store'[r.id].core.evidence = r.evidence
                      /\ store'[r.id].core.status = r.status
    BY DEF FileIsOfSessions
  <2>1. r.id \in Ids
    BY DEF FileTypes, OutputFile, Report
  <2>2. HasReport(r.id) /\ store[r.id].core.evidence = r.evidence /\ Status(r.id) = r.status
    BY DEF FileIsOfSessions
  <2>3. Status(r.id) \in Terminal
    <3>1. KernelSession(store[r.id]) \/ ParentSession(store[r.id])
      BY <2>1, <2>2 DEF SessionsAreSound, HasReport, Ids
    <3> QED BY <2>2, <3>1 DEF HasReport, KernelSession, KernelCore, ParentSession, Terminal
  <2>4. CASE r.id = i
    BY <1>0, <2>2, <2>3, <2>4 DEF HasReport, Advances
  <2>5. CASE r.id # i
    BY <1>0, <2>1, <2>2, <2>5 DEF HasReport
  <2> QED BY <2>4, <2>5
<1>6. DeliveredFileAgrees'
  BY <1>5 DEF DeliveredFileAgrees, FileIsOfSessions, Ended
<1> QED BY <1>1, <1>3, <1>4, <1>5, <1>6

(* The driver moves on and every file stays as it is.                      *)
LEMMA QuietStep ==
    ASSUME LocalInv, NEW d \in Drivers, pc[d] \notin {"idle", "bind", "root"},
           NEW at \in Places \ {"idle"}, pc' = [pc EXCEPT ![d] = at],
           UNCHANGED <<control, store, file, late, clash, lock, runtime, rev>>, DriverType',
           IsCurrent(d)', LeavesNothing(d)', IsTruthful(d)'
    PROVE  LocalInv'
<1>1. FilesInv'
  BY SameFiles
<1>2. HasRun(d)'
  BY DEF LocalInv, DriverInv, HasRun
<1> QED BY <1>1, <1>2, MoveStep DEF DriverInv

LEMMA FirstIn == ASSUME NEW S, S # {} PROVE FirstOf(S) \in S
BY DEF FirstOf

(* Every stored session is a kernel's or a parent's, and owes an effect.   *)
LEMMA SessionIs ==
    ASSUME LocalInv, NEW i \in Ids, store[i] # NoVal
    PROVE  /\ store[i] \in StoredSession
           /\ IF i = Root /\ ~control.input.pinned THEN ParentSession(store[i])
              ELSE KernelSession(store[i])
BY DEF LocalInv, FilesInv, SessionsAreSound, KernelSession, ParentSession, Ids

LEMMA OwedIs ==
    ASSUME NEW p, KernelSession(p) \/ ParentSession(p)
    PROVE  /\ Owed(p) \in Effects \cup {"CREATE_CHILD_SESSIONS"}
           /\ Owed(p) = "NONE" => p.core.status \in Terminal
           /\ Owed(p) = "CREATE_CHILD_SESSIONS" => p.core.status = "WAITING_CHILDREN"
           /\ Owed(p) = "SUBMIT_EXPERIMENTS" =>
                 p.core.status \in {"WAITING_INITIAL", "WAITING_FOLLOWUP"}
           /\ Owed(p) = "RUN_TRIAGE" => p.core.status = "WAITING_TRIAGE"
           /\ Owed(p) = "RUN_REASONER" => p.core.status = "WAITING_REASONER"
           /\ Owed(p) = "PUBLISH_REPORT" =>
                 p.core.status \in Terminal /\ p.core.report_publication = "PENDING"
<1>1. p.core.status \in Statuses \cup {"WAITING_CHILDREN"}
  BY DEF KernelSession, KernelCore, ParentSession, Statuses, Waiting
<1>2. CASE p.core.status = "WAITING_CHILDREN"
  BY <1>2 DEF Owed
<1>3. CASE p.core.status # "WAITING_CHILDREN"
  BY <1>1, <1>3, ResumeIs DEF Owed, Statuses, Waiting, Effects
<1> QED BY <1>2, <1>3

(* What the files say is a matter of the store alone.                      *)
LEMMA SameStore ==
    ASSUME UNCHANGED store
    PROVE  /\ Expected' = Expected /\ Present(Expected)' = Present(Expected)
           /\ AllPresent' <=> AllPresent
           /\ \A i : /\ Status(i)' = Status(i) /\ Row(i)' = Row(i)
                     /\ Settled(i)' <=> Settled(i)
BY DEF Expected, Present, AllPresent, Status, Row, Settled

LEMMA BeginEffectKeeps == ASSUME LocalInv, NEW d \in Drivers, BeginEffect(d) PROVE LocalInv'
<1>1. /\ pc[d] = "drive" /\ pc' = [pc EXCEPT ![d] = "effect"]
      /\ UNCHANGED <<control, store, file, lock, late, runtime, cur, todo, res, rev, clash>>
  BY DEF BeginEffect, Goto
<1>2. pc'[d] = "effect" /\ DriverType'
  BY <1>1 DEF LocalInv, DriverType, Places
<1>3. IsCurrent(d)'
  BY <1>1, <1>2 DEF LocalInv, DriverInv, IsCurrent
<1>4. LeavesNothing(d)'
  <2>1. LeavesNothing(d)
    BY DEF LocalInv, DriverInv
  <2> QED BY <1>1, <1>2, <2>1, SameStore DEF LeavesNothing, BehindIsSettled
<1>5. IsTruthful(d)'
  BY <1>2 DEF IsTruthful
<1> QED BY <1>1, <1>2, <1>3, <1>4, <1>5, QuietStep DEF Places

LEMMA DriveReturnsKeeps == ASSUME LocalInv, NEW d \in Drivers, DriveReturns(d) PROVE LocalInv'
<1> DEFINE at == IF cur[d].id = Root THEN "fanout" ELSE "children"
<1>1. /\ pc[d] = "drive" /\ pc' = [pc EXCEPT ![d] = at]
      /\ late \/ cur[d].effect \in {"NONE", "CREATE_CHILD_SESSIONS"}
      /\ UNCHANGED <<control, store, file, lock, late, runtime, cur, todo, res, rev, clash>>
  BY DEF DriveReturns, Goto
<1>2. pc'[d] = at /\ DriverType' /\ at \in Places \ {"idle"}
  BY <1>1 DEF LocalInv, DriverType, Places
<1>3. IsCurrent(d) /\ LeavesNothing(d) /\ cur[d].id \in Ids
  BY DEF LocalInv, DriverInv, DriverType, Driven
<1>4. store[cur[d].id] # NoVal /\ cur[d].effect = Owed(store[cur[d].id])
  BY <1>1, <1>3 DEF IsCurrent
<1>5. ~late => Status(cur[d].id) \in Terminal \cup {"WAITING_CHILDREN"}
  BY <1>1, <1>3, <1>4, SessionIs, OwedIs DEF Status
<1>6. cur[d].id # Root => Status(cur[d].id) # "WAITING_CHILDREN"
  BY <1>3, <1>4, SessionIs DEF Status, KernelSession, KernelCore, Statuses, Waiting, Terminal
<1>7. IsCurrent(d)'
  BY <1>1, <1>2, <1>3 DEF IsCurrent
<1>8. LeavesNothing(d)'
  <2>1. CASE cur[d].id = Root
    BY <1>1, <1>2, <1>5, <2>1, SameStore DEF LeavesNothing
  <2>2. CASE cur[d].id # Root
    <3>1. ~late => BehindIsSettled(todo[d])
      BY <1>1, <1>3, <1>5, <1>6, <2>2 DEF LeavesNothing, BehindIsSettled, Settled
    <3> QED BY <1>1, <1>2, <2>2, <3>1, SameStore DEF LeavesNothing, BehindIsSettled
  <2> QED BY <2>1, <2>2
<1>9. IsTruthful(d)'
  BY <1>2 DEF IsTruthful
<1> HIDE DEF at
<1> QED BY <1>1, <1>2, <1>7, <1>8, <1>9, QuietStep

LEMMA FanoutKeeps == ASSUME LocalInv, NEW d \in Drivers, Fanout(d) PROVE LocalInv'
<1> DEFINE at == IF cur[d].rec.core.status = "WAITING_CHILDREN" /\ ~late
                 THEN "create" ELSE "children"
<1>1. /\ pc[d] = "fanout" /\ pc' = [pc EXCEPT ![d] = at]
      /\ todo' = [todo EXCEPT ![d] = Expected \ {Root}]
      /\ UNCHANGED <<control, store, file, lock, late, runtime, cur, res, rev, clash>>
  BY DEF Fanout, Goto
<1>2. /\ cur[d].id = Root /\ store[Root] # NoVal /\ cur[d].rec = store[Root]
      /\ cur[d].effect = Owed(cur[d].rec) /\ LeavesNothing(d)
  BY <1>1 DEF LocalInv, DriverInv, IsCurrent
<1>3. /\ Expected = {Root} \cup store[Root].manifest /\ Root \notin store[Root].manifest
      /\ store[Root].manifest \subseteq Ids
  <2>1. store[Root] \in StoredSession
    BY <1>2, SessionIs DEF Ids
  <2> QED BY <1>2, <2>1, LocalAssumption DEF Expected, StoredSession, Ids
<1>4. pc'[d] = at /\ DriverType' /\ at \in Places \ {"idle"} /\ todo'[d] = store[Root].manifest
  BY <1>1, <1>3 DEF LocalInv, DriverType, Places
<1>5. IsCurrent(d)'
  BY <1>1, <1>2, <1>4, SameStore DEF IsCurrent, Status
<1>6. LeavesNothing(d)'
  <2>1. CASE at = "create"
    BY <1>4, <2>1 DEF LeavesNothing
  <2>2. CASE at = "children"
    <3>1. ~late => Status(Root) \in Terminal
      BY <1>1, <1>2, <2>2 DEF LeavesNothing, Status
    <3>2. Status(Root) \in {"COMPLETED", "INCONCLUSIVE"} => AllPresent
      BY <1>2 DEF LocalInv, FilesInv, SessionsAreSound
    <3>3. ~late => BehindIsSettled(store[Root].manifest)
      BY <1>3, <3>1, <3>2 DEF BehindIsSettled, Settled, Terminal
    <3> QED BY <1>1, <1>4, <2>2, <3>3, SameStore DEF LeavesNothing, BehindIsSettled
  <2> QED BY <2>1, <2>2
<1>7. IsTruthful(d)'
  BY <1>4 DEF IsTruthful
<1> HIDE DEF at
<1> QED BY <1>1, <1>4, <1>5, <1>6, <1>7, QuietStep

LEMMA DriveChildKeeps == ASSUME LocalInv, NEW d \in Drivers, DriveChild(d) PROVE LocalInv'
<1> DEFINE k == FirstOf(todo[d])
           at == IF store[k] = NoVal THEN "children" ELSE "drive"
           driven == [id |-> k, rec |-> store[k], effect |-> Owed(store[k])]
<1>1. /\ pc[d] = "children" /\ todo[d] # {} /\ todo' = [todo EXCEPT ![d] = todo[d] \ {k}]
      /\ UNCHANGED <<control, store, file, lock, late, runtime, res, rev, clash>>
  BY DEF DriveChild
<1>2. k \in todo[d] /\ k \in Ids /\ pc \in [Drivers -> Places]
  <2>1. todo[d] \subseteq Ids /\ pc \in [Drivers -> Places]
    BY DEF LocalInv, DriverType
  <2> QED BY <1>1, <2>1, FirstIn
<1> HIDE DEF k
<1>3. /\ pc' = [pc EXCEPT ![d] = at]
      /\ cur' = IF store[k] = NoVal THEN cur ELSE [cur EXCEPT ![d] = driven]
  BY <1>1, <1>2 DEF DriveChild, Drive, Goto, k
<1>4. store[k] # NoVal => driven \in Driven
  BY <1>2, SessionIs, OwedIs DEF Driven
<1> HIDE DEF driven
<1>5. /\ pc'[d] = at /\ DriverType' /\ at \in Places \ {"idle"} /\ todo'[d] = todo[d] \ {k}
      /\ store[k] # NoVal => cur'[d] = driven
  BY <1>1, <1>2, <1>3, <1>4 DEF LocalInv, DriverType, Places
<1>6. IsCurrent(d)'
  BY <1>1, <1>5 DEF IsCurrent, driven
<1>7. ~late => BehindIsSettled(todo[d])
  BY <1>1 DEF LocalInv, DriverInv, LeavesNothing
<1>8. LeavesNothing(d)'
  <2>1. CASE store[k] = NoVal
    <3>1. ~late => BehindIsSettled(todo[d] \ {k})
      BY <1>7, <2>1 DEF BehindIsSettled, Settled
    <3> QED BY <1>1, <1>5, <2>1, <3>1, SameStore DEF LeavesNothing, BehindIsSettled
  <2>2. CASE store[k] # NoVal
    <3>1. cur'[d].id = k /\ (todo[d] \ {k}) \cup {k} = todo[d]
      BY <1>2, <1>5, <2>2 DEF driven
    <3> QED BY <1>1, <1>5, <1>7, <2>2, <3>1, SameStore DEF LeavesNothing, BehindIsSettled
  <2> QED BY <2>1, <2>2
<1>9. IsTruthful(d)'
  BY <1>5 DEF IsTruthful
<1> HIDE DEF at
<1> QED BY <1>1, <1>3, <1>5, <1>6, <1>8, <1>9, QuietStep

-----------------------------------------------------------------------------
(* The summary, its publication and its acknowledgement.                   *)

LEMMA RowIs ==
    ASSUME LocalInv, NEW i \in Ids
    PROVE  /\ Row(i) \in SummaryRow
           /\ store[i] # NoVal => Row(i).status = Status(i)
           /\ store[i] = NoVal => Row(i).status \notin Terminal
<1>1. CASE store[i] = NoVal
  BY <1>1 DEF Row, SummaryRow, Publications, Terminal
<1>2. CASE store[i] # NoVal
  <2>1. /\ store[i].core.status \in Statuses \cup {"WAITING_CHILDREN"}
        /\ store[i].core.report_publication \in Publications
    <3>1. store[i].core \in Core
      BY <1>2, SessionIs DEF StoredSession
    <3> QED BY <3>1, CoreFields
  <2> QED BY <1>2, <2>1 DEF Row, SummaryRow, Status
<1> QED BY <1>1, <1>2

LEMMA ExpectedIs ==
    ASSUME LocalInv
    PROVE  /\ Expected \subseteq Ids /\ Root \in Expected /\ Root \in Ids
           /\ store[Root] # NoVal => store[Root].manifest \subseteq Kernels
<1>1. Root \in Ids /\ Kernels \subseteq Ids
  BY DEF Ids
<1>2. store[Root] # NoVal => store[Root].manifest \subseteq Kernels
  BY <1>1, SessionIs DEF StoredSession
<1> QED BY <1>1, <1>2 DEF Expected

(* A session that ended well has a report, or has started its manifest.    *)
LEMMA DiagnosedIs ==
    ASSUME LocalInv, AllPresent, \A i \in Expected : Status(i) \in {"COMPLETED", "INCONCLUSIVE"}
    PROVE  Diagnosed
<1> SUFFICES ASSUME NEW i \in Expected
             PROVE  HasReport(i) \/ (i = Root /\ store[i].children = store[i].manifest)
  BY DEF Diagnosed, AllPresent
<1>1. i \in Ids /\ store[i] # NoVal /\ store[i].core.status \in {"COMPLETED", "INCONCLUSIVE"}
  BY ExpectedIs DEF AllPresent, Status
<1>2. CASE i = Root /\ ~control.input.pinned
  <2>1. ParentSession(store[i])
    BY <1>1, <1>2, SessionIs
  <2> QED BY <1>1, <1>2, <2>1 DEF ParentSession, HasReport
<1>3. CASE ~(i = Root /\ ~control.input.pinned)
  <2>1. KernelSession(store[i])
    BY <1>1, <1>3, SessionIs
  <2> QED BY <1>1, <2>1 DEF KernelSession, KernelCore, HasReport
<1> QED BY <1>2, <1>3

LEMMA SummaryIs ==
    ASSUME LocalInv, control # NoVal, NEW pub \in {NoVal, "PENDING", "PUBLISHED", "FAILED"}
    PROVE  LET s == BuildRunSummary(control.input, Expected, pub)
           IN  /\ s \in RunSummary /\ s.rows = [i \in Expected |-> Row(i)]
               /\ s.publication = IF control.input.mode = "RETURN_ONLY" THEN "NOT_REQUESTED"
                                  ELSE IF pub = NoVal THEN "PENDING" ELSE pub
               /\ s.status = "COMPLETED" => Diagnosed
               /\ s.status = "EXPIRED" => late
               /\ s.status = "FAILED" => \/ s.publication = "FAILED"
                                         \/ \E i \in Present(Expected) : Status(i) = "FAILED"
               /\ s.status = "RUNNING" =>
                     /\ ~late
                     /\ \/ \E i \in Present(Expected) : Status(i) \notin Terminal
                        \/ ~AllPresent /\ ~(store[Root] # NoVal /\ Status(Root) = "FAILED")
                        \/ s.publication = "PENDING"
               /\ s.publication = "PENDING" => s.status \in {"EXPIRED", "RUNNING"}
<1> DEFINE rootFailed == store[Root] # NoVal /\ Status(Root) = "FAILED"
           missing    == Present(Expected) # Expected
           active     == \E i \in Present(Expected) : Status(i) \notin Terminal
           delivery   == IF control.input.mode = "RETURN_ONLY" THEN "NOT_REQUESTED"
                         ELSE IF pub = NoVal THEN "PENDING" ELSE pub
           pending    == active \/ (missing /\ ~rootFailed) \/ delivery = "PENDING"
           failed     == \/ \E i \in Present(Expected) : Status(i) = "FAILED"
                         \/ delivery = "FAILED"
                         \/ rootFailed /\ missing
           status == IF pending /\ late THEN "EXPIRED"
                     ELSE IF pending THEN "RUNNING"
                     ELSE IF failed THEN "FAILED" ELSE "COMPLETED"
           rows == [i \in Expected |-> Row(i)]
           s == BuildRunSummary(control.input, Expected, pub)
<1>1. s = [status |-> status, publication |-> delivery, rows |-> rows]
  BY DEF BuildRunSummary
<1>2. rows \in [Expected -> SummaryRow] /\ Expected \in SUBSET Ids
  BY RowIs, ExpectedIs
<1>3. delivery \in {"NOT_REQUESTED", "PENDING", "PUBLISHED", "FAILED"}
  OBVIOUS
<1>4. status \in {"RUNNING", "EXPIRED", "FAILED", "COMPLETED"}
  OBVIOUS
<1>5. rootFailed => \E i \in Present(Expected) : Status(i) = "FAILED"
  BY ExpectedIs DEF Present
<1>6. missing <=> ~AllPresent
  BY PresentIs
<1>7. status = "COMPLETED" => Diagnosed
  <2> SUFFICES ASSUME ~active, ~missing, ~failed PROVE Diagnosed
    OBVIOUS
  <2>1. AllPresent
    BY <1>6
  <2>2. ASSUME NEW i \in Expected PROVE Status(i) \in {"COMPLETED", "INCONCLUSIVE"}
    BY DEF Present, Terminal
  <2> QED BY <2>1, <2>2, DiagnosedIs
<1>8. status = "EXPIRED" => late
  OBVIOUS
<1>9. status = "FAILED" => delivery = "FAILED" \/ \E i \in Present(Expected) : Status(i) = "FAILED"
  BY <1>5
<1>10. status = "RUNNING" => ~late /\ (active \/ (~AllPresent /\ ~rootFailed) \/ delivery = "PENDING")
  BY <1>6
<1>11. delivery = "PENDING" => status \in {"EXPIRED", "RUNNING"}
  OBVIOUS
<1> HIDE DEF status, rows, delivery
<1>12. s \in RunSummary
  <2>1. rows \in UNION {[ids -> SummaryRow] : ids \in SUBSET Ids}
    BY <1>2
  <2> QED BY <1>1, <1>3, <1>4, <2>1 DEF RunSummary
<1>13. s.status = status /\ s.publication = delivery /\ s.rows = rows
  BY <1>1
<1> HIDE DEF s
<1> QED BY <1>7, <1>8, <1>9, <1>10, <1>11, <1>12, <1>13 DEF s, rows, delivery

(* A record without an ended summary has none, or one that is pending.     *)
LEMMA RecordIs ==
    ASSUME LocalInv, control # NoVal, ~Ended(control.summary)
    PROVE  /\ control \in RunControl /\ control.input.mode \in {"RETURN_ONLY", "FILE"}
           /\ control.revision \in Nat
           /\ control.summary # NoVal => control.summary.publication = "PENDING"
<1>1. control \in RunControl
  BY DEF LocalInv, FilesInv, FileTypes
<1>2. control.input \in Requests /\ control.revision \in Nat
  BY <1>1 DEF RunControl
<1>3. control.summary # NoVal => control.summary.publication = "PENDING"
  BY DEF LocalInv, FilesInv, RecordIsTrue, TrueSummary, Ended
<1> QED BY <1>1, <1>2, <1>3 DEF Requests

LEMMA SummarizeKeeps == ASSUME LocalInv, NEW d \in Drivers, Summarize(d) PROVE LocalInv'
<1> DEFINE pub == IF control.summary = NoVal THEN NoVal ELSE control.summary.publication
           s == BuildRunSummary(control.input, Expected, pub)
           at == IF DiagnosesFinished(s) /\ control.input.mode = "FILE" THEN "publish" ELSE "store"
<1>1. /\ pc[d] = "children" /\ todo[d] = {}
      /\ UNCHANGED <<control, store, file, lock, late, runtime, cur, todo, rev, clash>>
  BY DEF Summarize
<1>2. /\ HasRun(d) /\ LeavesNothing(d) /\ control # NoVal /\ ~Ended(control.summary)
      /\ store[Root] # NoVal
  BY <1>1 DEF LocalInv, DriverInv, HasRun
<1>3. /\ res' = [res EXCEPT ![d] = s] /\ pc' = [pc EXCEPT ![d] = at]
  BY <1>2 DEF Summarize, Result, Goto
<1>4. pub \in {NoVal, "PENDING", "PUBLISHED", "FAILED"} /\ (pub = NoVal \/ pub = "PENDING")
  BY <1>2, RecordIs
<1>5. /\ s \in RunSummary /\ s.rows = [i \in Expected |-> Row(i)]
      /\ s.publication = IF control.input.mode = "RETURN_ONLY" THEN "NOT_REQUESTED" ELSE "PENDING"
      /\ s.status = "COMPLETED" => Diagnosed
      /\ s.status = "EXPIRED" => late
      /\ s.status = "FAILED" => \/ s.publication = "FAILED"
                                \/ \E i \in Present(Expected) : Status(i) = "FAILED"
      /\ s.status = "RUNNING" =>
            /\ ~late
            /\ \/ \E i \in Present(Expected) : Status(i) \notin Terminal
               \/ ~AllPresent /\ ~(store[Root] # NoVal /\ Status(Root) = "FAILED")
               \/ s.publication = "PENDING"
      /\ s.publication = "PENDING" => s.status \in {"EXPIRED", "RUNNING"}
  <2> HIDE DEF pub
  <2> QED BY <1>2, <1>4, SummaryIs, Zenon
<1> HIDE DEF s, pub
<1>6. s # NoVal /\ DOMAIN s.rows = Expected /\ \A i \in Expected : s.rows[i] = Row(i)
  BY <1>5, LocalAssumption
<1>7. pc'[d] = at /\ res'[d] = s /\ at \in Places \ {"idle"}
  BY <1>3 DEF LocalInv, DriverType, Places
<1>8. DriverType'
  BY <1>1, <1>3, <1>5, <1>7 DEF LocalInv, DriverType
<1>9. ~late => /\ Status(Root) = "FAILED" \/ AllPresent
               /\ \A i \in Expected : Settled(i)
  BY <1>1, <1>2 DEF LeavesNothing, BehindIsSettled
<1>10. s.status = "RUNNING" =>
          s.publication = "PENDING" /\ control.input.mode = "FILE"
          /\ \A i \in Expected : store[i] # NoVal => Status(i) \in Terminal
  <2>1. s.status = "RUNNING" =>
           /\ s.publication = "PENDING"
           /\ \A i \in Expected : store[i] # NoVal => Status(i) \in Terminal
    BY <1>2, <1>5, <1>9 DEF Settled, Present
  <2> QED BY <1>2, <1>5, <2>1, RecordIs
<1>11. ASSUME at = "store" PROVE TrueSummary(s)
  <2>1. ASSUME s.status = "RUNNING" PROVE ~AllPresent
    <3>1. ~DiagnosesFinished(s)
      BY <1>10, <1>11, <2>1
    <3>2. PICK i \in Expected : Row(i).status \notin Terminal
      BY <1>6, <3>1 DEF DiagnosesFinished
    <3>3. i \in Ids
      BY ExpectedIs
    <3>4. store[i] = NoVal
      BY <1>10, <2>1, <3>2, <3>3, RowIs
    <3> QED BY <3>4 DEF AllPresent
  <2>2. s.status = "RUNNING" => Status(Root) = "FAILED"
    BY <1>5, <1>9, <2>1
  <2> QED BY <1>5, <1>10, <2>1, <2>2 DEF TrueSummary
<1>12. ASSUME at = "publish" PROVE control.input.mode = "FILE" /\ (late \/ AllEnded)
  <2>1. control.input.mode = "FILE" /\ DiagnosesFinished(s)
    BY <1>12
  <2>2. CASE Ended(s)
    BY <1>5, <2>1, <2>2 DEF Ended
  <2>3. CASE ~Ended(s)
    <3>1. \A i \in Expected : Row(i).status \in Terminal
      BY <1>6, <2>1, <2>3 DEF DiagnosesFinished
    <3> QED BY <2>1, <3>1, ExpectedIs, RowIs DEF AllEnded
  <2> QED BY <2>2, <2>3
<1>13. IsCurrent(d)' /\ LeavesNothing(d)'
  BY <1>7 DEF IsCurrent, LeavesNothing
<1>14. IsTruthful(d)'
  <2>1. CASE at = "publish"
    <3>1. AllEnded' <=> AllEnded
      BY <1>1, SameStore DEF AllEnded
    <3> QED BY <1>1, <1>7, <1>12, <2>1, <3>1 DEF IsTruthful
  <2>2. CASE at = "store"
    <3>1. TrueSummary(res[d])'
      <4>1. Diagnosed' <=> Diagnosed
        BY <1>1, SameStore DEF Diagnosed, HasReport
      <4>2. TrueSummary(s)
        BY <1>11, <2>2
      <4> QED BY <1>1, <1>7, <4>1, <4>2, SameStore DEF TrueSummary
    <3>2. s.publication # "PUBLISHED"
      BY <1>5
    <3> QED BY <1>6, <1>7, <2>2, <3>1, <3>2 DEF IsTruthful
  <2> QED BY <2>1, <2>2
<1> HIDE DEF at
<1> QED BY <1>1, <1>2, <1>3, <1>7, <1>8, <1>13, <1>14, QuietStep

LEMMA SameDiagnosed == ASSUME UNCHANGED store PROVE Diagnosed' <=> Diagnosed
BY SameStore DEF Diagnosed, HasReport

(* The delivered summary is that of the sessions but for its rows.         *)
LEMMA DeliveredIs ==
    ASSUME LocalInv, control # NoVal, control.input.mode = "FILE", late \/ AllEnded
    PROVE  /\ Delivered \in RunSummary /\ Delivered.publication = "PUBLISHED"
           /\ \A i \in Expected :
                 Delivered.rows[i] = IF i \in Unacknowledged THEN PublishedRow(i) ELSE Row(i)
           /\ Delivered.status # "RUNNING" /\ TrueSummary(Delivered)
<1> DEFINE s == BuildRunSummary(control.input, Expected, "PUBLISHED")
           rows == [i \in Expected |-> IF i \in Unacknowledged
                       THEN [Row(i) EXCEPT !.publication = "PUBLISHED"] ELSE Row(i)]
           f == [s EXCEPT !.rows = rows]
<1>1. Delivered = f
  BY DEF Delivered
<1>2. /\ s \in RunSummary /\ s.publication = "PUBLISHED"
      /\ s.status = "COMPLETED" => Diagnosed
      /\ s.status = "EXPIRED" => late
      /\ s.status = "FAILED" => \E i \in Present(Expected) : Status(i) = "FAILED"
      /\ s.status = "RUNNING" =>
            /\ ~late
            /\ \/ \E i \in Present(Expected) : Status(i) \notin Terminal
               \/ ~AllPresent
  <2>1. NoVal # "PUBLISHED"
    BY LocalAssumption
  <2> QED BY <2>1, SummaryIs
<1>3. s.status # "RUNNING"
  BY <1>2 DEF AllEnded, AllPresent, Present
<1>4. ASSUME NEW i \in Unacknowledged
      PROVE  [Row(i) EXCEPT !.publication = "PUBLISHED"] = PublishedRow(i)
  BY DEF Unacknowledged, Present, Row, PublishedRow
<1>5. ASSUME NEW i \in Expected PROVE rows[i] \in SummaryRow
  <2>1. Row(i) \in SummaryRow
    BY RowIs, ExpectedIs
  <2> QED BY <2>1 DEF SummaryRow, Publications
<1>6. \A i \in Expected : rows[i] = IF i \in Unacknowledged THEN PublishedRow(i) ELSE Row(i)
  BY <1>4
<1>7. rows \in UNION {[ids -> SummaryRow] : ids \in SUBSET Ids}
  <2>1. rows \in [Expected -> SummaryRow] /\ Expected \in SUBSET Ids
    BY <1>5, ExpectedIs
  <2> HIDE DEF rows
  <2> QED BY <2>1
<1> HIDE DEF s, rows
<1>8. f \in RunSummary /\ f.rows = rows /\ f.status = s.status /\ f.publication = s.publication
  BY <1>2, <1>7 DEF RunSummary
<1> HIDE DEF f
<1> QED BY <1>1, <1>2, <1>3, <1>6, <1>8 DEF TrueSummary

LEMMA PublishKeeps == ASSUME LocalInv, NEW d \in Drivers, Publish(d) PROVE LocalInv'
<1>1. /\ pc[d] = "publish" /\ pc' = [pc EXCEPT ![d] = "acknowledge"]
      /\ res' = [res EXCEPT ![d] = Delivered] /\ todo' = [todo EXCEPT ![d] = Unacknowledged]
      /\ file' = [summary |-> Delivered, reports |-> Reports(Expected)]
      /\ UNCHANGED <<control, store, lock, late, runtime, cur, rev, clash>>
  BY DEF Publish, Goto
<1>2. /\ HasRun(d) /\ control # NoVal /\ ~Ended(control.summary) /\ store[Root] # NoVal
      /\ control.input.mode = "FILE" /\ (late \/ AllEnded)
  BY <1>1 DEF LocalInv, DriverInv, HasRun, IsTruthful
<1>3. /\ Delivered \in RunSummary /\ Delivered.publication = "PUBLISHED"
      /\ \A i \in Expected :
            Delivered.rows[i] = IF i \in Unacknowledged THEN PublishedRow(i) ELSE Row(i)
      /\ Delivered.status # "RUNNING" /\ TrueSummary(Delivered) /\ Delivered # NoVal
  BY <1>2, DeliveredIs, LocalAssumption
<1> PICK s : s = Delivered
  OBVIOUS
<1>4. pc'[d] = "acknowledge" /\ res'[d] = s /\ todo'[d] = Unacknowledged /\ Unacknowledged \subseteq Ids
  BY <1>1, ExpectedIs DEF LocalInv, DriverType, Unacknowledged, Present
<1>5. DriverType'
  BY <1>1, <1>3, <1>4 DEF LocalInv, DriverType, Places
<1>6. Reports(Expected) \subseteq Report
  <2> SUFFICES ASSUME NEW i \in Expected, HasReport(i)
               PROVE  [id |-> i, status |-> Status(i), evidence |-> store[i].core.evidence] \in Report
    BY DEF Reports
  <2>1. i \in Ids /\ store[i] # NoVal
    BY ExpectedIs DEF HasReport
  <2>2. store[i].core \in Core
    BY <2>1, SessionIs DEF StoredSession
  <2> QED BY <2>1, <2>2, CoreFields DEF Report, Status
<1>7. file' \in OutputFile /\ file'.summary = s /\ file'.reports = Reports(Expected) /\ file' # NoVal
  BY <1>1, <1>3, <1>6, LocalAssumption DEF OutputFile
<1>8. FilesInv'
  <2> USE DEF LocalInv, FilesInv
  <2>1. FileTypes' /\ CheckpointsNeverConflict'
    BY <1>1, <1>7 DEF FileTypes, CheckpointsNeverConflict
  <2>2. RecordIsTrue'
    BY <1>1, SameStore, SameDiagnosed DEF RecordIsTrue, TrueSummary
  <2>3. SessionsAreSound'
    BY <1>1, SameStore DEF SessionsAreSound
  <2>4. FileIsOfSessions'
    <3> SUFFICES ASSUME NEW r \in Reports(Expected)
                 PROVE  /\ HasReport(r.id)' /\ store'[r.id].core.evidence = r.evidence
                        /\ store'[r.id].core.status = r.status
      BY <1>7 DEF FileIsOfSessions, Status
    <3> QED BY <1>1 DEF Reports, HasReport, Status
  <2>5. DeliveredFileAgrees'
    BY <1>1, <1>2, <2>4 DEF DeliveredFileAgrees, FileIsOfSessions, Ended
  <2> QED BY <2>1, <2>2, <2>3, <2>4, <2>5
<1>9. HasRun(d)' /\ IsCurrent(d)' /\ LeavesNothing(d)'
  BY <1>1, <1>2, <1>4 DEF HasRun, IsCurrent, LeavesNothing
<1>10. IsTruthful(d)'
  <2>1. Unacknowledged' = Unacknowledged /\ \A i : PublishedRow(i)' = PublishedRow(i)
    BY <1>1, SameStore DEF Unacknowledged, PublishedRow
  <2>2. TrueSummary(s)'
    BY <1>1, <1>3, SameStore, SameDiagnosed DEF TrueSummary
  <2>3. \A i \in Present(Expected)' :
           res'[d].rows[i] = IF i \in todo'[d] THEN PublishedRow(i)' ELSE Row(i)'
    BY <1>1, <1>3, <1>4, <2>1, SameStore DEF Present
  <2> QED BY <1>3, <1>4, <1>7, <2>1, <2>2, <2>3 DEF IsTruthful
<1> QED BY <1>1, <1>5, <1>8, <1>9, <1>10, MoveStep DEF DriverInv

LEMMA PublishFailsKeeps == ASSUME LocalInv, NEW d \in Drivers, PublishFails(d) PROVE LocalInv'
<1> PICK s : s = BuildRunSummary(control.input, Expected, "FAILED")
  OBVIOUS
<1>1. /\ pc[d] = "publish" /\ pc' = [pc EXCEPT ![d] = "store"] /\ res' = [res EXCEPT ![d] = s]
      /\ UNCHANGED <<control, store, file, lock, late, runtime, cur, todo, rev, clash>>
  BY DEF PublishFails, Goto
<1>2. /\ control # NoVal /\ ~Ended(control.summary) /\ store[Root] # NoVal
      /\ control.input.mode = "FILE" /\ (late \/ AllEnded)
  BY <1>1 DEF LocalInv, DriverInv, HasRun, IsTruthful
<1>3. /\ s \in RunSummary /\ s.publication = "FAILED"
      /\ s.status = "COMPLETED" => Diagnosed
      /\ s.status = "EXPIRED" => late
      /\ s.status = "RUNNING" => /\ ~late
                                 /\ \/ \E i \in Present(Expected) : Status(i) \notin Terminal
                                    \/ ~AllPresent
  <2>1. NoVal # "FAILED"
    BY LocalAssumption
  <2> QED BY <1>2, <2>1, SummaryIs
<1>4. s.status # "RUNNING" /\ s # NoVal
  BY <1>2, <1>3, LocalAssumption DEF AllEnded, AllPresent, Present
<1>5. pc'[d] = "store" /\ res'[d] = s
  BY <1>1 DEF LocalInv, DriverType
<1>6. DriverType'
  BY <1>1, <1>3 DEF LocalInv, DriverType, Places
<1>7. IsCurrent(d)' /\ LeavesNothing(d)'
  BY <1>5 DEF IsCurrent, LeavesNothing
<1>8. IsTruthful(d)'
  <2>1. TrueSummary(s)'
    BY <1>1, <1>3, <1>4, SameDiagnosed DEF TrueSummary
  <2> QED BY <1>3, <1>4, <1>5, <2>1 DEF IsTruthful
<1> QED BY <1>1, <1>6, <1>7, <1>8, QuietStep DEF Places

LEMMA AcknowledgedIs ==
    ASSUME LocalInv, NEW i \in Ids, store[i] # NoVal, store[i].core.report_publication = "PENDING"
    PROVE  LET q == Acknowledged(i)
           IN  /\ IF i = Root /\ ~control.input.pinned THEN ParentSession(q) ELSE KernelSession(q)
               /\ q \in StoredSession /\ Advances(store[i], q)
               /\ q.core.status = Status(i) /\ q.manifest = store[i].manifest
               /\ q.children = store[i].children /\ q.core.report_publication = "PUBLISHED"
<1> DEFINE p == store[i]
           c == [p.core EXCEPT !.report_publication = "PUBLISHED",
                               !.state_revision = p.core.state_revision + 1]
           q == [p EXCEPT !.core = c]
<1>1. /\ p \in StoredSession
      /\ IF i = Root /\ ~control.input.pinned THEN ParentSession(p) ELSE KernelSession(p)
      /\ p.core \in Core
  <2>1. p \in StoredSession
    BY SessionIs
  <2> QED BY <2>1, SessionIs DEF StoredSession
<1>2. Acknowledged(i) = q
  BY <1>1 DEF Acknowledged, StoredSession, Core
<1>3. /\ p.core.status \in Terminal /\ p.core.state_revision + 1 \in Nat
      /\ p.core.report_publication = "PENDING" /\ p.core.status = Status(i)
  BY <1>1, CoreFields DEF KernelSession, KernelCore, ParentSession, Terminal, Status
<1> HIDE DEF p
<1>4. /\ c \in Core /\ c.status = p.core.status /\ c.evidence = p.core.evidence
      /\ c.pending = p.core.pending /\ c.report_publication = "PUBLISHED"
      /\ c.state_revision = p.core.state_revision + 1
  BY <1>1, <1>3 DEF Core, Publications
<1> HIDE DEF c
<1>5. q \in StoredSession /\ q.core = c /\ q.manifest = p.manifest /\ q.children = p.children
  BY <1>1, <1>4 DEF StoredSession
<1> HIDE DEF q
<1>6. Advances(p, q)
  BY <1>3, <1>4, <1>5 DEF Advances
<1>7. KernelSession(p) => KernelSession(q)
  BY <1>3, <1>4, <1>5 DEF KernelSession, KernelCore
<1>8. ParentSession(p) => ParentSession(q)
  BY <1>3, <1>4, <1>5 DEF ParentSession
<1> QED BY <1>1, <1>2, <1>3, <1>4, <1>5, <1>6, <1>7, <1>8 DEF p

LEMMA AcknowledgeOne ==
    ASSUME LocalInv, NEW d \in Drivers, pc[d] = "acknowledge", NEW i \in todo[d],
           store' = [store EXCEPT ![i] = Acknowledged(i)],
           todo' = [todo EXCEPT ![d] = todo[d] \ {i}],
           UNCHANGED <<pc, control, file, lock, late, runtime, cur, res, rev, clash>>
    PROVE  LocalInv'
<1> PICK q : q = Acknowledged(i)
  OBVIOUS
<1>1. /\ HasRun(d) /\ IsTruthful(d) /\ control # NoVal /\ ~Ended(control.summary)
      /\ store[Root] # NoVal /\ lock = d
  BY DEF LocalInv, DriverInv, HasRun
<1>2. /\ i \in Expected /\ i \in Ids /\ store[i] # NoVal
      /\ store[i].core.report_publication = "PENDING"
  BY <1>1, ExpectedIs DEF IsTruthful, Unacknowledged, Present
<1>3. /\ IF i = Root /\ ~control.input.pinned THEN ParentSession(q) ELSE KernelSession(q)
      /\ q \in StoredSession /\ Advances(store[i], q)
      /\ q.core.status = Status(i) /\ q.manifest = store[i].manifest
      /\ q.children = store[i].children /\ q.core.report_publication = "PUBLISHED"
  BY <1>2, AcknowledgedIs
<1>4. /\ q # NoVal /\ store'[i] = q /\ \A j \in Ids : j # i => store'[j] = store[j]
      /\ store' = [store EXCEPT ![i] = q]
  BY <1>2, <1>3, LocalAssumption DEF LocalInv, FilesInv, FileTypes
<1>5. FilesInv'
  <2>1. i = Root /\ q.core.status \in {"COMPLETED", "INCONCLUSIVE"} =>
           \A k \in q.manifest : store[k] # NoVal
    <3> SUFFICES ASSUME i = Root, q.core.status \in {"COMPLETED", "INCONCLUSIVE"}
                 PROVE  \A k \in store[Root].manifest : store[k] # NoVal
      BY <1>3
    <3>1. AllPresent
      BY <1>2, <1>3 DEF LocalInv, FilesInv, SessionsAreSound
    <3> QED BY <1>1, <3>1 DEF AllPresent, Expected
  <2> QED BY <1>1, <1>2, <1>3, <1>4, <2>1, StoreFiles
<1>6. /\ Expected' = Expected /\ Present(Expected)' = Present(Expected)
      /\ \A j \in Expected : j \in Ids /\ Status(j)' = Status(j)
      /\ \A j \in Expected : j # i => Row(j)' = Row(j)
      /\ Row(i)' = PublishedRow(i) /\ PublishedRow(i)' = PublishedRow(i)
  <2>1. Expected' = Expected
    BY <1>1, <1>2, <1>3, <1>4, ExpectedIs DEF Expected
  <2>2. \A j \in Expected : j \in Ids /\ Status(j)' = Status(j)
    BY <1>3, <1>4, ExpectedIs DEF Status
  <2>3. Present(Expected)' = Present(Expected)
    BY <1>2, <1>4, <2>1, <2>2 DEF Present
  <2>4. Row(i)' = PublishedRow(i) /\ PublishedRow(i)' = PublishedRow(i)
    BY <1>2, <1>3, <1>4, <2>2 DEF Row, PublishedRow
  <2>5. \A j \in Expected : j # i => Row(j)' = Row(j)
    BY <1>4, <2>2 DEF Row
  <2> QED BY <2>1, <2>2, <2>3, <2>4, <2>5
<1>7. todo'[d] = todo[d] \ {i} /\ todo[d] \subseteq Ids
  BY DEF LocalInv, DriverType
<1>8. DriverType'
  BY <1>7 DEF LocalInv, DriverType
<1>9. HasRun(d)' /\ IsCurrent(d)' /\ LeavesNothing(d)'
  BY <1>1, <1>4, ExpectedIs DEF HasRun, IsCurrent, LeavesNothing
<1>10. TrueSummary(res[d])'
  <2>1. AllPresent' <=> AllPresent
    BY <1>2, <1>4, <1>6 DEF AllPresent
  <2>2. ASSUME Diagnosed PROVE Diagnosed'
    <3> SUFFICES ASSUME NEW j \in Expected
                 PROVE  /\ store'[j] # NoVal
                        /\ HasReport(j)' \/ (j = Root /\ store'[j].children = store'[j].manifest)
      BY <1>6, <2>2 DEF Diagnosed
    <3>1. CASE j = i
      BY <1>3, <1>4, <3>1 DEF HasReport
    <3>2. CASE j # i
      BY <1>4, <1>6, <2>2, <3>2 DEF HasReport, Diagnosed
    <3> QED BY <3>1, <3>2
  <2>3. Present(Expected) \subseteq Expected /\ Root \in Expected
    BY DEF Present, Expected
  <2>4. TrueSummary(res[d])
    BY <1>1 DEF IsTruthful
  <2> QED BY <1>6, <2>1, <2>2, <2>3, <2>4 DEF TrueSummary
<1>11. IsTruthful(d)'
  <2>1. todo'[d] \subseteq Unacknowledged'
    <3> SUFFICES ASSUME NEW j \in todo[d], j # i PROVE j \in Unacknowledged'
      BY <1>7
    <3>1. j \in Unacknowledged
      BY <1>1 DEF IsTruthful
    <3>2. j \in Expected
      BY <3>1 DEF Unacknowledged, Present
    <3> QED BY <1>4, <1>6, <3>1, <3>2 DEF Unacknowledged
  <2>2. /\ res[d] # NoVal /\ res[d].publication = "PUBLISHED"
        /\ file # NoVal /\ file.summary = res[d]
        /\ \A j \in Present(Expected) :
              res[d].rows[j] = IF j \in todo[d] THEN PublishedRow(j) ELSE Row(j)
    BY <1>1 DEF IsTruthful
  <2>3. \A j \in Present(Expected)' :
           res'[d].rows[j] = IF j \in todo'[d] THEN PublishedRow(j)' ELSE Row(j)'
    <3> SUFFICES ASSUME NEW j \in Present(Expected)
                 PROVE  res[d].rows[j] = IF j \in todo'[d] THEN PublishedRow(j)' ELSE Row(j)'
      BY <1>6
    <3>1. j \in Expected
      BY DEF Present
    <3>2. CASE j = i
      BY <1>6, <1>7, <2>2, <3>2
    <3>3. CASE j # i
      BY <1>6, <1>7, <2>2, <3>1, <3>3 DEF PublishedRow
    <3> QED BY <3>2, <3>3
  <2> QED BY <1>10, <2>1, <2>2, <2>3 DEF IsTruthful
<1>12. pc' = [pc EXCEPT ![d] = "acknowledge"]
  BY DEF LocalInv, DriverType
<1> QED BY <1>5, <1>8, <1>9, <1>11, <1>12, MoveStep DEF DriverInv

LEMMA AcknowledgeKeeps == ASSUME LocalInv, NEW d \in Drivers, Acknowledge(d) PROVE LocalInv'
<1>1. /\ pc[d] = "acknowledge"
      /\ UNCHANGED <<control, file, lock, late, runtime, cur, res, rev, clash>>
  BY DEF Acknowledge
<1>2. CASE todo[d] = {}
  <2>1. pc' = [pc EXCEPT ![d] = "store"] /\ UNCHANGED <<store, todo>>
    BY <1>2 DEF Acknowledge, Goto
  <2>2. pc'[d] = "store" /\ DriverType'
    BY <1>1, <2>1 DEF LocalInv, DriverType, Places
  <2>3. IsCurrent(d)' /\ LeavesNothing(d)'
    BY <2>2 DEF IsCurrent, LeavesNothing
  <2>4. IsTruthful(d)'
    <3>1. IsTruthful(d)
      BY DEF LocalInv, DriverInv
    <3>2. TrueSummary(res[d])'
      BY <1>1, <2>1, <3>1, SameStore, SameDiagnosed DEF IsTruthful, TrueSummary
    <3> QED BY <1>1, <1>2, <2>1, <2>2, <3>1, <3>2, SameStore DEF IsTruthful
  <2> QED BY <1>1, <2>1, <2>2, <2>3, <2>4, QuietStep DEF Places
<1>3. CASE todo[d] # {}
  <2>1. UNCHANGED pc
    BY <1>3 DEF Acknowledge
  <2>2. PICK i \in todo[d] : /\ store' = [store EXCEPT ![i] = Acknowledged(i)]
                             /\ todo' = [todo EXCEPT ![d] = todo[d] \ {i}]
    BY <1>3 DEF Acknowledge
  <2> QED BY <1>1, <2>1, <2>2, AcknowledgeOne
<1> QED BY <1>2, <1>3

LEMMA BumpType == ASSUME NEW n \in Nat PROVE Bump(n) \in Nat
BY DEF Bump

LEMMA StoreSummaryKeeps == ASSUME LocalInv, NEW d \in Drivers, StoreSummary(d) PROVE LocalInv'
<1>1. pc[d] = "store" /\ Leave(d) /\ UNCHANGED <<store, file, late>>
  BY DEF StoreSummary
<1>2. /\ HasRun(d) /\ IsTruthful(d) /\ control # NoVal /\ ~Ended(control.summary)
      /\ control.revision = rev[d] /\ control.identity # NoVal /\ store[Root] # NoVal
  BY <1>1 DEF LocalInv, DriverInv, HasRun
<1>3. UNCHANGED clash /\ control' = [control EXCEPT !.revision = Bump(control.revision), !.summary = res[d]]
  BY <1>2 DEF StoreSummary
<1>4. control \in RunControl /\ Bump(control.revision) \in Nat /\ res[d] \in RunSummary
  BY <1>1, <1>2, RecordIs, BumpType DEF IsTruthful, LocalInv, DriverType
<1>5. /\ control' \in RunControl /\ control'.input = control.input /\ control'.summary = res[d]
      /\ control'.identity = control.identity
  BY <1>3, <1>4 DEF RunControl
<1>6. control' # NoVal
  BY <1>5, LocalAssumption
<1>7. FilesInv'
  <2> USE DEF LocalInv, FilesInv
  <2>1. FileTypes' /\ CheckpointsNeverConflict'
    BY <1>1, <1>3, <1>5 DEF FileTypes, CheckpointsNeverConflict
  <2>2. RecordIsTrue'
    <3>1. TrueSummary(res[d])
      BY <1>1, <1>2 DEF IsTruthful
    <3>2. TrueSummary(control.summary)'
      BY <1>1, <1>5, <3>1, SameStore, SameDiagnosed DEF TrueSummary
    <3> QED BY <1>1, <1>2, <1>5, <3>2 DEF RecordIsTrue
  <2>3. SessionsAreSound'
    BY <1>1, <1>5, <1>6, SameStore DEF SessionsAreSound
  <2>4. FileIsOfSessions'
    BY <1>1, SameStore DEF FileIsOfSessions, HasReport
  <2>5. DeliveredFileAgrees'
    <3>1. ASSUME res[d].publication = "PUBLISHED"
          PROVE  /\ file # NoVal /\ file.summary = res[d]
                 /\ \A i \in Present(Expected) : file.summary.rows[i] = Row(i)
      BY <1>1, <1>2, <3>1 DEF IsTruthful
    <3> QED BY <1>1, <1>5, <2>4, <3>1, SameStore DEF DeliveredFileAgrees, FileIsOfSessions
  <2> QED BY <2>1, <2>2, <2>3, <2>4, <2>5
<1> QED BY <1>1, <1>7, LeaveStep

(* Only the revision and the identity of the Run record change.            *)
LEMMA BindBackendKeeps == ASSUME LocalInv, NEW d \in Drivers, BindBackend(d) PROVE LocalInv'
<1>1. pc[d] = "bind" /\ UNCHANGED <<store, file, late, clash>>
  BY DEF BindBackend
<1>2. CASE ~SameBackend(d)
  BY <1>1, <1>2, SameFiles, LeaveStep DEF BindBackend
<1>3. CASE SameBackend(d)
  <2>1. /\ control' = IF control.identity # NoVal THEN control
                      ELSE [control EXCEPT !.revision = Bump(control.revision), !.identity = runtime[d]]
        /\ rev' = [rev EXCEPT ![d] = control'.revision] /\ pc' = [pc EXCEPT ![d] = "root"]
        /\ UNCHANGED <<runtime, cur, todo, res, lock>>
    BY <1>3 DEF BindBackend, Goto
  <2>2. control # NoVal /\ control \in RunControl /\ lock = d /\ runtime[d] \in Identities
    BY <1>1 DEF LocalInv, DriverInv, HasRun, FilesInv, FileTypes, DriverType
  <2>3. Bump(control.revision) \in Nat
    BY <2>2, BumpType DEF RunControl
  <2>4. /\ control' \in RunControl /\ control'.input = control.input
        /\ control'.summary = control.summary /\ control'.identity # NoVal
    BY <2>1, <2>2, <2>3, LocalAssumption DEF RunControl
  <2>5. control' # NoVal /\ control'.revision \in Nat
    BY <2>4, LocalAssumption DEF RunControl
  <2>6. FilesInv'
    <3> USE DEF LocalInv, FilesInv
    <3>1. FileTypes' /\ CheckpointsNeverConflict'
      BY <1>1, <2>4 DEF FileTypes, CheckpointsNeverConflict
    <3>2. RecordIsTrue'
      BY <1>1, <2>2, <2>4, SameStore, SameDiagnosed DEF RecordIsTrue, TrueSummary
    <3>3. SessionsAreSound'
      BY <1>1, <2>4, <2>5, SameStore DEF SessionsAreSound
    <3>4. FileIsOfSessions'
      BY <1>1, SameStore DEF FileIsOfSessions, HasReport
    <3>5. DeliveredFileAgrees'
      BY <1>1, <2>2, <2>4, SameStore DEF DeliveredFileAgrees
    <3> QED BY <3>1, <3>2, <3>3, <3>4, <3>5
  <2>7. pc'[d] = "root" /\ rev'[d] = control'.revision /\ DriverType'
    BY <2>1, <2>5 DEF LocalInv, DriverType, Places
  <2>8. runtime'[d] # NoVal
    BY <2>1, <2>2, LocalAssumption
  <2>9. DriverInv(d)'
    BY <2>1, <2>2, <2>4, <2>5, <2>7, <2>8
       DEF DriverInv, HasRun, IsCurrent, LeavesNothing, IsTruthful
  <2> QED BY <1>1, <2>1, <2>6, <2>7, <2>9, MoveStep
<1> QED BY <1>2, <1>3

LEMMA AlreadyEndedKeeps == ASSUME LocalInv, NEW d \in Drivers, AlreadyEnded(d) PROVE LocalInv'
BY SameFiles, LeaveStep DEF AlreadyEnded

LEMMA CrashKeeps == ASSUME LocalInv, NEW d \in Drivers, Crash(d) PROVE LocalInv'
BY SameFiles, LeaveStep DEF Crash

LEMMA RunKeeps == ASSUME LocalInv, NEW d \in Drivers, NEW b \in Identities, Run(d, b) PROVE LocalInv'
<1>1. /\ lock = NoVal /\ lock' = d /\ runtime' = [runtime EXCEPT ![d] = b]
      /\ pc' = [pc EXCEPT ![d] = "bind"]
      /\ UNCHANGED <<store, file, late, cur, todo, res, rev, clash>>
  BY DEF Run, Execution, Goto
<1>2. \A e \in Drivers : pc[e] = "idle"
  BY <1>1, LocalAssumption DEF LocalInv, DriverInv, HasRun
<1>3. DriverType' /\ pc'[d] = "bind" /\ runtime'[d] = b
  BY <1>1 DEF LocalInv, DriverType, Places
<1>4. control' # NoVal /\ FilesInv'
  <2>1. CASE control # NoVal
    <3>1. UNCHANGED control
      BY <2>1 DEF Run
    <3> QED BY <1>1, <2>1, <3>1, SameFiles
  <2>2. CASE control = NoVal
    <3>1. PICK input \in Inputs :
             control' = [revision |-> 0, input |-> input, identity |-> NoVal, summary |-> NoVal]
      BY <2>2 DEF Run
    <3>2. control' \in RunControl /\ control'.summary = NoVal
      BY <3>1, LocalAssumption DEF RunControl
    <3>3. control' # NoVal
      BY <3>2, LocalAssumption
    <3> USE DEF LocalInv, FilesInv
    <3>4. store[Root] = NoVal
      BY <2>2 DEF SessionsAreSound
    <3>5. FileTypes' /\ CheckpointsNeverConflict'
      BY <1>1, <3>2 DEF FileTypes, CheckpointsNeverConflict
    <3>6. RecordIsTrue' /\ SessionsAreSound'
      BY <1>1, <3>2, <3>4 DEF RecordIsTrue, SessionsAreSound
    <3>7. FileIsOfSessions'
      BY <1>1, SameStore DEF FileIsOfSessions, HasReport
    <3>8. DeliveredFileAgrees'
      BY <3>2, <3>7 DEF DeliveredFileAgrees, FileIsOfSessions, Ended
    <3> QED BY <3>3, <3>5, <3>6, <3>7, <3>8
  <2> QED BY <2>1, <2>2
<1>5. DriverInv(d)'
  BY <1>1, <1>3, <1>4, LocalAssumption
     DEF DriverInv, HasRun, IsCurrent, LeavesNothing, IsTruthful
<1>6. ASSUME NEW e \in Drivers, e # d PROVE DriverInv(e)'
  <2>1. pc'[e] = "idle"
    BY <1>1, <1>2, <1>6 DEF LocalInv, DriverType
  <2> QED BY <2>1, IdleDriver
<1> QED BY <1>3, <1>4, <1>5, <1>6 DEF LocalInv

(* Nothing moves but, perhaps, the clock.                                  *)
LEMMA ClockKeeps ==
    ASSUME LocalInv, UNCHANGED <<control, store, file, lock, pc, runtime, cur, todo, res, rev, clash>>,
           late => late'
    PROVE  LocalInv'
<1>1. FilesInv'
  BY SameFiles
<1>2. DriverType'
  BY DEF LocalInv, DriverType
<1>3. ASSUME NEW d \in Drivers PROVE DriverInv(d)'
  <2>1. HasRun(d) /\ IsCurrent(d) /\ LeavesNothing(d) /\ IsTruthful(d)
    BY DEF LocalInv, DriverInv
  <2>2. HasRun(d)' /\ IsCurrent(d)'
    BY <2>1, SameStore DEF HasRun, IsCurrent
  <2>3. LeavesNothing(d)'
    BY <2>1, SameStore DEF LeavesNothing, BehindIsSettled
  <2>4. IsTruthful(d)'
    <3>1. TrueSummary(res[d]) => TrueSummary(res[d])'
      BY SameStore, SameDiagnosed DEF TrueSummary
    <3>2. /\ AllEnded' <=> AllEnded
          /\ Unacknowledged' = Unacknowledged /\ \A i : PublishedRow(i)' = PublishedRow(i)
      BY SameStore DEF AllEnded, Unacknowledged, PublishedRow
    <3> QED BY <2>1, <3>1, <3>2, SameStore DEF IsTruthful
  <2> QED BY <2>2, <2>3, <2>4 DEF DriverInv
<1> QED BY <1>1, <1>2, <1>3 DEF LocalInv

-----------------------------------------------------------------------------
(* Sessions are created and saved.                                         *)

LEMMA LoadRootKeeps == ASSUME LocalInv, NEW d \in Drivers, LoadRoot(d) PROVE LocalInv'
<1> PICK rec : rec = IF store[Root] = NoVal THEN NewRoot ELSE store[Root]
  OBVIOUS
<1> DEFINE driven == [id |-> Root, rec |-> rec, effect |-> Owed(rec)]
<1>1. /\ pc[d] = "root" /\ ~Ended(control.summary) /\ store' = [store EXCEPT ![Root] = rec]
      /\ cur' = [cur EXCEPT ![d] = driven] /\ pc' = [pc EXCEPT ![d] = "drive"]
      /\ UNCHANGED <<control, file, lock, late, runtime, todo, res, rev, clash>>
  BY DEF LoadRoot, Drive, Goto
<1>2. HasRun(d) /\ control # NoVal /\ Root \in Ids /\ store \in [Ids -> StoredSession \cup {NoVal}]
  BY <1>1, ExpectedIs DEF LocalInv, DriverInv, HasRun, FilesInv, FileTypes
<1>3. /\ rec \in StoredSession
      /\ IF ~control.input.pinned THEN ParentSession(rec) ELSE KernelSession(rec)
      /\ store[Root] = NoVal => rec.manifest = {}
  <2>1. CASE store[Root] # NoVal
    BY <1>2, <2>1, SessionIs
  <2>2. CASE store[Root] = NoVal
    <3>1. rec = NewRoot
      BY <2>2
    <3> QED BY <3>1, CreatedIsKernel, CreatedIsParent
            DEF NewRoot, KernelSession, ParentSession
  <2> QED BY <2>1, <2>2
<1>4. rec # NoVal /\ store'[Root] = rec
  BY <1>1, <1>2, <1>3, LocalAssumption
<1>5. FilesInv'
  <2>1. CASE store[Root] # NoVal
    <3>1. store' = store
      BY <1>1, <1>2, <2>1
    <3> QED BY <1>1, <3>1, SameFiles
  <2>2. CASE store[Root] = NoVal
    BY <1>1, <1>2, <1>3, <2>2, StoreFiles
  <2> QED BY <2>1, <2>2
<1>6. driven \in Driven
  BY <1>2, <1>3, OwedIs DEF Driven
<1> HIDE DEF driven
<1>7. DriverType' /\ pc'[d] = "drive" /\ cur'[d] = driven
  BY <1>1, <1>6 DEF LocalInv, DriverType, Places
<1>8. HasRun(d)'
  BY <1>1, <1>2, <1>4, <1>7 DEF HasRun
<1>9. cur'[d].id = Root /\ cur'[d].rec = rec /\ cur'[d].effect = Owed(rec)
  BY <1>7 DEF driven
<1>10. Owed(cur[d].rec)' = Owed(cur'[d].rec)
  BY DEF Owed
<1>11. IsCurrent(d)' /\ LeavesNothing(d)' /\ IsTruthful(d)'
  BY <1>4, <1>7, <1>9, <1>10 DEF IsCurrent, LeavesNothing, IsTruthful
<1> QED BY <1>1, <1>5, <1>7, <1>8, <1>11, MoveStep DEF DriverInv

LEMMA CreateChildKeeps == ASSUME LocalInv, NEW d \in Drivers, CreateChild(d) PROVE LocalInv'
<1> PICK k : k = FirstOf(todo[d])
  OBVIOUS
<1> PICK c : c = CreateChildSession(cur[d].rec)
  OBVIOUS
<1>1. /\ pc[d] = "create" /\ todo[d] # {}
      /\ store' = IF store[k] # NoVal THEN store ELSE [store EXCEPT ![k] = c]
      /\ todo' = [todo EXCEPT ![d] = todo[d] \ {k}]
      /\ UNCHANGED <<control, file, lock, late, runtime, pc, cur, res, rev, clash>>
  BY DEF CreateChild
<1>2. /\ HasRun(d) /\ IsCurrent(d) /\ control # NoVal /\ ~Ended(control.summary)
      /\ store[Root] # NoVal /\ cur[d].id = Root /\ cur[d].rec = store[Root]
      /\ Status(Root) = "WAITING_CHILDREN" /\ todo[d] \subseteq store[Root].manifest
      /\ store \in [Ids -> StoredSession \cup {NoVal}]
  BY <1>1 DEF LocalInv, DriverInv, HasRun, IsCurrent, FilesInv, FileTypes
<1>3. k \in todo[d] /\ k \in Kernels /\ k \in Ids /\ k # Root /\ Root \in Ids
  BY <1>1, <1>2, FirstIn, ExpectedIs, LocalAssumption DEF Ids
<1>4. KernelSession(c) /\ c \in StoredSession
  <2>1. cur[d].rec.core \in Core
    BY <1>2, <1>3, SessionIs DEF StoredSession
  <2>2. SharedEvidence(cur[d].rec) \in SUBSET AnyResult
    BY <2>1, CoreFields DEF SharedEvidence
  <2> QED BY <2>2, CreatedIsKernel DEF CreateChildSession, KernelSession
<1>5. c # NoVal
  BY <1>4, LocalAssumption
<1>6. /\ store'[k] # NoVal /\ store'[Root] = store[Root]
      /\ \A j \in Ids : store[j] # NoVal => store'[j] # NoVal
  BY <1>1, <1>2, <1>3, <1>5
<1>7. FilesInv'
  <2>1. CASE store[k] # NoVal
    BY <1>1, <2>1, SameFiles
  <2>2. CASE store[k] = NoVal
    BY <1>1, <1>2, <1>3, <1>4, <2>2, StoreFiles
  <2> QED BY <2>1, <2>2
<1>8. todo'[d] = todo[d] \ {k} /\ DriverType'
  BY <1>1 DEF LocalInv, DriverType
<1>9. HasRun(d)' /\ LeavesNothing(d)' /\ IsTruthful(d)'
  BY <1>1, <1>2, <1>6 DEF HasRun, LeavesNothing, IsTruthful
<1>10. IsCurrent(d)'
  <2>1. \A j \in store[Root].manifest \ todo'[d] : store'[j] # NoVal
    <3> SUFFICES ASSUME NEW j \in store[Root].manifest, j \notin todo[d] \ {k}
                 PROVE  store'[j] # NoVal
      BY <1>8
    <3>1. CASE j = k
      BY <1>6, <3>1
    <3>2. CASE j # k
      <4>1. j \in Ids /\ store[j] # NoVal
        BY <1>1, <1>2, <3>2, ExpectedIs DEF IsCurrent, Ids
      <4> QED BY <1>6, <4>1
    <3> QED BY <3>1, <3>2
  <2>2. cur[d].effect = Owed(cur[d].rec) /\ Owed(cur[d].rec)' = Owed(cur'[d].rec)
    BY <1>1, <1>2 DEF IsCurrent, Owed
  <2> QED BY <1>1, <1>2, <1>6, <1>8, <2>1, <2>2 DEF IsCurrent, Status
<1>11. pc' = [pc EXCEPT ![d] = "create"]
  BY <1>1 DEF LocalInv, DriverType
<1> QED BY <1>1, <1>7, <1>8, <1>9, <1>10, <1>11, MoveStep DEF DriverInv

(* A driver at work holds the session it drives as it is stored.           *)
LEMMA AtWork ==
    ASSUME LocalInv, NEW d \in Drivers, pc[d] \in {"drive", "effect", "create"}
    PROVE  LET p == cur[d].rec
           IN  /\ HasRun(d) /\ IsCurrent(d) /\ LeavesNothing(d)
               /\ lock = d /\ control # NoVal /\ ~Ended(control.summary)
               /\ rev[d] = control.revision /\ control.identity # NoVal /\ runtime[d] # NoVal
               /\ store[Root] # NoVal /\ cur[d].id \in Ids /\ Root \in Ids
               /\ store[cur[d].id] # NoVal /\ p = store[cur[d].id] /\ p \in StoredSession
               /\ cur[d].effect = Owed(p) /\ p.core.state_revision \in Nat
               /\ IF cur[d].id = Root /\ ~control.input.pinned THEN ParentSession(p)
                  ELSE KernelSession(p)
<1>1. /\ HasRun(d) /\ IsCurrent(d) /\ LeavesNothing(d) /\ cur[d].id \in Ids /\ Root \in Ids
  BY ExpectedIs DEF LocalInv, DriverInv, DriverType, Driven
<1>2. /\ lock = d /\ control # NoVal /\ ~Ended(control.summary)
      /\ rev[d] = control.revision /\ control.identity # NoVal /\ runtime[d] # NoVal
      /\ store[Root] # NoVal
  BY <1>1 DEF HasRun
<1>3. /\ store[cur[d].id] # NoVal /\ cur[d].rec = store[cur[d].id]
      /\ cur[d].effect = Owed(cur[d].rec)
  BY <1>1 DEF IsCurrent
<1>4. /\ cur[d].rec \in StoredSession
      /\ IF cur[d].id = Root /\ ~control.input.pinned THEN ParentSession(cur[d].rec)
         ELSE KernelSession(cur[d].rec)
  BY <1>1, <1>3, SessionIs
<1>5. cur[d].rec.core.state_revision \in Nat
  BY <1>4, CoreFields DEF StoredSession
<1> QED BY <1>1, <1>2, <1>3, <1>4, <1>5

(* The sessions that exist stay, or advance.                               *)
Grows == \A i \in Ids : store[i] # NoVal => store'[i] = store[i] \/ Advances(store[i], store'[i])

(* A checkpoint of the session it drives is never refused.                 *)
LEMMA SaveKeeps ==
    ASSUME LocalInv, NEW d \in Drivers, pc[d] \in {"effect", "create"},
           NEW b, NEW effect, NEW at \in {"drive", "fanout"}, Save(d, b, effect, at),
           UNCHANGED <<control, file, late>>,
           LET p == cur[d].rec
               q == Stamped(b, p.core.state_revision + 1)
           IN  /\ IF cur[d].id = Root /\ ~control.input.pinned THEN ParentSession(q)
                  ELSE KernelSession(q)
               /\ Advances(p, q) /\ Owed(q) = effect
               /\ cur[d].id = Root /\ q.core.status \in {"COMPLETED", "INCONCLUSIVE"} =>
                     \A k \in q.manifest : store[k] # NoVal
               /\ at = "fanout" => cur[d].id = Root /\ q.core.status \in Terminal
               /\ cur[d].id # Root => pc[d] = "effect"
    PROVE  LocalInv' /\ Grows
<1> PICK i : i = cur[d].id
  OBVIOUS
<1> PICK p : p = cur[d].rec
  OBVIOUS
<1> PICK q : q = Stamped(b, p.core.state_revision + 1)
  OBVIOUS
<1>1. /\ HasRun(d) /\ LeavesNothing(d) /\ lock = d /\ control # NoVal /\ ~Ended(control.summary)
      /\ rev[d] = control.revision /\ control.identity # NoVal /\ runtime[d] # NoVal
      /\ store[Root] # NoVal /\ i \in Ids /\ Root \in Ids /\ store[i] # NoVal /\ p = store[i]
  BY AtWork
<1>2. /\ IF i = Root /\ ~control.input.pinned THEN ParentSession(q) ELSE KernelSession(q)
      /\ Advances(p, q) /\ q \in StoredSession /\ Owed(q) = effect
      /\ i = Root /\ q.core.status \in {"COMPLETED", "INCONCLUSIVE"} =>
            \A k \in q.manifest : store[k] # NoVal
      /\ at = "fanout" => i = Root /\ q.core.status \in Terminal
      /\ i # Root => pc[d] = "effect"
  BY DEF Advances
<1> DEFINE driven == [id |-> i, rec |-> q, effect |-> effect]
<1>3. /\ store' = [store EXCEPT ![i] = q] /\ cur' = [cur EXCEPT ![d] = driven]
      /\ pc' = [pc EXCEPT ![d] = at] /\ UNCHANGED <<runtime, todo, res, rev, lock, clash>>
  <2>1. store[i] # NoVal /\ store[i].core.state_revision = cur[d].rec.core.state_revision
    BY <1>1
  <2> QED BY <2>1 DEF Save, Goto, Stamped
<1>4. FilesInv'
  BY <1>1, <1>2, <1>3, StoreFiles
<1>5. /\ q # NoVal /\ store'[i] = q /\ \A j \in Ids : j # i => store'[j] = store[j]
      /\ store'[Root] # NoVal
  BY <1>1, <1>2, <1>3, LocalAssumption DEF LocalInv, FilesInv, FileTypes
<1>6. driven \in Driven
  <2>1. effect \in Effects \cup {"CREATE_CHILD_SESSIONS"}
    BY <1>2, OwedIs
  <2> QED BY <1>1, <1>2, <2>1 DEF Driven
<1> HIDE DEF driven
<1>7. DriverType' /\ pc'[d] = at /\ cur'[d] = driven
  BY <1>3, <1>6 DEF LocalInv, DriverType, Places
<1>8. HasRun(d)'
  BY <1>1, <1>3, <1>5, <1>7 DEF HasRun
<1>9. cur'[d].id = i /\ cur'[d].rec = q /\ cur'[d].effect = effect
  BY <1>7 DEF driven
<1>10. Owed(cur[d].rec)' = Owed(cur'[d].rec)
  BY DEF Owed
<1>11. IsCurrent(d)'
  BY <1>2, <1>5, <1>7, <1>9, <1>10 DEF IsCurrent
<1>12. IsTruthful(d)'
  BY <1>7 DEF IsTruthful
<1>13. LeavesNothing(d)'
  <2>1. CASE at = "fanout"
    BY <1>2, <1>5, <1>7, <2>1 DEF LeavesNothing, Status
  <2>2. CASE at = "drive" /\ i = Root
    BY <1>7, <1>9, <2>2 DEF LeavesNothing
  <2>3. CASE at = "drive" /\ i # Root
    <3>1. ~late => BehindIsSettled(todo[d] \cup {i})
      BY <1>1, <1>2, <2>3 DEF LeavesNothing
    <3>2. store'[Root] = store[Root] /\ Expected' = Expected /\ Expected \subseteq Ids
      BY <1>1, <1>5, <2>3, ExpectedIs DEF Expected
    <3>3. AllPresent => AllPresent'
      BY <1>1, <1>5, <3>2 DEF AllPresent
    <3>4. \A j \in Expected \ (todo[d] \cup {i}) : Settled(j)' <=> Settled(j)
      BY <1>5, <3>2 DEF Settled, Status
    <3>5. Status(Root)' = Status(Root)
      BY <3>2 DEF Status
    <3>6. ~late => BehindIsSettled(todo[d] \cup {cur[d].id})'
      BY <1>3, <1>9, <3>1, <3>2, <3>3, <3>4, <3>5 DEF BehindIsSettled
    <3> QED BY <1>7, <2>3, <3>6 DEF LeavesNothing
  <2> QED BY <2>1, <2>2, <2>3
<1>14. LocalInv'
  BY <1>3, <1>4, <1>7, <1>8, <1>11, <1>12, <1>13, MoveStep DEF DriverInv
<1>15. Grows
  BY <1>1, <1>2, <1>5 DEF Grows
<1> QED BY <1>14, <1>15

(* The checkpoint of a session that is pinned to a kernel.                 *)
LEMMA SaveKernel ==
    ASSUME LocalInv, NEW d \in Drivers, pc[d] = "effect", NEW b, NEW effect,
           Save(d, b, effect, "drive"), UNCHANGED <<control, file, late>>,
           LET q == Stamped(b, cur[d].rec.core.state_revision + 1)
           IN  KernelSession(q) /\ Advances(cur[d].rec, q) /\ Owed(q) = effect,
           cur[d].id # Root \/ control.input.pinned
    PROVE  LocalInv' /\ Grows
<1> PICK q : q = Stamped(b, cur[d].rec.core.state_revision + 1)
  OBVIOUS
<1>1. KernelSession(q) /\ Advances(cur[d].rec, q) /\ Owed(q) = effect /\ q.manifest = {}
  BY DEF KernelSession
<1> QED BY <1>1, SaveKeeps

LEMMA RunKernelExperimentKeeps ==
    ASSUME LocalInv, NEW d \in Drivers, RunKernelExperiment(d) PROVE LocalInv' /\ Grows
<1> PICK p : p = cur[d].rec
  OBVIOUS
<1>1. /\ pc[d] = "effect" /\ cur[d].effect = "SUBMIT_EXPERIMENTS"
      /\ cur[d].id # Root \/ control.input.pinned
      /\ UNCHANGED <<control, file, late>>
  BY DEF RunKernelExperiment, Effect, StepRest
<1>2. /\ KernelSession(p) /\ Owed(p) = "SUBMIT_EXPERIMENTS" /\ p.core.state_revision \in Nat
  BY <1>1, AtWork DEF RunKernelExperiment
<1>3. p.core.status \in {"WAITING_INITIAL", "WAITING_FOLLOWUP"} /\ KernelCore(p.core)
  BY <1>2, OwedIs DEF KernelSession
<1>4. FirstOf(p.core.pending) \in AnyExperiment
  <2>1. p.core.pending # {} /\ p.core.pending \subseteq AnyExperiment
    BY <1>3, CoreFields DEF KernelCore
  <2> QED BY <2>1, FirstIn
<1>5. PICK load \in Payloads :
         \E t \in RecordExperimentResult(p.core, [id |-> FirstOf(p.core.pending), payload |-> load]) :
            Save(d, [p EXCEPT !.core = t.session],
                 IF t.session.pending # {} THEN "SUBMIT_EXPERIMENTS" ELSE t.effect, "drive")
  BY DEF RunKernelExperiment
<1> PICK r : r = [id |-> FirstOf(p.core.pending), payload |-> load]
  OBVIOUS
<1>6. r \in AnyResult
  BY <1>4 DEF AnyResult
<1>7. PICK t \in RecordExperimentResult(p.core, r) :
         Save(d, [p EXCEPT !.core = t.session],
              IF t.session.pending # {} THEN "SUBMIT_EXPERIMENTS" ELSE t.effect, "drive")
  BY <1>5
<1> PICK u : u = Transition(t.session, IF t.session.pending # {} THEN "SUBMIT_EXPERIMENTS"
                                       ELSE t.effect)
  OBVIOUS
<1>8. Moves(p.core, u)
  BY <1>3, <1>6, ResultMoves
<1>9. u.session = t.session /\ Save(d, [p EXCEPT !.core = u.session], u.effect, "drive")
  BY <1>7 DEF Transition
<1>10. LET q == Stamped([p EXCEPT !.core = u.session], p.core.state_revision + 1)
       IN  KernelSession(q) /\ Advances(p, q) /\ Owed(q) = u.effect
  BY <1>2, <1>3, <1>8, KernelAdvances DEF Terminal
<1> QED BY <1>1, <1>9, <1>10, SaveKernel DEF RunKernelExperiment

LEMMA TriageKeeps == ASSUME LocalInv, NEW d \in Drivers, Triage(d) PROVE LocalInv' /\ Grows
<1> PICK p : p = cur[d].rec
  OBVIOUS
<1>1. pc[d] = "effect" /\ cur[d].effect = "RUN_TRIAGE" /\ UNCHANGED <<control, file, late>>
  BY DEF Triage, Effect, StepRest
<1>2. /\ Owed(p) = "RUN_TRIAGE" /\ p.core.state_revision \in Nat
      /\ IF cur[d].id = Root /\ ~control.input.pinned THEN ParentSession(p) ELSE KernelSession(p)
  BY <1>1, AtWork
<1>3. p.core.status = "WAITING_TRIAGE"
  BY <1>2, OwedIs
<1>4. KernelSession(p) /\ KernelCore(p.core) /\ (cur[d].id # Root \/ control.input.pinned)
  BY <1>2, <1>3 DEF ParentSession, Terminal, KernelSession
<1>5. PICK t \in RecordTriageDecision(p.core) :
         Save(d, [p EXCEPT !.core = t.session], t.effect, "drive")
  BY DEF Triage
<1>6. Moves(p.core, t)
  BY <1>3, <1>4, TriageMoves
<1>7. LET q == Stamped([p EXCEPT !.core = t.session], p.core.state_revision + 1)
      IN  KernelSession(q) /\ Advances(p, q) /\ Owed(q) = t.effect
  BY <1>2, <1>3, <1>4, <1>6, KernelAdvances DEF Terminal
<1> QED BY <1>1, <1>4, <1>5, <1>7, SaveKernel

LEMMA ReasonKeeps == ASSUME LocalInv, NEW d \in Drivers, Reason(d) PROVE LocalInv' /\ Grows
<1> PICK p : p = cur[d].rec
  OBVIOUS
<1>1. pc[d] = "effect" /\ cur[d].effect = "RUN_REASONER" /\ UNCHANGED <<control, file, late>>
  BY DEF Reason, Effect, StepRest
<1>2. /\ Owed(p) = "RUN_REASONER" /\ p.core.state_revision \in Nat
      /\ IF cur[d].id = Root /\ ~control.input.pinned THEN ParentSession(p) ELSE KernelSession(p)
  BY <1>1, AtWork
<1>3. p.core.status = "WAITING_REASONER"
  BY <1>2, OwedIs
<1>4. KernelSession(p) /\ KernelCore(p.core) /\ (cur[d].id # Root \/ control.input.pinned)
  BY <1>2, <1>3 DEF ParentSession, Terminal, KernelSession
<1>5. PICK kind \in Decisions : \E t \in RecordAnalysisDecision(p.core, kind) :
         Save(d, [p EXCEPT !.core = t.session], t.effect, "drive")
  BY DEF Reason
<1>6. PICK t \in RecordAnalysisDecision(p.core, kind) :
         Save(d, [p EXCEPT !.core = t.session], t.effect, "drive")
  BY <1>5
<1>7. Moves(p.core, t)
  BY <1>3, <1>4, DecisionMoves
<1>8. LET q == Stamped([p EXCEPT !.core = t.session], p.core.state_revision + 1)
      IN  KernelSession(q) /\ Advances(p, q) /\ Owed(q) = t.effect
  BY <1>2, <1>3, <1>4, <1>7, KernelAdvances DEF Terminal
<1> QED BY <1>1, <1>4, <1>6, <1>8, SaveKernel

LEMMA RunParentExperimentKeeps ==
    ASSUME LocalInv, NEW d \in Drivers, RunParentExperiment(d) PROVE LocalInv' /\ Grows
<1> PICK p : p = cur[d].rec
  OBVIOUS
<1> PICK x : x = FirstOf(p.core.pending)
  OBVIOUS
<1>1. /\ pc[d] = "effect" /\ cur[d].effect = "SUBMIT_EXPERIMENTS"
      /\ cur[d].id = Root /\ ~control.input.pinned /\ UNCHANGED <<control, file, late>>
  BY DEF RunParentExperiment, Effect, StepRest
<1>2. ParentSession(p) /\ Owed(p) = "SUBMIT_EXPERIMENTS" /\ p.core.state_revision \in Nat
  BY <1>1, AtWork
<1>3. p.core.status = "WAITING_INITIAL"
  BY <1>2, OwedIs DEF ParentSession, Terminal
<1>4. x \in AnyExperiment
  <2>1. p.core.pending # {} /\ p.core.pending \subseteq AnyExperiment
    BY <1>2, <1>3, ParentFields DEF ParentSession
  <2> QED BY <2>1, FirstIn
<1>5. PICK load \in IF x = Discovery THEN {"discovered", "undiscovered"} ELSE Payloads,
           m \in Manifests \cup {{}} :
              LET rec == RecordParentResult(p, [id |-> x, payload |-> load], m)
              IN  Save(d, rec, Owed(rec), "drive")
  BY DEF RunParentExperiment
<1> PICK r : r = [id |-> x, payload |-> load]
  OBVIOUS
<1> PICK b : b = RecordParentResult(p, r, m)
  OBVIOUS
<1>6. r \in AnyResult /\ m \in SUBSET Kernels
  BY <1>4 DEF AnyResult, Manifests
<1>7. LET q == Stamped(b, p.core.state_revision + 1)
      IN  /\ ParentSession(q) /\ Advances(p, q) /\ Owed(q) = Owed(b)
          /\ q.core.status \notin {"COMPLETED", "INCONCLUSIVE"}
  BY <1>2, <1>3, <1>6, ParentResult
<1>8. Save(d, b, Owed(b), "drive")
  BY <1>5
<1> QED BY <1>1, <1>7, <1>8, SaveKeeps

LEMMA InfrastructureFailsKeeps ==
    ASSUME LocalInv, NEW d \in Drivers, InfrastructureFails(d) PROVE LocalInv' /\ Grows
<1> PICK p : p = cur[d].rec
  OBVIOUS
<1>1. /\ pc[d] = "effect" /\ cur[d].effect \in {"SUBMIT_EXPERIMENTS", "RUN_REASONER"}
      /\ UNCHANGED <<control, file, late>>
  BY DEF InfrastructureFails, StepRest
<1>2. /\ Owed(p) \in {"SUBMIT_EXPERIMENTS", "RUN_REASONER"} /\ p.core.state_revision \in Nat
      /\ IF cur[d].id = Root /\ ~control.input.pinned THEN ParentSession(p) ELSE KernelSession(p)
  BY <1>1, AtWork
<1>3. p.core.status \in {"WAITING_INITIAL", "WAITING_FOLLOWUP", "WAITING_REASONER"}
  BY <1>2, OwedIs
<1>0. PICK n \in Nat : n = p.core.state_revision + 1
  BY <1>2
<1>4. PICK t \in RecordInfrastructureFailure(p.core) :
         Save(d, [p EXCEPT !.core = t.session], "NONE", "drive")
  BY DEF InfrastructureFails
<1>5. CASE cur[d].id = Root /\ ~control.input.pinned
  <2>1. ParentSession(p) /\ p.core.status = "WAITING_INITIAL"
    BY <1>2, <1>3, <1>5 DEF ParentSession, Terminal
  <2>2. LET q == Stamped([p EXCEPT !.core = t.session], p.core.state_revision + 1)
        IN  /\ ParentSession(q) /\ Advances(p, q) /\ Owed(q) = "NONE"
            /\ q.core.status = "FAILED"
    BY <1>2, <2>1, ParentFails
  <2> QED BY <1>1, <1>4, <1>5, <2>2, SaveKeeps
<1>6. CASE ~(cur[d].id = Root /\ ~control.input.pinned)
  <2>1. KernelSession(p) /\ p.core.status \notin Terminal
    BY <1>2, <1>3, <1>6 DEF Terminal
  <2>2. LET q == Stamped([p EXCEPT !.core = t.session], p.core.state_revision + 1)
        IN  KernelSession(q) /\ Advances(p, q) /\ Owed(q) = "NONE"
    <3>1. LET q == Stamped([p EXCEPT !.core = t.session], n)
          IN  KernelSession(q) /\ Advances(p, q) /\ Owed(q) = "NONE"
      BY <1>0, <2>1, KernelFails
    <3> QED BY <1>0, <3>1
  <2> QED BY <1>1, <1>4, <1>6, <2>2, SaveKernel
<1> QED BY <1>5, <1>6

LEMMA PublishReportKeeps ==
    ASSUME LocalInv, NEW d \in Drivers, PublishReport(d) PROVE LocalInv' /\ Grows
<1> PICK p : p = cur[d].rec
  OBVIOUS
<1>1. /\ pc[d] = "effect" /\ cur[d].effect = "PUBLISH_REPORT" /\ UNCHANGED <<control, file, late>>
  BY DEF PublishReport, Effect, StepRest
<1>2. /\ Owed(p) = "PUBLISH_REPORT" /\ p.core.state_revision \in Nat
      /\ store[Root] # NoVal /\ p = store[cur[d].id]
      /\ IF cur[d].id = Root /\ ~control.input.pinned THEN ParentSession(p) ELSE KernelSession(p)
  BY <1>1, AtWork
<1>3. p.core.report_publication = "PENDING"
  BY <1>2, OwedIs
<1>4. PICK t \in RecordReportPublished(p.core) :
         Save(d, [p EXCEPT !.core = t.session], t.effect, "drive")
  BY DEF PublishReport
<1>0. PICK n \in Nat : n = p.core.state_revision + 1
  BY <1>2
<1> PICK q : q = Stamped([p EXCEPT !.core = t.session], n)
  OBVIOUS
<1>5. /\ KernelSession(p) => KernelSession(q)
      /\ ParentSession(p) => ParentSession(q)
      /\ Advances(p, q) /\ t.effect = "NONE" /\ Owed(q) = "NONE"
      /\ q.core.status = p.core.status /\ q.manifest = p.manifest
  BY <1>2, <1>3, <1>0, Publishes
<1>6. ASSUME cur[d].id = Root, q.core.status \in {"COMPLETED", "INCONCLUSIVE"}
      PROVE  \A k \in q.manifest : store[k] # NoVal
  <2>1. AllPresent
    BY <1>2, <1>5, <1>6 DEF LocalInv, FilesInv, SessionsAreSound, Status
  <2> QED BY <1>2, <1>5, <1>6, <2>1 DEF AllPresent, Expected
<1> QED BY <1>1, <1>2, <1>4, <1>5, <1>6, <1>0, SaveKeeps

LEMMA ChildrenStartedKeeps ==
    ASSUME LocalInv, NEW d \in Drivers, ChildrenStarted(d) PROVE LocalInv' /\ Grows
<1> PICK p : p = cur[d].rec
  OBVIOUS
<1>1. pc[d] = "create" /\ todo[d] = {} /\ UNCHANGED <<control, file, late>>
  BY DEF ChildrenStarted
<1>2. /\ IsCurrent(d) /\ p.core.state_revision \in Nat /\ p = store[cur[d].id]
      /\ IF cur[d].id = Root /\ ~control.input.pinned THEN ParentSession(p) ELSE KernelSession(p)
  BY <1>1, AtWork
<1>3. /\ cur[d].id = Root /\ p.core.status = "WAITING_CHILDREN"
      /\ \A k \in p.manifest : store[k] # NoVal
  BY <1>1, <1>2 DEF IsCurrent, Status
<1>4. ParentSession(p) /\ ~control.input.pinned
  BY <1>2, <1>3 DEF KernelSession, KernelCore, Statuses, Waiting, Terminal
<1>5. PICK b \in RecordDiscoveryChildrenStarted(p, p.manifest) : Save(d, b, "NONE", "fanout")
  BY DEF ChildrenStarted
<1> PICK q : q = Stamped(b, p.core.state_revision + 1)
  OBVIOUS
<1>6. /\ ParentSession(q) /\ Advances(p, q) /\ Owed(q) = "NONE"
      /\ q.core.status = "COMPLETED" /\ q.manifest = p.manifest
  BY <1>2, <1>3, <1>4, ParentCompletes
<1> QED BY <1>1, <1>3, <1>4, <1>5, <1>6, SaveKeeps DEF Terminal

-----------------------------------------------------------------------------
(* The invariant and what follows from it.                                 *)

LEMMA InitInv == Init => LocalInv
<1> SUFFICES ASSUME Init PROVE LocalInv
  OBVIOUS
<1> USE DEF Init
<1>1. DriverType
  <2>1. Idle \in Driven
    BY DEF Idle, Driven, Ids, Effects
  <2> QED BY <2>1 DEF DriverType, Places
<1>2. FilesInv
  BY DEF FilesInv, FileTypes, RecordIsTrue, SessionsAreSound, FileIsOfSessions,
         DeliveredFileAgrees, CheckpointsNeverConflict, Ids
<1>3. \A d \in Drivers : DriverInv(d)
  BY DEF DriverInv, HasRun, IsCurrent, LeavesNothing, IsTruthful
<1> QED BY <1>1, <1>2, <1>3 DEF LocalInv

(* The actions that do not save a checkpoint leave the sessions as they    *)
(* are, create a missing one or acknowledge a report.                      *)
LEMMA LoadRootGrows == ASSUME LocalInv, NEW d \in Drivers, LoadRoot(d) PROVE Grows
BY DEF LoadRoot, Grows, LocalInv, FilesInv, FileTypes

LEMMA CreateChildGrows == ASSUME LocalInv, NEW d \in Drivers, CreateChild(d) PROVE Grows
BY DEF CreateChild, Grows, LocalInv, FilesInv, FileTypes

LEMMA AcknowledgeGrows == ASSUME LocalInv, NEW d \in Drivers, Acknowledge(d) PROVE Grows
<1>1. CASE todo[d] = {}
  BY <1>1 DEF Acknowledge, Grows
<1>2. CASE todo[d] # {}
  <2>1. PICK i \in todo[d] : store' = [store EXCEPT ![i] = Acknowledged(i)]
    BY <1>2 DEF Acknowledge
  <2>2. i \in Unacknowledged
    BY DEF Acknowledge, LocalInv, DriverInv, IsTruthful
  <2>3. i \in Ids /\ store[i] # NoVal /\ store[i].core.report_publication = "PENDING"
    BY <2>2, ExpectedIs DEF Unacknowledged, Present
  <2>4. Advances(store[i], Acknowledged(i))
    BY <2>3, AcknowledgedIs
  <2> QED BY <2>1, <2>3, <2>4 DEF Grows, LocalInv, FilesInv, FileTypes
<1> QED BY <1>1, <1>2

LEMMA NotEnded ==
    ASSUME LocalInv, NEW d \in Drivers, pc[d] \notin {"idle", "bind", "root"}
    PROVE  ~Ended(control.summary)
BY DEF LocalInv, DriverInv, HasRun

(* What a step may do: the Run record, the sessions and the file of a Run  *)
(* that has ended stay as they are.                                        *)
StepAdds ==
    /\ Grows
    /\ (control # NoVal /\ Ended(control.summary)) => UNCHANGED <<control, store, file>>

LEMMA SameGrows == ASSUME UNCHANGED store PROVE Grows
BY DEF Grows

LEMMA DriverStepKeeps ==
    ASSUME LocalInv, NEW d \in Drivers, DriverStep(d) PROVE LocalInv' /\ StepAdds
<1>1. CASE BindBackend(d)
  <2>1. pc[d] = "bind" /\ UNCHANGED <<store, file>>
    BY <1>1 DEF BindBackend
  <2>2. control # NoVal /\ Ended(control.summary) => UNCHANGED control
    BY <1>1 DEF BindBackend, LocalInv, FilesInv, RecordIsTrue, Ended
  <2> QED BY <1>1, <2>1, <2>2, BindBackendKeeps, SameGrows DEF StepAdds
<1>2. CASE AlreadyEnded(d)
  <2>1. UNCHANGED <<control, store, file>>
    BY <1>2 DEF AlreadyEnded
  <2> QED BY <1>2, <2>1, AlreadyEndedKeeps, SameGrows DEF StepAdds
<1>3. CASE LoadRoot(d)
  <2>1. ~Ended(control.summary)
    BY <1>3 DEF LoadRoot
  <2> QED BY <1>3, <2>1, LoadRootKeeps, LoadRootGrows DEF StepAdds
<1>4. CASE BeginEffect(d) \/ DriveReturns(d) \/ Fanout(d) \/ DriveChild(d)
           \/ Summarize(d) \/ PublishFails(d)
  <2>1. UNCHANGED <<control, store, file>>
    BY <1>4 DEF BeginEffect, DriveReturns, Fanout, DriveChild, Summarize, PublishFails
  <2>2. LocalInv'
    BY <1>4, BeginEffectKeeps, DriveReturnsKeeps, FanoutKeeps, DriveChildKeeps,
       SummarizeKeeps, PublishFailsKeeps
  <2> QED BY <2>1, <2>2, SameGrows DEF StepAdds
<1>5. CASE RunKernelExperiment(d) \/ RunParentExperiment(d) \/ Triage(d) \/ Reason(d)
           \/ InfrastructureFails(d) \/ PublishReport(d) \/ ChildrenStarted(d)
  <2>1. LocalInv' /\ Grows
    BY <1>5, RunKernelExperimentKeeps, RunParentExperimentKeeps, TriageKeeps, ReasonKeeps,
       InfrastructureFailsKeeps, PublishReportKeeps, ChildrenStartedKeeps
  <2>2. pc[d] \in {"effect", "create"}
    BY <1>5 DEF RunKernelExperiment, RunParentExperiment, Triage, Reason, InfrastructureFails,
                PublishReport, ChildrenStarted, Effect
  <2> QED BY <2>1, <2>2, NotEnded DEF StepAdds
<1>6. CASE CreateChild(d)
  <2>1. pc[d] = "create"
    BY <1>6 DEF CreateChild
  <2> QED BY <1>6, <2>1, CreateChildKeeps, CreateChildGrows, NotEnded DEF StepAdds
<1>7. CASE Publish(d)
  <2>1. pc[d] = "publish" /\ UNCHANGED store
    BY <1>7 DEF Publish
  <2> QED BY <1>7, <2>1, PublishKeeps, SameGrows, NotEnded DEF StepAdds
<1>8. CASE Acknowledge(d)
  <2>1. pc[d] = "acknowledge"
    BY <1>8 DEF Acknowledge
  <2> QED BY <1>8, <2>1, AcknowledgeKeeps, AcknowledgeGrows, NotEnded DEF StepAdds
<1>9. CASE StoreSummary(d)
  <2>1. pc[d] = "store" /\ UNCHANGED store
    BY <1>9 DEF StoreSummary
  <2> QED BY <1>9, <2>1, StoreSummaryKeeps, SameGrows, NotEnded DEF StepAdds
<1> QED BY <1>1, <1>2, <1>3, <1>4, <1>5, <1>6, <1>7, <1>8, <1>9 DEF DriverStep

LEMMA StepInv == LocalInv /\ [Next]_vars => LocalInv' /\ StepAdds
<1> SUFFICES ASSUME LocalInv, [Next]_vars PROVE LocalInv' /\ StepAdds
  OBVIOUS
<1>1. ASSUME NEW d \in Drivers, DriverStep(d) PROVE LocalInv' /\ StepAdds
  BY <1>1, DriverStepKeeps
<1>2. ASSUME NEW d \in Drivers, Crash(d) PROVE LocalInv' /\ StepAdds
  <2>1. UNCHANGED <<control, store, file>>
    BY <1>2 DEF Crash
  <2> QED BY <1>2, <2>1, CrashKeeps, SameGrows DEF StepAdds
<1>3. ASSUME NEW d \in Drivers, NEW b \in Identities, Run(d, b) PROVE LocalInv' /\ StepAdds
  <2>1. UNCHANGED <<store, file>> /\ (control # NoVal => UNCHANGED control)
    BY <1>3 DEF Run
  <2> QED BY <1>3, <2>1, RunKeeps, SameGrows DEF StepAdds
<1>4. ASSUME DeadlinePasses \/ UNCHANGED vars PROVE LocalInv' /\ StepAdds
  <2>1. /\ UNCHANGED <<control, store, file, lock, pc, runtime, cur, todo, res, rev, clash>>
        /\ late => late'
    BY <1>4 DEF DeadlinePasses, vars, driver
  <2> QED BY <2>1, ClockKeeps, SameGrows DEF StepAdds
<1> QED BY <1>1, <1>2, <1>3, <1>4 DEF Next

(* Whatever is killed and resumed, the one driver at work holds the lock,  *)
(* drives the session as it is stored, and leaves no session unfinished    *)
(* behind it before the deadline (LocalBackend._resume).                   *)
THEOREM LocalInvariant == Spec => []LocalInv
<1>1. LocalInv /\ [Next]_vars => LocalInv'
  BY StepInv
<1> QED BY <1>1, InitInv, PTL DEF Spec

(* No checkpoint of a driver meets another writer: the lock is enough      *)
(* (FileRunControlStore.execution, _SessionCheckpoint.save).               *)
THEOREM CheckpointsHold == FairSpec => []CheckpointsNeverConflict
<1>1. LocalInv => CheckpointsNeverConflict
  BY DEF LocalInv, FilesInv
<1> QED BY <1>1, LocalInvariant, PTL DEF FairSpec

(* What a foreground Run returns is true of its sessions                   *)
(* (build_run_summary, LocalBackend._resume).                              *)
THEOREM SummariesAreTrue == FairSpec => []SummaryIsTrue
<1>1. ASSUME LocalInv PROVE SummaryIsTrue
  <2> SUFFICES ASSUME control # NoVal, control.summary # NoVal PROVE SummaryIsTrue
    BY DEF SummaryIsTrue
  <2>1. TrueSummary(control.summary)
    BY <1>1 DEF LocalInv, FilesInv, RecordIsTrue
  <2>2. control.summary.status \in {"RUNNING", "EXPIRED", "FAILED", "COMPLETED"}
    <3>1. control.summary \in RunSummary
      BY <1>1 DEF LocalInv, FilesInv, FileTypes, RunControl
    <3> QED BY <3>1 DEF RunSummary
  <2> QED BY <2>1, <2>2, PresentIs DEF SummaryIsTrue, TrueSummary
<1> QED BY <1>1, LocalInvariant, PTL DEF FairSpec

(* A Run whose record says PUBLISHED has the output file that says the     *)
(* same of every session (LocalBackend._publish).                          *)
THEOREM DeliveredFilesAgree == FairSpec => []DeliveredFileAgrees
<1>1. LocalInv => DeliveredFileAgrees
  BY DEF LocalInv, FilesInv
<1> QED BY <1>1, LocalInvariant, PTL DEF FairSpec

(* Resuming only adds, and nothing changes a Run that has ended            *)
(* (_ensure_session, record_experiment_result, LocalBackend._resume).      *)
THEOREM ResumingOnlyAdds == FairSpec => ResumeOnlyAdds
<1> DEFINE Adds ==
       /\ \A i \in Ids : store[i] # NoVal =>
             /\ store[i].core.evidence \subseteq store'[i].core.evidence
             /\ store'[i].core.state_revision >= store[i].core.state_revision
       /\ (control # NoVal /\ Ended(control.summary)) => UNCHANGED <<control, store, file>>
<1>1. ASSUME LocalInv, [Next]_vars PROVE Adds
  <2>1. StepAdds
    BY <1>1, StepInv
  <2>2. ASSUME NEW i \in Ids, store[i] # NoVal
        PROVE  /\ store[i].core.evidence \subseteq store'[i].core.evidence
               /\ store'[i].core.state_revision >= store[i].core.state_revision
    <3>1. store[i].core.state_revision \in Nat
      <4>1. store[i].core \in Core
        BY <1>1, <2>2, SessionIs DEF StoredSession
      <4> QED BY <4>1, CoreFields
    <3>2. store'[i] = store[i] \/ Advances(store[i], store'[i])
      BY <2>1, <2>2 DEF StepAdds, Grows
    <3> QED BY <3>1, <3>2 DEF Advances
  <2> QED BY <2>1, <2>2 DEF StepAdds
<1>2. LocalInv /\ [Next]_vars => [Adds]_vars
  BY <1>1
<1> QED BY <1>2, LocalInvariant, PTL DEF FairSpec, Spec, ResumeOnlyAdds

=============================================================================
