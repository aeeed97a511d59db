----------------------- MODULE SessionCoordinatorProofs -----------------------
(***************************************************************************)
(* For any number of workers, experiments, rounds and budgets: what the    *)
(* compare-and-swap of _apply makes of callbacks that race, repeat and     *)
(* come late.  The session is the abstract one of SessionLifecycle, a      *)
(* dispatch key stands for one batch, decisions rest on current evidence,  *)
(* and baselines only hold what was delivered.  And a discovery that calls *)
(* itself complete has started the children of its manifest, each from the *)
(* parent's results, and left none without its first batch.                *)
(***************************************************************************)
EXTENDS CoordinatorCalls, FiniteSetTheorems, TLAPS

Answers(s) == {r.id : r \in s.evidence}

\* What the reducers keep true of a session.
Sound(s) ==
    /\ s \in Session
    /\ \A r, q \in s.evidence : r.id = q.id => r = q
    /\ s.completed = Answers(s)
    /\ s.completed \subseteq s.fingerprints \cup Initial
    /\ s.pending \subseteq s.fingerprints
    /\ s.status \in Waiting => s.pending = s.fingerprints \ s.completed
    /\ s.status \in {"WAITING_TRIAGE", "WAITING_REASONER"} => s.pending = {}
    /\ s.submitted = Cardinality(s.fingerprints)
    /\ s.submitted <= MaxExperiments

Calls == [kind : {"none", "resume", "triage", "published"}]
         \cup [kind : {"result"}, revision : Nat, result : [id : Experiments, payload : Payloads]]
         \cup [kind : {"decision"}, revision : Nat, decision : Decisions, analysed : SUBSET Results]
         \cup [kind : {"infra", "pubfail"}, revision : Nat]

Reduced == {"result", "decision", "infra", "pubfail", "triage", "published"}

Txns == [session : Session, effect : Effects]

\* A reducer's transition from s: the same revision, and nothing forgotten.
Continues(s, t) ==
    /\ t \in Txns
    /\ Sound(t.session)
    /\ t.session.state_revision = s.state_revision
    /\ s.fingerprints \subseteq t.session.fingerprints

-----------------------------------------------------------------------------
(* The reducers.                                                           *)

(* A batch of new experiments costs what it adds.                          *)
LEMMA BatchCost ==
    ASSUME NEW F \in SUBSET Experiments, NEW B \in SUBSET Experiments, F \cap B = {}
    PROVE  /\ Cardinality(F \cup B) = Cardinality(F) + Cardinality(B)
           /\ Cardinality(F) \in Nat /\ Cardinality(B) \in Nat /\ Cardinality(F \cup B) \in Nat
<1>1. IsFiniteSet(F) /\ IsFiniteSet(B) /\ IsFiniteSet(F \cup B)
  BY SessionAssumption, FS_Subset
<1>2. Cardinality(F \cap B) = 0
  BY FS_EmptySet
<1>3. Cardinality(F) \in Nat /\ Cardinality(B) \in Nat /\ Cardinality(F \cup B) \in Nat
  BY <1>1, FS_CardinalityType
<1>4. Cardinality(F \cup B) = Cardinality(F) + Cardinality(B) - Cardinality(F \cap B)
  BY <1>1, FS_Union
<1> QED BY <1>2, <1>3, <1>4

(* The results of a discovery parent are one per shared experiment.        *)
LEMMA SharedOnce ==
    ASSUME NEW shared \in SharedResults
    PROVE  /\ shared \subseteq Results
           /\ {r.id : r \in shared} = Shared
           /\ \A r, q \in shared : r.id = q.id => r = q
<1>1. PICK f \in [Shared -> Payloads \ {"unfit"}] :
         shared = {[id |-> x, payload |-> f[x]] : x \in Shared}
  BY DEF SharedResults
<1>2. Shared \subseteq Experiments
  BY SessionAssumption
<1>3. \A r \in shared : /\ r.id \in Shared
                        /\ r = [id |-> r.id, payload |-> f[r.id]]
                        /\ f[r.id] \in Payloads \ {"unfit"}
  BY <1>1
<1>4. shared \subseteq Results
  BY <1>2, <1>3 DEF Results
<1>5. ASSUME NEW x \in Shared PROVE \E r \in shared : r.id = x
  <2>1. [id |-> x, payload |-> f[x]] \in shared
    BY <1>1
  <2> QED BY <2>1
<1> QED BY <1>3, <1>4, <1>5

(* A session is created sound and at its first revision.                   *)
LEMMA CreateSound ==
    ASSUME NEW shared \in SharedResults
    PROVE  /\ CreateSession(shared) \in Txns
           /\ Sound(CreateSession(shared).session)
           /\ CreateSession(shared).session.state_revision = 1
<1> DEFINE pend == Initial \ {r.id : r \in shared}
           over == NewSession(shared, {})
           new  == NewSession(shared, pend)
<1>1. /\ pend = Initial \ Shared
      /\ pend \subseteq Experiments
      /\ Shared \subseteq Initial
      /\ Initial \subseteq Experiments
  BY SharedOnce, SessionAssumption
<1>2. Cardinality(pend) \in Nat /\ Cardinality({}) = 0
  BY <1>1, SessionAssumption, FS_Subset, FS_CardinalityType, FS_EmptySet
<1>3. CASE Cardinality(pend) > MaxExperiments
  <2> DEFINE s == [over EXCEPT !.status = "INCONCLUSIVE", !.report_publication = "PENDING"]
  <2>1. CreateSession(shared) = [session |-> s, effect |-> "PUBLISH_REPORT"]
    BY <1>3 DEF CreateSession, Inconclusive, Finish, Transition
  <2>2. over \in Session
    BY <1>1, <1>2, SharedOnce DEF NewSession, Session, Statuses, Waiting, Publications
  <2>3. /\ s \in Session
        /\ s.status = "INCONCLUSIVE" /\ s.pending = {} /\ s.completed = {r.id : r \in shared}
        /\ s.evidence = shared /\ s.fingerprints = {} /\ s.submitted = Cardinality({})
        /\ s.state_revision = 1
    <3>1. /\ s \in Session /\ s.status = "INCONCLUSIVE" /\ s.pending = over.pending
          /\ s.completed = over.completed /\ s.evidence = over.evidence
          /\ s.fingerprints = over.fingerprints /\ s.submitted = over.submitted
          /\ s.state_revision = over.state_revision
      <4> HIDE DEF over
      <4> QED BY <2>2 DEF Session, Statuses, Terminal, Publications
    <3> HIDE DEF s
    <3> QED BY <3>1 DEF NewSession
  <2> HIDE DEF s, over
  <2>4. Sound(s)
    <3>1. s.completed = Answers(s) /\ s.completed \subseteq Initial
      BY <2>3, <1>1, SharedOnce DEF Answers
    <3>2. s.submitted = Cardinality(s.fingerprints) /\ s.submitted <= MaxExperiments
      BY <2>3, <1>2, SessionAssumption
    <3> QED BY <2>3, <3>1, <3>2, SharedOnce DEF Sound, Waiting
  <2> QED BY <2>1, <2>3, <2>4 DEF Txns, Effects
<1>4. CASE ~(Cardinality(pend) > MaxExperiments)
  <2> DEFINE effect == IF pend = {} THEN "RUN_TRIAGE" ELSE "SUBMIT_EXPERIMENTS"
  <2>1. CreateSession(shared) = [session |-> new, effect |-> effect]
    BY <1>4 DEF CreateSession, Transition
  <2>2. new = [state_revision |-> 1,
               status |-> IF pend = {} THEN "WAITING_TRIAGE" ELSE "WAITING_INITIAL",
               pending |-> pend, completed |-> {r.id : r \in shared}, evidence |-> shared,
               fingerprints |-> pend, submitted |-> Cardinality(pend), round_index |-> 0,
               report_publication |-> "NOT_READY"]
    BY DEF NewSession
  <2>3. Cardinality(pend) <= MaxExperiments
    BY <1>2, <1>4, SessionAssumption
  <2> HIDE DEF new, pend
  <2>4. new \in Session
    BY <2>2, <1>1, <1>2, SharedOnce DEF Session, Statuses, Waiting, Publications
  <2>5. Sound(new)
    BY <2>2, <2>3, <2>4, <1>1, SharedOnce DEF Sound, Answers, Waiting
  <2> QED BY <2>1, <2>2, <2>4, <2>5 DEF Txns, Effects
<1> QED BY <1>3, <1>4

(* What each call carries.                                                 *)
LEMMA CallFields ==
    ASSUME NEW o \in Calls
    PROVE  /\ o.kind = "result" => /\ o.result \in [id : Experiments, payload : Payloads]
                                   /\ o.revision \in Nat
           /\ o.kind = "decision" => /\ o.decision \in Decisions /\ o.revision \in Nat
                                     /\ o.analysed \subseteq Results
BY DEF Calls

(* Leaving a session as it is.                                             *)
LEMMA NothingContinues ==
    ASSUME NEW s, Sound(s)
    PROVE  Continues(s, Transition(s, "NONE"))
BY DEF Continues, Transition, Txns, Effects, Sound

(* Ending with a report.                                                   *)
LEMMA FinishContinues ==
    ASSUME NEW s, Sound(s), NEW status \in {"COMPLETED", "INCONCLUSIVE"}
    PROVE  Continues(s, Finish(s, status))
<1> DEFINE n == [s EXCEPT !.status = status, !.report_publication = "PENDING"]
<1>1. Finish(s, status) = [session |-> n, effect |-> "PUBLISH_REPORT"]
  BY DEF Finish, Transition
<1>2. /\ n \in Session /\ n.status = status /\ n.pending = s.pending
      /\ n.completed = s.completed /\ n.evidence = s.evidence
      /\ n.fingerprints = s.fingerprints /\ n.submitted = s.submitted
      /\ n.state_revision = s.state_revision
  BY DEF Sound, Session, Statuses, Terminal, Publications
<1> HIDE DEF n
<1>3. Sound(n)
  BY <1>2 DEF Sound, Answers, Waiting
<1> QED BY <1>1, <1>2, <1>3 DEF Continues, Txns, Effects

(* The last result of a batch moves the session on.                        *)
LEMMA AcceptContinues ==
    ASSUME NEW s, Sound(s), NEW r \in [id : Experiments, payload : Payloads],
           r.id \in s.pending, PhaseValid(s, r.id), FitsSpec(r)
    PROVE  Continues(s, AcceptResult(s, r))
<1> DEFINE left == s.pending \ {r.id}
           s1 == [s EXCEPT !.evidence = @ \cup {r}, !.pending = left,
                           !.completed = @ \cup {r.id}]
           to == IF r.id \in Initial THEN "WAITING_TRIAGE" ELSE "WAITING_REASONER"
           s2 == [s1 EXCEPT !.status = to]
<1>1. AcceptResult(s, r) =
         IF left # {} THEN Transition(s1, "NONE")
         ELSE Transition(s2, IF r.id \in Initial THEN "RUN_TRIAGE" ELSE "RUN_REASONER")
  BY DEF AcceptResult
<1>2. r \in Results
  BY DEF FitsSpec, Results
<1>3. /\ s1 \in Session /\ s1.status = s.status /\ s1.pending = left
      /\ s1.completed = s.completed \cup {r.id} /\ s1.evidence = s.evidence \cup {r}
      /\ s1.fingerprints = s.fingerprints /\ s1.submitted = s.submitted
      /\ s1.state_revision = s.state_revision
  BY <1>2 DEF Sound, Session
<1> HIDE DEF s1, left
<1>4. /\ s2 \in Session /\ s2.status = to /\ s2.pending = s1.pending
      /\ s2.completed = s1.completed /\ s2.evidence = s1.evidence
      /\ s2.fingerprints = s1.fingerprints /\ s2.submitted = s1.submitted
      /\ s2.state_revision = s1.state_revision
  BY <1>3 DEF Session, Statuses, Waiting
<1> HIDE DEF s2
<1>5. s.status \in {"WAITING_INITIAL", "WAITING_FOLLOWUP"}
  BY DEF PhaseValid
<1>6. /\ s.pending = s.fingerprints \ s.completed /\ s.completed = Answers(s)
      /\ s.completed \subseteq s.fingerprints \cup Initial
      /\ s.submitted = Cardinality(s.fingerprints) /\ s.submitted <= MaxExperiments
      /\ \A p, q \in s.evidence : p.id = q.id => p = q
  BY <1>5 DEF Sound, Waiting
<1>7. left \subseteq s.fingerprints /\ left = s.fingerprints \ (s.completed \cup {r.id})
  BY <1>6 DEF left
<1>8. \A p, q \in s.evidence \cup {r} : p.id = q.id => p = q
  <2>1. \A p \in s.evidence : p.id # r.id
    BY <1>6 DEF Answers
  <2> QED BY <1>6, <2>1
<1>9. {q.id : q \in s.evidence \cup {r}} = s.completed \cup {r.id}
  BY <1>6 DEF Answers
<1>10. CASE left # {}
  <2>1. Sound(s1)
    BY <1>3, <1>5, <1>6, <1>7, <1>8, <1>9 DEF Sound, Answers
  <2> QED BY <2>1, <1>1, <1>3, <1>10 DEF Continues, Transition, Txns, Effects
<1>11. CASE left = {}
  <2>1. Sound(s2)
    BY <1>3, <1>4, <1>6, <1>7, <1>8, <1>9, <1>11 DEF Sound, Answers
  <2> QED BY <2>1, <1>1, <1>3, <1>4, <1>11 DEF Continues, Transition, Txns, Effects
<1> QED BY <1>10, <1>11

(* A follow-up batch is new, within the budget, and all that is pending.   *)
LEMMA FollowUpContinues ==
    ASSUME NEW s, Sound(s), s.status = "WAITING_REASONER", NEW batch \in GuardExpand(s)
    PROVE  Continues(s, FollowUp(s, batch))
<1>1. CASE batch = {} \/ s.submitted + Cardinality(batch) > MaxExperiments
  BY <1>1, FinishContinues DEF FollowUp, Inconclusive
<1>2. CASE ~(batch = {} \/ s.submitted + Cardinality(batch) > MaxExperiments)
  <2> DEFINE n == [s EXCEPT !.status = "WAITING_FOLLOWUP", !.round_index = @ + 1,
                            !.pending = batch, !.fingerprints = @ \cup batch,
                            !.submitted = @ + Cardinality(batch)]
  <2>1. FollowUp(s, batch) = [session |-> n, effect |-> "SUBMIT_EXPERIMENTS"]
    BY <1>2 DEF FollowUp, Transition
  <2>2. /\ batch \subseteq Experiments /\ batch \cap (s.fingerprints \cup Initial) = {}
        /\ s.fingerprints \subseteq Experiments
    BY DEF GuardExpand, Sound, Session
  <2>3. /\ Cardinality(s.fingerprints \cup batch) = s.submitted + Cardinality(batch)
        /\ Cardinality(batch) \in Nat
    <3>1. s.fingerprints \in SUBSET Experiments /\ batch \in SUBSET Experiments
          /\ s.fingerprints \cap batch = {}
      BY <2>2
    <3>2. Cardinality(s.fingerprints \cup batch) = Cardinality(s.fingerprints) + Cardinality(batch)
          /\ Cardinality(batch) \in Nat
      BY <3>1, BatchCost
    <3> QED BY <3>2 DEF Sound
  <2>4. /\ n \in Session /\ n.status = "WAITING_FOLLOWUP" /\ n.pending = batch
        /\ n.completed = s.completed /\ n.evidence = s.evidence
        /\ n.fingerprints = s.fingerprints \cup batch
        /\ n.submitted = s.submitted + Cardinality(batch)
        /\ n.state_revision = s.state_revision
    <3>1. /\ s \in Session /\ s.submitted + Cardinality(batch) \in Nat
          /\ s.round_index + 1 \in Nat /\ s.fingerprints \cup batch \in SUBSET Experiments
          /\ batch \in SUBSET Experiments /\ "WAITING_FOLLOWUP" \in Statuses
      BY <2>2, <2>3 DEF Sound, Session, Statuses, Waiting
    <3> QED BY <3>1 DEF Session
  <2> HIDE DEF n
  <2>5. s.submitted + Cardinality(batch) <= MaxExperiments
    BY <1>2, <2>3, SessionAssumption DEF Sound, Session
  <2>6. /\ s.fingerprints \ s.completed = {} /\ s.completed = Answers(s)
        /\ s.completed \subseteq s.fingerprints \cup Initial
        /\ \A p, q \in s.evidence : p.id = q.id => p = q
    BY DEF Sound, Waiting
  <2>7. Sound(n)
    BY <2>2, <2>3, <2>4, <2>5, <2>6 DEF Sound, Answers
  <2> QED BY <2>1, <2>4, <2>7 DEF Continues, Txns, Effects
<1> QED BY <1>1, <1>2

(* A session that is given up asks for nothing more.                       *)
LEMMA FailureContinues ==
    ASSUME NEW s, Sound(s), NEW t \in RecordInfrastructureFailure(s)
    PROVE  Continues(s, t)
<1>1. CASE s.status \in Terminal
  BY <1>1, NothingContinues DEF RecordInfrastructureFailure
<1>2. CASE s.status \notin Terminal
  <2> DEFINE n == [s EXCEPT !.status = "FAILED", !.pending = {}]
  <2>1. t = [session |-> n, effect |-> "NONE"]
    BY <1>2 DEF RecordInfrastructureFailure, Transition
  <2>2. /\ n \in Session /\ n.status = "FAILED" /\ n.pending = {}
        /\ n.completed = s.completed /\ n.evidence = s.evidence
        /\ n.fingerprints = s.fingerprints /\ n.submitted = s.submitted
        /\ n.state_revision = s.state_revision
    BY DEF Sound, Session, Statuses, Terminal
  <2> HIDE DEF n
  <2>3. Sound(n)
    BY <2>2 DEF Sound, Answers, Waiting
  <2> QED BY <2>1, <2>2, <2>3 DEF Continues, Txns, Effects
<1> QED BY <1>1, <1>2

(* Settling the delivery of a report changes nothing else.                 *)
LEMMA SettlementContinues ==
    ASSUME NEW s, Sound(s), NEW t \in RecordReportPublished(s) \cup RecordReportPublicationFailed(s)
    PROVE  Continues(s, t)
<1>1. ASSUME NEW p \in {"PUBLISHED", "FAILED"}
      PROVE  Continues(s, Transition([s EXCEPT !.report_publication = p], "NONE"))
  <2> DEFINE n == [s EXCEPT !.report_publication = p]
  <2>1. /\ n \in Session /\ n.status = s.status /\ n.pending = s.pending
        /\ n.completed = s.completed /\ n.evidence = s.evidence
        /\ n.fingerprints = s.fingerprints /\ n.submitted = s.submitted
        /\ n.state_revision = s.state_revision
    BY DEF Sound, Session, Publications
  <2> HIDE DEF n
  <2>2. Sound(n)
    BY <2>1 DEF Sound, Answers
  <2>3. Continues(s, Transition(n, "NONE"))
    BY <2>1, <2>2 DEF Continues, Txns, Effects, Transition
  <2> QED BY <2>3 DEF n
<1>2. \/ t = Transition(s, "NONE")
      \/ t = Transition([s EXCEPT !.report_publication = "PUBLISHED"], "NONE")
      \/ t = Transition([s EXCEPT !.report_publication = "FAILED"], "NONE")
  BY DEF RecordReportPublished, RecordReportPublicationFailed
<1> QED BY <1>1, <1>2, NothingContinues

(* Triage ends the session or hands it to the reasoner.                    *)
LEMMA TriageContinues ==
    ASSUME NEW s, Sound(s), NEW t \in RecordTriageDecision(s)
    PROVE  Continues(s, t)
<1>1. CASE s.status # "WAITING_TRIAGE"
  BY <1>1, NothingContinues DEF RecordTriageDecision
<1>2. CASE s.status = "WAITING_TRIAGE"
  <2> DEFINE n == [s EXCEPT !.status = "WAITING_REASONER"]
  <2>1. PICK o \in {"ANALYZE", "FINISH", "INCONCLUSIVE"} : t = ApplyTriage(s, o)
    BY <1>2 DEF RecordTriageDecision, TriageOutcomes
  <2>2. t \in {Finish(s, "INCONCLUSIVE"), Finish(s, "COMPLETED"), Transition(n, "RUN_REASONER")}
    BY <2>1 DEF ApplyTriage, Inconclusive
  <2>3. /\ n \in Session /\ n.status = "WAITING_REASONER" /\ n.pending = s.pending
        /\ n.completed = s.completed /\ n.evidence = s.evidence
        /\ n.fingerprints = s.fingerprints /\ n.submitted = s.submitted
        /\ n.state_revision = s.state_revision
    BY DEF Sound, Session, Statuses, Waiting
  <2> HIDE DEF n
  <2>4. Sound(n)
    BY <1>2, <2>3 DEF Sound, Answers, Waiting
  <2>5. Continues(s, Transition(n, "RUN_REASONER"))
    BY <2>3, <2>4 DEF Continues, Txns, Effects, Transition
  <2> QED BY <2>2, <2>5, FinishContinues
<1> QED BY <1>1, <1>2

(* A decision of the reasoner ends the session or asks for a batch.        *)
LEMMA DecisionContinues ==
    ASSUME NEW s, Sound(s), NEW d \in Decisions, NEW t \in RecordAnalysisDecision(s, d)
    PROVE  Continues(s, t)
<1>1. s.status = "WAITING_REASONER"
  BY DEF RecordAnalysisDecision
<1>2. \/ t \in {Finish(s, "INCONCLUSIVE"), Finish(s, "COMPLETED")}
      \/ \E batch \in GuardExpand(s) : t = FollowUp(s, batch)
  BY DEF RecordAnalysisDecision, Inconclusive, Decisions
<1> QED BY <1>1, <1>2, FinishContinues, FollowUpContinues

(* Whatever call is reduced, the result continues the session.             *)
LEMMA ReduceContinues ==
    ASSUME NEW s, Sound(s), NEW o \in Calls, o.kind \in Reduced, NEW t \in Reduce(s, o)
    PROVE  Continues(s, t)
<1>1. CASE o.kind = "result"
  <2>1. t \in RecordExperimentResult(s, o.result)
    BY <1>1 DEF Reduce
  <2>2. \/ t = Transition(s, "NONE")
        \/ /\ t = AcceptResult(s, o.result) /\ o.result.id \in s.pending
           /\ PhaseValid(s, o.result.id) /\ FitsSpec(o.result)
    BY <2>1 DEF RecordExperimentResult
  <2>3. o.result \in [id : Experiments, payload : Payloads]
    BY <1>1, CallFields
  <2> QED BY <2>2, <2>3, NothingContinues, AcceptContinues
<1>2. CASE o.kind = "decision"
  <2>1. t = Transition(s, "NONE") \/ t \in RecordAnalysisDecision(s, o.decision)
    BY <1>2 DEF Reduce
  <2>2. o.decision \in Decisions
    BY <1>2, CallFields
  <2> QED BY <2>1, <2>2, NothingContinues, DecisionContinues
<1>3. CASE o.kind = "infra"
  BY <1>3, NothingContinues, FailureContinues DEF Reduce
<1>4. CASE o.kind = "pubfail"
  BY <1>4, NothingContinues, SettlementContinues DEF Reduce
<1>5. CASE o.kind = "triage"
  BY <1>5, TriageContinues DEF Reduce
<1>6. CASE o.kind = "published"
  BY <1>6, SettlementContinues DEF Reduce
<1> QED BY <1>1, <1>2, <1>3, <1>4, <1>5, <1>6 DEF Reduced

-----------------------------------------------------------------------------
(* The inductive invariant.  What workers and remote parties hold on to is *)
(* compared with the session that is stored now: it may be older, but what *)
(* has the current revision is the current session.                        *)

\* A session as some worker has read it.
Seen(s, now) ==
    /\ s.state_revision <= now.state_revision
    /\ s.state_revision = now.state_revision => s = now
    /\ s.pending \subseteq now.fingerprints

JobSeen(j, now) ==
    /\ j.revision <= now.state_revision
    /\ j.revision = now.state_revision => j = Job(now)
    /\ j.experiments \subseteq now.fingerprints

EvidenceSeen(revision, evidence, now) ==
    /\ revision <= now.state_revision
    /\ revision = now.state_revision => evidence = now.evidence

\* A transition that was computed and not committed.
Prepared(t, o, now) ==
    /\ t.session.state_revision <= now.state_revision
    /\ t.session.state_revision = now.state_revision =>
          t \in Reduce(now, o) /\ ~(t.effect = "NONE" /\ t.session = now)

Holds(w) == pc[w] \in {"dispatch", "baselines"}

WorkerFits(w) ==
    /\ pc[w] \in {"load", "commit"} =>
          /\ op[w].kind \in Reduced \cup {"resume"}
          /\ op[w].kind = "decision" => EvidenceSeen(op[w].revision, op[w].analysed, store)
    /\ pc[w] = "commit" =>
          /\ op[w].kind \in Reduced
          /\ txn[w] \in Txns /\ Prepared(txn[w], op[w], store)
    /\ Holds(w) => txn[w] \in Txns /\ Seen(txn[w].session, store)
    /\ pc[w] = "baselines" => txn[w].session.evidence \in delivered

Types ==
    /\ pc \in [Workers -> {"idle", "load", "commit", "dispatch", "baselines"}]
    /\ op \in [Workers -> Calls]
    /\ txn \in [Workers -> Txns \cup {NoTxn}]
    /\ jobs \subseteq [revision : Nat, experiments : SUBSET Experiments]
    /\ turns \subseteq [revision : Nat, evidence : SUBSET Results]

NothingBefore ==
    store = Absent => /\ \A w \in Workers : pc[w] = "idle"
                      /\ jobs = {} /\ turns = {}

\* No two sessions, and no two jobs, are known under one revision.
Agreement ==
    /\ \A v, w \in Workers :
          Holds(v) /\ Holds(w)
          /\ txn[v].session.state_revision = txn[w].session.state_revision
             => txn[v].session = txn[w].session
    /\ \A j \in jobs, w \in Workers :
          Holds(w) /\ j.revision = txn[w].session.state_revision => j = Job(txn[w].session)
    /\ \A j, k \in jobs : j.revision = k.revision => j = k

IInv ==
    /\ Types
    /\ store = Absent \/ Sound(store)
    /\ NothingBefore
    /\ \A w \in Workers : WorkerFits(w)
    /\ Agreement
    /\ \A j \in jobs : JobSeen(j, store)
    /\ \A t \in turns : EvidenceSeen(t.revision, t.evidence, store)
    /\ ReasonedOnCurrentEvidence
    /\ BaselineOnlyDelivered

\* The stored session is left alone or replaced by its next revision.
Moves(now, next) ==
    \/ next = now
    \/ /\ Sound(next)
       /\ next.state_revision = now.state_revision + 1
       /\ now.fingerprints \subseteq next.fingerprints

(* What was known of a session stays true when it moves on.                *)
LEMMA KnowledgeLasts ==
    ASSUME NEW now, Sound(now), NEW next, Moves(now, next)
    PROVE  /\ \A s \in Session : Seen(s, now) => Seen(s, next)
           /\ \A j \in [revision : Nat, experiments : SUBSET Experiments] :
                 JobSeen(j, now) => JobSeen(j, next)
           /\ \A n \in Nat : \A e : EvidenceSeen(n, e, now) => EvidenceSeen(n, e, next)
           /\ \A t \in Txns : \A o : Prepared(t, o, now) => Prepared(t, o, next)
<1>1. CASE next = now
  BY <1>1
<1>2. CASE next # now
  <2>1. /\ now.state_revision \in Nat
        /\ next.state_revision = now.state_revision + 1
        /\ now.fingerprints \subseteq next.fingerprints
    BY <1>2 DEF Moves, Sound, Session
  <2>2. \A n \in Nat : n <= now.state_revision =>
           n <= next.state_revision /\ n # next.state_revision
    BY <2>1
  <2>3. \A s \in Session : s.state_revision \in Nat
    BY DEF Session
  <2>4. \A t \in Txns : t.session.state_revision \in Nat
    BY <2>3 DEF Txns
  <2>5. \A s \in Session : Seen(s, now) => Seen(s, next)
    BY <2>1, <2>2, <2>3 DEF Seen
  <2>6. \A j \in [revision : Nat, experiments : SUBSET Experiments] :
           JobSeen(j, now) => JobSeen(j, next)
    BY <2>1, <2>2 DEF JobSeen
  <2>7. \A n \in Nat : \A e : EvidenceSeen(n, e, now) => EvidenceSeen(n, e, next)
    BY <2>2 DEF EvidenceSeen
  <2>8. \A t \in Txns : \A o : Prepared(t, o, now) => Prepared(t, o, next)
    BY <2>2, <2>4 DEF Prepared
  <2> QED BY <2>5, <2>6, <2>7, <2>8
<1> QED BY <1>1, <1>2

(* A session is not the absent one.                                        *)
LEMMA SessionsArePresent == ASSUME NEW s, Sound(s) PROVE s # Absent
BY CoordinatorAssumption DEF Sound

(* The other workers of a step.                                            *)
LEMMA OthersFit ==
    ASSUME IInv, Sound(store), Moves(store, store'), delivered \subseteq delivered',
           NEW v \in Workers, pc'[v] = pc[v], op'[v] = op[v], txn'[v] = txn[v]
    PROVE  WorkerFits(v)'
<1>1. WorkerFits(v) /\ op[v] \in Calls
  BY DEF IInv, Types
<1>2. ASSUME pc[v] \in {"load", "commit"}, op[v].kind = "decision"
      PROVE  EvidenceSeen(op[v].revision, op[v].analysed, store')
  <2>1. op[v].revision \in Nat
    BY <1>1, <1>2, CallFields
  <2> QED BY <1>1, <1>2, <2>1, KnowledgeLasts DEF WorkerFits
<1>3. ASSUME pc[v] = "commit" PROVE Prepared(txn[v], op[v], store')
  BY <1>1, <1>3, KnowledgeLasts DEF WorkerFits
<1>4. ASSUME Holds(v) PROVE Seen(txn[v].session, store')
  <2>1. txn[v].session \in Session
    BY <1>1, <1>4 DEF WorkerFits, Txns
  <2> QED BY <1>1, <1>4, <2>1, KnowledgeLasts DEF WorkerFits
<1> QED BY <1>1, <1>2, <1>3, <1>4 DEF WorkerFits, Holds

(* What remains to be shown of a step of one worker: what it now holds is  *)
(* what is stored, and what it sends is what it held.                      *)
LEMMA WorkerStep ==
    ASSUME IInv, Sound(store), Moves(store, store'), NEW w \in Workers, Types',
           \A v \in Workers : v # w => pc'[v] = pc[v] /\ op'[v] = op[v] /\ txn'[v] = txn[v],
           WorkerFits(w)',
           Holds(w)' => \/ Holds(w) /\ txn'[w] = txn[w]
                        \/ txn'[w].session = store',
           \/ jobs' = jobs
           \/ Holds(w) /\ ~Holds(w)' /\ store' = store /\ jobs' = jobs \cup {Job(txn[w].session)},
           \/ turns' = turns
           \/ /\ Holds(w) /\ store' = store
              /\ turns' = turns \cup {[revision |-> txn[w].session.state_revision,
                                        evidence |-> txn[w].session.evidence]},
           delivered \subseteq delivered', BaselineOnlyDelivered', ReasonedOnCurrentEvidence'
    PROVE  IInv'
<1>1. Sound(store')
  BY DEF Moves
<1>2. \A v \in Workers : WorkerFits(v)'
  BY OthersFit
<1>3. \A v \in Workers : Holds(v) => txn[v] \in Txns /\ txn[v].session \in Session
                                     /\ Seen(txn[v].session, store)
  BY DEF IInv, WorkerFits, Txns
<1>4. \A v \in Workers : v # w => (Holds(v)' <=> Holds(v)) /\ txn'[v] = txn[v]
  BY DEF Holds
<1>5. \A v \in Workers : Holds(v)' => Seen(txn'[v].session, store')
  BY <1>2 DEF WorkerFits
<1>6. \A j \in jobs' : JobSeen(j, store')
  <2>1. \A j \in jobs : JobSeen(j, store')
    BY KnowledgeLasts DEF IInv, Types
  <2>2. ASSUME Holds(w), store' = store PROVE JobSeen(Job(txn[w].session), store')
    BY <1>3, <2>2 DEF JobSeen, Job, Seen
  <2> QED BY <2>1, <2>2
<1>7. \A t \in turns' : EvidenceSeen(t.revision, t.evidence, store')
  <2>1. \A t \in turns : EvidenceSeen(t.revision, t.evidence, store')
    BY KnowledgeLasts DEF IInv, Types
  <2>2. ASSUME Holds(w), store' = store
        PROVE  EvidenceSeen(txn[w].session.state_revision, txn[w].session.evidence, store')
    BY <1>3, <2>2 DEF EvidenceSeen, Seen
  <2> QED BY <2>1, <2>2
<1>8. Agreement'
  <2>1. ASSUME NEW u \in Workers, NEW v \in Workers, Holds(u)', Holds(v)',
               txn'[u].session.state_revision = txn'[v].session.state_revision
        PROVE  txn'[u].session = txn'[v].session
    <3>1. CASE txn'[u].session = store' \/ txn'[v].session = store'
      BY <2>1, <3>1, <1>5 DEF Seen
    <3>2. CASE ~(txn'[u].session = store' \/ txn'[v].session = store')
      <4>1. Holds(u) /\ txn'[u] = txn[u] /\ Holds(v) /\ txn'[v] = txn[v]
        BY <2>1, <3>2, <1>4
      <4> QED BY <2>1, <4>1 DEF IInv, Agreement
    <3> QED BY <3>1, <3>2
  <2>2. ASSUME NEW j \in jobs', NEW v \in Workers, Holds(v)',
               j.revision = txn'[v].session.state_revision
        PROVE  j = Job(txn'[v].session)
    <3>1. CASE txn'[v].session = store'
      BY <2>2, <3>1, <1>6 DEF JobSeen
    <3>2. CASE txn'[v].session # store'
      <4>1. Holds(v) /\ txn'[v] = txn[v]
        BY <2>2, <3>2, <1>4
      <4>2. CASE j \in jobs
        BY <2>2, <4>1, <4>2 DEF IInv, Agreement
      <4>3. CASE j \notin jobs
        <5>1. Holds(w) /\ j = Job(txn[w].session)
          BY <4>3
        <5>2. txn[w].session.state_revision = txn[v].session.state_revision
          BY <2>2, <4>1, <5>1 DEF Job
        <5> QED BY <4>1, <5>1, <5>2 DEF IInv, Agreement
      <4> QED BY <4>2, <4>3
    <3> QED BY <3>1, <3>2
  <2>3. ASSUME NEW j \in jobs', NEW k \in jobs', j.revision = k.revision PROVE j = k
    <3>1. CASE j \in jobs /\ k \in jobs
      BY <2>3, <3>1 DEF IInv, Agreement
    <3>2. CASE ~(j \in jobs /\ k \in jobs)
      <4> DEFINE new == Job(txn[w].session)
      <4>1. Holds(w) /\ new.revision = txn[w].session.state_revision
            /\ (j \in jobs \/ j = new) /\ (k \in jobs \/ k = new) /\ (j = new \/ k = new)
        BY <3>2 DEF Job
      <4>2. \A i \in jobs : i.revision = new.revision => i = new
        BY <4>1 DEF IInv, Agreement
      <4> QED BY <2>3, <4>1, <4>2
    <3> QED BY <3>1, <3>2
  <2> QED BY <2>1, <2>2, <2>3 DEF Agreement, Holds, Job
<1>9. NothingBefore'
  BY <1>1, SessionsArePresent DEF NothingBefore
<1> QED BY <1>1, <1>2, <1>6, <1>7, <1>8, <1>9 DEF IInv

(* The end of a call.                                                      *)
LEMMA ReturnKeeps ==
    ASSUME IInv, Sound(store), Moves(store, store'), NEW w \in Workers, Return(w),
           \/ jobs' = jobs
           \/ Holds(w) /\ store' = store /\ jobs' = jobs \cup {Job(txn[w].session)},
           \/ turns' = turns
           \/ /\ Holds(w) /\ store' = store
              /\ turns' = turns \cup {[revision |-> txn[w].session.state_revision,
                                        evidence |-> txn[w].session.evidence]},
           UNCHANGED <<delivered, baselines>>, ReasonedOnCurrentEvidence'
    PROVE  IInv'
<1>1. /\ \A v \in Workers : v # w => pc'[v] = pc[v] /\ op'[v] = op[v] /\ txn'[v] = txn[v]
      /\ pc'[w] = "idle"
  BY DEF Return, IInv, Types
<1>2. Idle \in Calls
  BY DEF Idle, Calls
<1>3. ASSUME Holds(w) PROVE txn[w].session \in Session
  BY <1>3 DEF IInv, WorkerFits, Txns
<1>4. Types'
  <2>1. /\ pc' \in [Workers -> {"idle", "load", "commit", "dispatch", "baselines"}]
        /\ op' \in [Workers -> Calls]
        /\ txn' \in [Workers -> Txns \cup {NoTxn}]
    BY <1>2 DEF Return, IInv, Types
  <2>2. jobs' \subseteq [revision : Nat, experiments : SUBSET Experiments]
    BY <1>3 DEF IInv, Types, Job, Session
  <2>3. turns' \subseteq [revision : Nat, evidence : SUBSET Results]
    BY <1>3 DEF IInv, Types, Session
  <2> QED BY <2>1, <2>2, <2>3 DEF Types
<1>5. WorkerFits(w)' /\ ~Holds(w)'
  BY <1>1 DEF WorkerFits, Holds
<1>6. BaselineOnlyDelivered'
  BY DEF IInv, BaselineOnlyDelivered
<1> QED BY <1>1, <1>4, <1>5, <1>6, WorkerStep

(* A call that begins or goes on with a load, by an operation that fits.   *)
LEMMA LoadKeeps ==
    ASSUME IInv, Sound(store), UNCHANGED <<store, jobs, turns, delivered, judged>>,
           BaselineOnlyDelivered', NEW w \in Workers,
           NEW o \in Calls, o.kind \in Reduced \cup {"resume"},
           o.kind = "decision" => EvidenceSeen(o.revision, o.analysed, store),
           pc' = [pc EXCEPT ![w] = "load"], op' = [op EXCEPT ![w] = o],
           txn' = txn \/ txn' = [txn EXCEPT ![w] = NoTxn]
    PROVE  IInv'
<1>1. /\ \A v \in Workers : v # w => pc'[v] = pc[v] /\ op'[v] = op[v] /\ txn'[v] = txn[v]
      /\ pc'[w] = "load" /\ op'[w] = o
  BY DEF IInv, Types
<1>2. Types'
  BY DEF IInv, Types
<1>3. WorkerFits(w)' /\ ~Holds(w)'
  BY <1>1 DEF WorkerFits, Holds, EvidenceSeen
<1>4. Moves(store, store') /\ ReasonedOnCurrentEvidence'
  BY DEF Moves, IInv, ReasonedOnCurrentEvidence
<1> QED BY <1>1, <1>2, <1>3, <1>4, WorkerStep

(* A worker that is busy has a session to work on.                         *)
LEMMA BusyMeansPresent ==
    ASSUME IInv, NEW w \in Workers, pc[w] # "idle" PROVE Sound(store)
BY DEF IInv, NothingBefore

(* Creating the session.                                                   *)
LEMMA StartKeeps == ASSUME IInv, NEW w \in Workers, Start(w) PROVE IInv'
<1>1. PICK shared \in SharedResults :
         /\ store' = CreateSession(shared).session
         /\ txn' = [txn EXCEPT ![w] = CreateSession(shared)]
  BY DEF Start
<1>2. CreateSession(shared) \in Txns /\ Sound(store') /\ store' # Absent
  BY <1>1, CreateSound, SessionsArePresent
<1>3. /\ store = Absent /\ pc' = [pc EXCEPT ![w] = "dispatch"]
      /\ UNCHANGED <<op, attempt, jobs, turns, delivered, baselines, faults, judged>>
  BY DEF Start, Exists, remote
<1>4. /\ \A v \in Workers : v # w => pc'[v] = "idle"
      /\ pc'[w] = "dispatch" /\ txn'[w] = CreateSession(shared)
      /\ jobs' = {} /\ turns' = {}
  BY <1>1, <1>3 DEF IInv, Types, NothingBefore
<1>5. Types'
  BY <1>1, <1>2, <1>3 DEF IInv, Types
<1>6. \A v \in Workers : WorkerFits(v)'
  <2>1. WorkerFits(w)'
    BY <1>1, <1>2, <1>4 DEF WorkerFits, Holds, Seen, Sound, Session
  <2>2. ASSUME NEW v \in Workers, v # w PROVE WorkerFits(v)'
    BY <1>4, <2>2 DEF WorkerFits, Holds
  <2> QED BY <2>1, <2>2
<1>7. Agreement'
  BY <1>4 DEF Agreement, Holds
<1> QED BY <1>2, <1>3, <1>4, <1>5, <1>6, <1>7
        DEF IInv, NothingBefore, ReasonedOnCurrentEvidence, BaselineOnlyDelivered

(* Reducing what was loaded.                                               *)
LEMMA ApplyLoadKeeps == ASSUME IInv, NEW w \in Workers, ApplyLoad(w) PROVE IInv'
<1>1. Sound(store)
  BY BusyMeansPresent DEF ApplyLoad
<1>2. PICK t \in Reduce(store, op[w]) :
         ~NoChange(t) /\ txn' = [txn EXCEPT ![w] = t]
  BY DEF ApplyLoad
<1>3. /\ pc[w] = "load" /\ op[w].kind # "resume" /\ pc' = [pc EXCEPT ![w] = "commit"]
      /\ UNCHANGED <<store, op, attempt, jobs, turns, delivered, baselines, faults, judged>>
  BY DEF ApplyLoad, remote
<1>4. op[w] \in Calls /\ op[w].kind \in Reduced
  BY <1>3 DEF IInv, Types, WorkerFits
<1>5. t \in Txns /\ t.session.state_revision = store.state_revision
  BY <1>1, <1>4, ReduceContinues DEF Continues
<1>6. /\ \A v \in Workers : v # w => pc'[v] = pc[v] /\ op'[v] = op[v] /\ txn'[v] = txn[v]
      /\ pc'[w] = "commit" /\ op'[w] = op[w] /\ txn'[w] = t
  BY <1>2, <1>3 DEF IInv, Types
<1>7. Types'
  BY <1>2, <1>3, <1>5 DEF IInv, Types
<1>8. Prepared(t, op[w], store)
  BY <1>1, <1>2, <1>5 DEF Prepared, NoChange, Sound, Session
<1>9. WorkerFits(w)' /\ ~Holds(w)'
  BY <1>3, <1>4, <1>5, <1>6, <1>8 DEF WorkerFits, Holds, IInv
<1>10. Moves(store, store') /\ ReasonedOnCurrentEvidence' /\ BaselineOnlyDelivered'
  BY <1>3 DEF Moves, IInv, ReasonedOnCurrentEvidence, BaselineOnlyDelivered
<1> QED BY <1>1, <1>3, <1>6, <1>7, <1>9, <1>10, WorkerStep

(* What _apply commits.                                                    *)
LEMMA CommittedIs ==
    ASSUME NEW t \in Txns
    PROVE  /\ Committed(t).session = [t.session EXCEPT !.state_revision = @ + 1]
           /\ Committed(t).effect = t.effect
           /\ [t.session EXCEPT !.state_revision = @ + 1] \in Session => Committed(t) \in Txns
BY DEF Committed, Transition, Txns

(* A commit is the reduction of the session that is stored.                *)
LEMMA CommitMoves ==
    ASSUME IInv, NEW w \in Workers, ApplyCommit(w)
    PROVE  /\ Sound(store) /\ op[w] \in Calls /\ op[w].kind \in Reduced
           /\ txn[w] \in Txns /\ txn[w] \in Reduce(store, op[w]) /\ ~NoChange(txn[w])
           /\ store' = [txn[w].session EXCEPT !.state_revision = @ + 1]
           /\ Committed(txn[w]) \in Txns /\ Committed(txn[w]).session = store'
           /\ Sound(store')
           /\ store'.state_revision = store.state_revision + 1
           /\ store.fingerprints \subseteq store'.fingerprints
<1>1. pc[w] = "commit" /\ store.state_revision = txn[w].session.state_revision
      /\ store' = Committed(txn[w]).session
  BY DEF ApplyCommit, CasMatches
<1>2. Sound(store)
  BY <1>1, BusyMeansPresent
<1>3. /\ op[w] \in Calls /\ op[w].kind \in Reduced
      /\ txn[w] \in Txns /\ txn[w] \in Reduce(store, op[w]) /\ ~NoChange(txn[w])
  BY <1>1 DEF IInv, Types, WorkerFits, Prepared, NoChange
<1>4. Continues(store, txn[w])
  BY <1>2, <1>3, ReduceContinues
<1> DEFINE s == txn[w].session
           n == [s EXCEPT !.state_revision = @ + 1]
<1>5. store' = n
  BY <1>1, <1>3, CommittedIs
<1>6. Sound(s) /\ s.state_revision \in Nat
  BY <1>4 DEF Continues, Sound, Session
<1>7. /\ n \in Session /\ n.status = s.status /\ n.pending = s.pending
      /\ n.completed = s.completed /\ n.evidence = s.evidence
      /\ n.fingerprints = s.fingerprints /\ n.submitted = s.submitted
      /\ n.state_revision = s.state_revision + 1
  <2> HIDE DEF s
  <2> QED BY <1>6 DEF Sound, Session
<1>8. Sound(n)
  <2> HIDE DEF s, n
  <2> QED BY <1>6, <1>7 DEF Sound, Answers
<1>9. Committed(txn[w]) \in Txns /\ Committed(txn[w]).session = store'
  BY <1>1, <1>3, <1>7, CommittedIs
<1> QED BY <1>1, <1>2, <1>3, <1>4, <1>5, <1>7, <1>8, <1>9 DEF Continues

(* Committing.                                                             *)
LEMMA CommitKeeps == ASSUME IInv, NEW w \in Workers, ApplyCommit(w) PROVE IInv'
<1>1. Sound(store) /\ Moves(store, store') /\ Sound(store')
  BY CommitMoves DEF Moves
<1>2. UNCHANGED <<jobs, turns, delivered, baselines>>
  BY DEF ApplyCommit, remote
<1>3. ReasonedOnCurrentEvidence'
  <2>1. ASSUME op[w].kind = "decision" PROVE op[w].analysed = store.evidence
    <3>1. RevisionCurrent(store, op[w])
      <4> SUFFICES ASSUME ~RevisionCurrent(store, op[w]) PROVE FALSE
        OBVIOUS
      <4>1. txn[w] = Transition(store, "NONE")
        BY <2>1, CommitMoves DEF Reduce
      <4>2. ~NoChange(txn[w])
        BY CommitMoves
      <4> QED BY <4>1, <4>2 DEF NoChange, Transition
    <3>2. EvidenceSeen(op[w].revision, op[w].analysed, store)
      BY <2>1 DEF IInv, WorkerFits, ApplyCommit
    <3> QED BY <3>1, <3>2 DEF RevisionCurrent, EvidenceSeen
  <2>2. \A j \in judged' : j \in judged \/ j.analysed = j.met
    BY <2>1 DEF ApplyCommit
  <2> QED BY <2>2 DEF IInv, ReasonedOnCurrentEvidence
<1>4. CASE txn[w].effect = "NONE"
  <2>1. Return(w)
    BY <1>4 DEF ApplyCommit
  <2> QED BY <1>1, <1>2, <1>3, <2>1, ReturnKeeps
<1>5. CASE txn[w].effect # "NONE"
  <2>1. /\ txn' = [txn EXCEPT ![w] = Committed(txn[w])]
        /\ pc' = [pc EXCEPT ![w] = "dispatch"]
        /\ op' = [op EXCEPT ![w] = Idle]
    BY <1>5 DEF ApplyCommit
  <2>2. Committed(txn[w]) \in Txns /\ Committed(txn[w]).session = store'
    BY CommitMoves
  <2>3. /\ \A v \in Workers : v # w => pc'[v] = pc[v] /\ op'[v] = op[v] /\ txn'[v] = txn[v]
        /\ pc'[w] = "dispatch" /\ txn'[w] = Committed(txn[w])
    BY <2>1 DEF IInv, Types
  <2>4. Idle \in Calls
    BY DEF Idle, Calls
  <2>5. Types'
    BY <1>2, <2>1, <2>2, <2>4 DEF IInv, Types
  <2>6. Seen(store', store')
    BY <1>1 DEF Seen, Sound, Session
  <2>7. WorkerFits(w)' /\ txn'[w].session = store'
    BY <2>2, <2>3, <2>6 DEF WorkerFits, Holds, Seen
  <2>8. BaselineOnlyDelivered'
    BY <1>2 DEF IInv, BaselineOnlyDelivered
  <2> QED BY <1>1, <1>2, <1>3, <2>3, <2>5, <2>7, <2>8, WorkerStep
<1> QED BY <1>4, <1>5

(* resume, when the session owes something.                                *)
LEMMA ResumeKeeps == ASSUME IInv, NEW w \in Workers, ResumeLoad(w) PROVE IInv'
<1>1. Sound(store) /\ UNCHANGED <<store, jobs, turns, delivered, baselines, faults, judged>>
  BY BusyMeansPresent DEF ResumeLoad, remote
<1>2. Moves(store, store') /\ ReasonedOnCurrentEvidence' /\ BaselineOnlyDelivered'
  BY <1>1 DEF Moves, IInv, ReasonedOnCurrentEvidence, BaselineOnlyDelivered
<1>3. CASE ResumeSession(store).effect = "NONE"
  <2>1. Return(w)
    BY <1>3 DEF ResumeLoad
  <2> QED BY <1>1, <1>2, <2>1, ReturnKeeps
<1>4. CASE ResumeSession(store).effect # "NONE"
  <2> DEFINE t == ResumeSession(store)
  <2>1. /\ txn' = [txn EXCEPT ![w] = t]
        /\ pc' = [pc EXCEPT ![w] = "dispatch"]
        /\ op' = [op EXCEPT ![w] = Idle]
    BY <1>4 DEF ResumeLoad
  <2>2. t \in Txns /\ t.session = store
    BY <1>1 DEF ResumeSession, Transition, Txns, Effects, Sound, Session, Statuses, Waiting, Terminal
  <2> HIDE DEF t
  <2>3. /\ \A v \in Workers : v # w => pc'[v] = pc[v] /\ op'[v] = op[v] /\ txn'[v] = txn[v]
        /\ pc'[w] = "dispatch" /\ txn'[w] = t
    BY <2>1 DEF IInv, Types
  <2>4. Idle \in Calls
    BY DEF Idle, Calls
  <2>5. Types'
    BY <1>1, <2>1, <2>2, <2>4 DEF IInv, Types
  <2>6. Seen(store, store)
    BY <1>1 DEF Seen, Sound, Session
  <2>7. WorkerFits(w)' /\ txn'[w].session = store'
    BY <1>1, <2>2, <2>3, <2>6 DEF WorkerFits, Holds
  <2> QED BY <1>1, <1>2, <2>3, <2>5, <2>7, WorkerStep
<1> QED BY <1>3, <1>4

(* Delivering a report.                                                    *)
LEMMA PublishKeeps == ASSUME IInv, NEW w \in Workers, PublishReport(w) PROVE IInv'
<1>1. /\ Sound(store) /\ Holds(w) /\ pc' = [pc EXCEPT ![w] = "baselines"]
      /\ UNCHANGED <<store, op, txn, attempt, jobs, turns, baselines, faults, judged>>
      /\ delivered' = delivered \cup {txn[w].session.evidence}
  BY BusyMeansPresent DEF PublishReport, Dispatching, Holds
<1>2. /\ \A v \in Workers : v # w => pc'[v] = pc[v] /\ op'[v] = op[v] /\ txn'[v] = txn[v]
      /\ pc'[w] = "baselines" /\ txn'[w] = txn[w]
  BY <1>1 DEF IInv, Types
<1>3. Types'
  BY <1>1 DEF IInv, Types
<1>4. WorkerFits(w)'
  BY <1>1, <1>2 DEF IInv, WorkerFits, Holds
<1>5. Moves(store, store') /\ ReasonedOnCurrentEvidence' /\ BaselineOnlyDelivered'
  BY <1>1 DEF Moves, IInv, ReasonedOnCurrentEvidence, BaselineOnlyDelivered
<1> QED BY <1>1, <1>2, <1>3, <1>4, <1>5, WorkerStep

(* Callbacks from outside.                                                 *)
LEMMA CallbackKeeps == ASSUME IInv, NEW w \in Workers, Callback(w), ~Start(w) PROVE IInv'
<1>1. ASSUME Exists, NEW o \in Calls, o.kind \in Reduced \cup {"resume"},
             o.kind = "decision" => EvidenceSeen(o.revision, o.analysed, store),
             Begin(w, o, "load"), UNCHANGED <<store, remote>>
      PROVE  IInv'
  <2>1. Sound(store)
    BY <1>1 DEF IInv, Exists
  <2>2. UNCHANGED <<store, jobs, turns, delivered, judged, txn>> /\ BaselineOnlyDelivered'
    BY <1>1 DEF Begin, remote, IInv, BaselineOnlyDelivered
  <2> QED BY <1>1, <2>1, <2>2, LoadKeeps DEF Begin
<1>2. CASE Resume(w)
  BY <1>1, <1>2 DEF Resume, Calls
<1>3. ASSUME NEW x \in Experiments, OnExperimentEnvelope(w, x) PROVE IInv'
  <2>1. PICK j \in jobs, p \in Payloads :
           Begin(w, [kind |-> "result", revision |-> j.revision,
                     result |-> [id |-> x, payload |-> p]], "load")
    BY <1>3 DEF OnExperimentEnvelope
  <2>2. j.revision \in Nat /\ Exists
    BY DEF IInv, Types, NothingBefore, Exists
  <2> DEFINE o == [kind |-> "result", revision |-> j.revision, result |-> [id |-> x, payload |-> p]]
  <2>3. o \in Calls /\ o.kind = "result"
    BY <2>2 DEF Calls
  <2>4. UNCHANGED <<store, remote>>
    BY <1>3 DEF OnExperimentEnvelope
  <2> HIDE DEF o
  <2>5. Begin(w, o, "load")
    BY <2>1 DEF o
  <2> QED BY <1>1, <2>2, <2>3, <2>4, <2>5 DEF Reduced
<1>4. ASSUME NEW t \in turns, OnReasoningDecision(w, t) PROVE IInv'
  <2>1. PICK d \in Decisions :
           Begin(w, [kind |-> "decision", revision |-> t.revision,
                     decision |-> d, analysed |-> t.evidence], "load")
    BY <1>4 DEF OnReasoningDecision
  <2>2. /\ t.revision \in Nat /\ t.evidence \in SUBSET Results /\ Exists
        /\ EvidenceSeen(t.revision, t.evidence, store)
    BY DEF IInv, Types, NothingBefore, Exists
  <2> DEFINE o == [kind |-> "decision", revision |-> t.revision,
                   decision |-> d, analysed |-> t.evidence]
  <2>3. o \in Calls /\ o.kind = "decision" /\ o.revision = t.revision /\ o.analysed = t.evidence
    BY <2>2 DEF Calls
  <2>4. UNCHANGED <<store, remote>>
    BY <1>4 DEF OnReasoningDecision
  <2> HIDE DEF o
  <2>5. Begin(w, o, "load")
    BY <2>1 DEF o
  <2> QED BY <1>1, <2>2, <2>3, <2>4, <2>5 DEF Reduced
<1>5. CASE OnInfrastructureFailure(w)
  <2>1. store.state_revision \in Nat /\ Exists
    BY <1>5 DEF IInv, OnInfrastructureFailure, Exists, Sound, Session
  <2> QED BY <1>1, <1>5, <2>1 DEF OnInfrastructureFailure, Calls, Reduced
<1>6. CASE OnReportPublicationFailure(w)
  <2>1. store.state_revision \in Nat /\ Exists
    BY <1>6 DEF IInv, OnReportPublicationFailure, Exists, Sound, Session
  <2> QED BY <1>1, <1>6, <2>1 DEF OnReportPublicationFailure, Calls, Reduced
<1> QED BY <1>2, <1>3, <1>4, <1>5, <1>6 DEF Callback

(* Every step keeps the invariant.                                         *)
LEMMA StepIInv == IInv /\ [Next]_vars => IInv'
<1> SUFFICES ASSUME IInv, [Next]_vars PROVE IInv'
  OBVIOUS
<1>1. ASSUME NEW w \in Workers, Return(w), pc[w] # "idle",
             UNCHANGED <<store, remote, judged>>
      PROVE  IInv'
  <2>1. Sound(store) /\ Moves(store, store')
    BY <1>1, BusyMeansPresent DEF Moves
  <2>2. ReasonedOnCurrentEvidence'
    BY <1>1 DEF IInv, ReasonedOnCurrentEvidence
  <2> QED BY <1>1, <2>1, <2>2, ReturnKeeps DEF remote
<1>2. ASSUME NEW w \in Workers, ApplyEnds(w) \/ Fault(w) PROVE IInv'
  BY <1>1, <1>2 DEF ApplyEnds, Fault
<1>3. ASSUME NEW w \in Workers, ApplyConflict(w) PROVE IInv'
  <2>1. CASE Return(w)
    BY <1>1, <1>3, <2>1 DEF ApplyConflict
  <2>2. CASE ~Return(w)
    <3>1. /\ pc[w] = "commit" /\ pc' = [pc EXCEPT ![w] = "load"]
          /\ txn' = [txn EXCEPT ![w] = NoTxn] /\ op' = op
          /\ UNCHANGED <<store, jobs, turns, delivered, baselines, judged>>
      BY <1>3, <2>2 DEF ApplyConflict, remote
    <3>2. op[w] \in Calls /\ op' = [op EXCEPT ![w] = op[w]]
      BY <3>1 DEF IInv, Types
    <3>3. /\ op[w].kind \in Reduced \cup {"resume"}
          /\ op[w].kind = "decision" => EvidenceSeen(op[w].revision, op[w].analysed, store)
      BY <3>1 DEF IInv, WorkerFits
    <3>4. Sound(store) /\ BaselineOnlyDelivered'
      BY <3>1, BusyMeansPresent DEF IInv, BaselineOnlyDelivered
    <3> QED BY <3>1, <3>2, <3>3, <3>4, LoadKeeps
  <2> QED BY <2>1, <2>2
<1>4. ASSUME NEW w \in Workers, SubmitExperiments(w) \/ RunReasoner(w) PROVE IInv'
  <2>1. Sound(store) /\ Holds(w) /\ Return(w) /\ Moves(store, store')
        /\ UNCHANGED <<store, delivered, baselines>>
    BY <1>4, BusyMeansPresent
       DEF SubmitExperiments, RunReasoner, Dispatching, Holds, Moves
  <2>2. ReasonedOnCurrentEvidence'
    BY <1>4 DEF IInv, ReasonedOnCurrentEvidence, SubmitExperiments, RunReasoner
  <2> QED BY <1>4, <2>1, <2>2, ReturnKeeps DEF SubmitExperiments, RunReasoner
<1>5. ASSUME NEW w \in Workers, NEW kind \in {"triage", "published"}, ApplyNext(w, kind),
             pc[w] # "idle", UNCHANGED <<store, jobs, turns, delivered, judged>>,
             BaselineOnlyDelivered'
      PROVE  IInv'
  <2>1. Sound(store)
    BY <1>5, BusyMeansPresent
  <2>2. [kind |-> kind] \in Calls
    BY DEF Calls
  <2> QED BY <1>5, <2>1, <2>2, LoadKeeps DEF ApplyNext, Reduced
<1>6. ASSUME NEW w \in Workers, RunTriage(w) PROVE IInv'
  <2>1. BaselineOnlyDelivered'
    BY <1>6 DEF IInv, BaselineOnlyDelivered, RunTriage, remote
  <2> QED BY <1>5, <1>6, <2>1 DEF RunTriage, Dispatching, remote
<1>7. ASSUME NEW w \in Workers, RecordBaselines(w) PROVE IInv'
  <2>1. txn[w].session.evidence \in delivered
    BY <1>7 DEF RecordBaselines, IInv, WorkerFits
  <2>2. BaselineOnlyDelivered'
    BY <1>7, <2>1 DEF IInv, BaselineOnlyDelivered, RecordBaselines
  <2> QED BY <1>5, <1>7, <2>2 DEF RecordBaselines
<1>8. CASE UNCHANGED vars
  BY <1>8 DEF vars, IInv, Types, NothingBefore, WorkerFits, Agreement, Holds, Job,
              ReasonedOnCurrentEvidence, BaselineOnlyDelivered
<1> QED BY <1>2, <1>3, <1>4, <1>6, <1>7, <1>8, StartKeeps, CallbackKeeps, ApplyLoadKeeps,
           CommitKeeps, ResumeKeeps, PublishKeeps
        DEF Next, Step, Callback

(* The invariant holds at the start.                                       *)
LEMMA InitIInv == Init => IInv
<1> SUFFICES ASSUME Init PROVE IInv
  OBVIOUS
<1>1. Idle \in Calls
  BY DEF Idle, Calls
<1>2. Types
  BY <1>1 DEF Init, Types
<1> QED BY <1>2 DEF Init, IInv, NothingBefore, WorkerFits, Holds, Agreement,
                    ReasonedOnCurrentEvidence, BaselineOnlyDelivered

LEMMA Invariance == Spec => []IInv
BY InitIInv, StepIInv, PTL DEF Spec

(* A session pinned to a kernel is the coordinator's, whatever else start  *)
(* may begin.                                                              *)
LEMMA CallsAreSpec == CallsSpec => Spec
<1>1. CallsInit => Init
  BY DEF CallsInit
<1>2. [CallsNext]_<<pinned, fanout, vars>> => [Next]_vars
  BY DEF CallsNext, PinnedSession, DiscoveryParent
<1> QED BY <1>1, <1>2, PTL DEF CallsSpec, Spec

-----------------------------------------------------------------------------
(* The results.                                                            *)

(* A reasoning decision only takes effect on the evidence it was made      *)
(* from, however many workers and late decisions there are                 *)
(* (on_reasoning_decision).                                                *)
THEOREM DecisionsRestOnCurrentEvidence == CallsSpec => []ReasonedOnCurrentEvidence
<1>1. IInv => ReasonedOnCurrentEvidence
  BY DEF IInv
<1> QED BY <1>1, CallsAreSpec, Invariance, PTL

(* A dispatch key stands for one batch, which was committed before it was  *)
(* dispatched (_dispatch).                                                 *)
THEOREM KeysDetermineWork == CallsSpec => []DispatchKeyDeterminesWork
<1>1. IInv => DispatchKeyDeterminesWork
  BY DEF IInv, Agreement, JobSeen, DispatchKeyDeterminesWork
<1> QED BY <1>1, CallsAreSpec, Invariance, PTL

(* A baseline only holds findings of a delivered report                    *)
(* (record_published_baselines).                                           *)
THEOREM BaselinesAreDelivered == CallsSpec => []BaselineOnlyDelivered
<1>1. IInv => BaselineOnlyDelivered
  BY DEF IInv
<1> QED BY <1>1, CallsAreSpec, Invariance, PTL

-----------------------------------------------------------------------------
(* The refinement.                                                         *)

\* The fields the abstract session is made of.
SameView(s, n) ==
    /\ n.status = s.status /\ n.round_index = s.round_index
    /\ n.report_publication = s.report_publication /\ n.fingerprints = s.fingerprints
    /\ n.submitted = s.submitted /\ n.evidence = s.evidence

(* A new revision of the same session looks the same.                      *)
LEMMA RevisionIsInvisible ==
    ASSUME NEW s \in Session
    PROVE  SameView(s, [s EXCEPT !.state_revision = @ + 1])
BY DEF Session, SameView

(* While a session exists, the mapping reads its fields.                   *)
LEMMA ViewOfLifecycle ==
    ASSUME Exists, store' # Absent, NEW n, SameView(n, store'), SameView(store, n)
    PROVE  UNCHANGED Lifecycle!vars
BY DEF Lifecycle!vars, Exists, SameView

(* The cardinality the abstract session speaks of.                         *)
LEMMA LifecycleCardinality == ASSUME NEW S PROVE Lifecycle!Cardinality(S) = Cardinality(S)
BY Zenon DEF Lifecycle!Cardinality, Cardinality

(* Creating a session is creating the abstract one.                        *)
LEMMA StartImplements == ASSUME IInv, NEW w \in Workers, Start(w) PROVE Lifecycle!Create
<1>1. PICK shared \in SharedResults : store' = CreateSession(shared).session
  BY DEF Start
<1>2. store = Absent /\ store' # Absent /\ Sound(store')
  BY <1>1, CreateSound, SessionsArePresent DEF Start, Exists
<1>3. /\ store'.evidence = shared /\ store'.round_index = 0
      /\ store'.fingerprints \cap Shared = {}
      /\ \/ /\ store'.fingerprints # {} /\ store'.status = "WAITING_INITIAL"
            /\ store'.report_publication = "NOT_READY"
         \/ /\ store'.fingerprints = {} /\ store'.status = "WAITING_TRIAGE"
            /\ store'.report_publication = "NOT_READY"
         \/ /\ store'.fingerprints = {} /\ store'.status = "INCONCLUSIVE"
            /\ store'.report_publication = "PENDING"
  <2>1. Initial \ {r.id : r \in shared} = Initial \ Shared
    BY SharedOnce
  <2>2. CASE Cardinality(Initial \ Shared) > MaxExperiments
    BY <1>1, <2>1, <2>2 DEF CreateSession, Inconclusive, Finish, Transition, NewSession
  <2>3. CASE ~(Cardinality(Initial \ Shared) > MaxExperiments)
    BY <1>1, <2>1, <2>3 DEF CreateSession, Transition, NewSession
  <2> QED BY <2>2, <2>3
<1>4. store'.fingerprints \subseteq Experiments
      /\ store'.submitted = Cardinality(store'.fingerprints)
      /\ store'.submitted <= MaxExperiments
  BY <1>2 DEF Sound, Session
<1>5. Lifecycle!Ask(store'.fingerprints)
  <2>1. Lifecycle!Answered = {}
    BY <1>2 DEF Lifecycle!Answered, Exists
  <2>2. (IF Exists THEN store.fingerprints ELSE {}) = {}
    BY <1>2 DEF Exists
  <2>3. /\ (IF Exists THEN store.fingerprints ELSE {})' = store'.fingerprints
        /\ (IF Exists THEN store.submitted ELSE 0)' = store'.submitted
    BY <1>2 DEF Exists
  <2> QED BY <1>4, <2>1, <2>2, <2>3, LifecycleCardinality DEF Lifecycle!Ask
<1>6. /\ shared \subseteq Results
      /\ \A r, q \in shared : r.id = q.id => r = q
      /\ {r.id : r \in shared} = Shared
  BY SharedOnce
<1> QED BY <1>2, <1>3, <1>4, <1>5, <1>6 DEF Lifecycle!Create, Exists

(* A result that is accepted is collected.                                 *)
LEMMA AcceptImplements ==
    ASSUME Exists, store' # Absent, Sound(store),
           NEW r \in [id : Experiments, payload : Payloads],
           r.id \in store.pending, PhaseValid(store, r.id), FitsSpec(r),
           SameView(AcceptResult(store, r).session, store')
    PROVE  Lifecycle!Collect
<1> DEFINE left == store.pending \ {r.id}
           s1 == [store EXCEPT !.evidence = @ \cup {r}, !.pending = left,
                               !.completed = @ \cup {r.id}]
           to == IF r.id \in Initial THEN "WAITING_TRIAGE" ELSE "WAITING_REASONER"
           s2 == [s1 EXCEPT !.status = to]
           n  == AcceptResult(store, r).session
<1>1. n = IF left # {} THEN s1 ELSE s2
  BY DEF AcceptResult, Transition
<1>2. /\ s1.status = store.status /\ s1.round_index = store.round_index
      /\ s1.report_publication = store.report_publication
      /\ s1.fingerprints = store.fingerprints /\ s1.submitted = store.submitted
      /\ s1.evidence = store.evidence \cup {r}
      /\ DOMAIN s1 = DOMAIN store
  BY DEF Sound, Session
<1>3. /\ s2.status = to /\ s2.round_index = s1.round_index
      /\ s2.report_publication = s1.report_publication
      /\ s2.fingerprints = s1.fingerprints /\ s2.submitted = s1.submitted
      /\ s2.evidence = s1.evidence
  BY DEF Sound, Session
<1> HIDE DEF s1, s2, n
<1>4. /\ store'.round_index = store.round_index
      /\ store'.report_publication = store.report_publication
      /\ store'.fingerprints = store.fingerprints /\ store'.submitted = store.submitted
      /\ store'.evidence = store.evidence \cup {r}
      /\ store'.status = IF left # {} THEN store.status ELSE to
  BY <1>1, <1>2, <1>3 DEF SameView, n
<1>5. /\ store.status = IF r.id \in Initial THEN "WAITING_INITIAL" ELSE "WAITING_FOLLOWUP"
      /\ store.pending = store.fingerprints \ {q.id : q \in store.evidence}
  BY DEF PhaseValid, Sound, Answers, Waiting
<1>6. Lifecycle!Outstanding = store.pending
  BY <1>5 DEF Lifecycle!Outstanding, Lifecycle!Answered
<1>7. r \in Results
  BY DEF Results, FitsSpec
<1>8. (left # {}) <=> (store.pending # {r.id})
  OBVIOUS
<1> QED BY <1>4, <1>5, <1>6, <1>7, <1>8 DEF Lifecycle!Collect, Exists

(* A follow-up batch is asked for.                                         *)
LEMMA FollowUpImplements ==
    ASSUME Exists, store' # Absent, Sound(store), store.status = "WAITING_REASONER",
           ~RoundsExhausted(store), NEW batch \in GuardExpand(store),
           batch # {}, ~(store.submitted + Cardinality(batch) > MaxExperiments),
           SameView(FollowUp(store, batch).session, store')
    PROVE  Lifecycle!AskForMore
<1> DEFINE n == FollowUp(store, batch).session
           F == store.fingerprints
<1>1. /\ n.status = "WAITING_FOLLOWUP" /\ n.round_index = store.round_index + 1
      /\ n.report_publication = store.report_publication
      /\ n.fingerprints = F \cup batch
      /\ n.submitted = store.submitted + Cardinality(batch)
      /\ n.evidence = store.evidence
  BY DEF FollowUp, Transition, Sound, Session
<1> HIDE DEF n
<1>2. /\ store'.status = "WAITING_FOLLOWUP" /\ store'.round_index = store.round_index + 1
      /\ store'.report_publication = store.report_publication
      /\ store'.fingerprints = F \cup batch
      /\ store'.submitted = store.submitted + Cardinality(batch)
      /\ store'.evidence = store.evidence
  BY <1>1 DEF SameView, n
<1>3. /\ batch \in SUBSET Experiments /\ F \in SUBSET Experiments
      /\ batch \cap (F \cup Initial) = {} /\ F \cap batch = {}
      /\ {r.id : r \in store.evidence} \subseteq F \cup Initial
      /\ store.submitted = Cardinality(F)
  BY DEF GuardExpand, Sound, Session, Answers
<1>4. /\ Cardinality(F \cup batch) = store.submitted + Cardinality(batch)
      /\ store.submitted \in Nat /\ Cardinality(batch) \in Nat
  BY <1>3, BatchCost
<1>5. store.submitted + Cardinality(batch) <= MaxExperiments
  BY <1>4, SessionAssumption
<1>6. /\ (IF Exists THEN store.fingerprints ELSE {}) = F
      /\ (IF Exists THEN store.fingerprints ELSE {})' = F \cup batch
      /\ (IF Exists THEN store.submitted ELSE 0)' = Cardinality(F \cup batch)
  BY <1>2, <1>4 DEF Exists
<1>7. Lifecycle!Answered \subseteq F \cup Initial
  BY <1>3 DEF Lifecycle!Answered
<1>8. Lifecycle!Ask(batch)
  <2> HIDE DEF F
  <2> QED BY <1>3, <1>4, <1>5, <1>6, <1>7, LifecycleCardinality DEF Lifecycle!Ask
<1>9. store.round_index < MaxRounds
  BY SessionAssumption DEF RoundsExhausted, Sound, Session
<1> QED BY <1>2, <1>3, <1>8, <1>9 DEF Lifecycle!AskForMore, Exists

(* Ending, giving up and settling the report.                              *)
LEMMA EndImplements ==
    ASSUME Exists, store' # Absent, Sound(store),
           NEW n, SameView(n, store'),
           \/ /\ store.status \in {"WAITING_TRIAGE", "WAITING_REASONER"}
              /\ n \in {Finish(store, "COMPLETED").session, Finish(store, "INCONCLUSIVE").session}
           \/ /\ store.status \notin Terminal
              /\ n = [store EXCEPT !.status = "FAILED", !.pending = {}]
           \/ /\ store.status = "WAITING_TRIAGE"
              /\ n = [store EXCEPT !.status = "WAITING_REASONER"]
           \/ /\ Reported(store) /\ store.report_publication = "PENDING"
              /\ \E p \in {"PUBLISHED", "FAILED"} : n = [store EXCEPT !.report_publication = p]
    PROVE  Lifecycle!Next
<1> USE DEF Lifecycle!Next
<1>1. store \in Session
  BY DEF Sound
<1>2. CASE /\ store.status \in {"WAITING_TRIAGE", "WAITING_REASONER"}
           /\ n \in {Finish(store, "COMPLETED").session, Finish(store, "INCONCLUSIVE").session}
  <2>1. /\ n.status \in {"COMPLETED", "INCONCLUSIVE"} /\ n.report_publication = "PENDING"
        /\ n.round_index = store.round_index /\ n.fingerprints = store.fingerprints
        /\ n.submitted = store.submitted /\ n.evidence = store.evidence
    BY <1>1, <1>2 DEF Finish, Transition, Session
  <2>2. Lifecycle!Conclude
    BY <1>2, <2>1 DEF Lifecycle!Conclude, SameView, Exists
  <2> QED BY <2>2
<1>3. CASE /\ store.status \notin Terminal
           /\ n = [store EXCEPT !.status = "FAILED", !.pending = {}]
  <2>1. /\ n.status = "FAILED" /\ n.report_publication = store.report_publication
        /\ n.round_index = store.round_index /\ n.fingerprints = store.fingerprints
        /\ n.submitted = store.submitted /\ n.evidence = store.evidence
    BY <1>1, <1>3 DEF Session
  <2>2. store.status \notin Lifecycle!Ended \cup {"ABSENT"}
    BY <1>1, <1>3 DEF Lifecycle!Ended, Terminal, Session, Statuses, Waiting
  <2>3. Lifecycle!Fail
    BY <2>1, <2>2 DEF Lifecycle!Fail, SameView, Exists
  <2> QED BY <2>3
<1>4. CASE /\ store.status = "WAITING_TRIAGE"
           /\ n = [store EXCEPT !.status = "WAITING_REASONER"]
  <2>1. /\ n.status = "WAITING_REASONER" /\ n.report_publication = store.report_publication
        /\ n.round_index = store.round_index /\ n.fingerprints = store.fingerprints
        /\ n.submitted = store.submitted /\ n.evidence = store.evidence
    BY <1>1, <1>4 DEF Session
  <2>2. Lifecycle!Analyze
    BY <1>4, <2>1 DEF Lifecycle!Analyze, SameView, Exists
  <2> QED BY <2>2
<1>5. ASSUME Reported(store), store.report_publication = "PENDING",
             NEW p \in {"PUBLISHED", "FAILED"}, n = [store EXCEPT !.report_publication = p]
      PROVE  Lifecycle!Next
  <2>1. /\ n.status = store.status /\ n.report_publication = p
        /\ n.round_index = store.round_index /\ n.fingerprints = store.fingerprints
        /\ n.submitted = store.submitted /\ n.evidence = store.evidence
    BY <1>1, <1>5 DEF Session
  <2>2. Lifecycle!SettleReport
    BY <1>5, <2>1 DEF Lifecycle!SettleReport, SameView, Exists, Reported
  <2> QED BY <2>2
<1> QED BY <1>2, <1>3, <1>4, <1>5

(* A commit is a step of the abstract session, or invisible.               *)
LEMMA CommitImplements ==
    ASSUME IInv, NEW w \in Workers, ApplyCommit(w)
    PROVE  Lifecycle!Next \/ UNCHANGED Lifecycle!vars
<1> DEFINE o == op[w]
           t == txn[w]
<1>1. /\ Sound(store) /\ o \in Calls /\ o.kind \in Reduced /\ t \in Txns
      /\ t \in Reduce(store, o) /\ store' = [t.session EXCEPT !.state_revision = @ + 1]
      /\ Sound(store')
  BY CommitMoves
<1>2. Exists /\ store' # Absent
  BY <1>1, SessionsArePresent DEF Exists
<1>3. SameView(t.session, store')
  BY <1>1, RevisionIsInvisible DEF Txns
<1> HIDE DEF o, t
<1>4. ASSUME t = Transition(store, "NONE") PROVE UNCHANGED Lifecycle!vars
  <2>1. SameView(store, t.session)
    BY <1>4 DEF Transition, SameView
  <2> QED BY <1>2, <1>3, <2>1, ViewOfLifecycle
<1>5. ASSUME store.status \in {"WAITING_TRIAGE", "WAITING_REASONER"},
             t \in {Finish(store, "COMPLETED"), Finish(store, "INCONCLUSIVE")}
      PROVE  Lifecycle!Next
  BY <1>1, <1>2, <1>3, <1>5, EndImplements
<1>6. CASE o.kind = "result"
  <2>1. t \in RecordExperimentResult(store, o.result)
    BY <1>1, <1>6 DEF Reduce
  <2>2. \/ t = Transition(store, "NONE")
        \/ /\ t = AcceptResult(store, o.result) /\ o.result.id \in store.pending
           /\ PhaseValid(store, o.result.id) /\ FitsSpec(o.result)
    BY <2>1 DEF RecordExperimentResult
  <2>3. o.result \in [id : Experiments, payload : Payloads]
    BY <1>1, <1>6, CallFields
  <2>4. ASSUME t = AcceptResult(store, o.result), o.result.id \in store.pending,
               PhaseValid(store, o.result.id), FitsSpec(o.result)
        PROVE  Lifecycle!Collect
    BY <1>1, <1>2, <1>3, <2>3, <2>4, AcceptImplements
  <2> QED BY <2>2, <2>4, <1>4 DEF Lifecycle!Next
<1>7. CASE o.kind = "decision"
  <2>1. t = Transition(store, "NONE") \/ t \in RecordAnalysisDecision(store, o.decision)
    BY <1>1, <1>7 DEF Reduce
  <2>2. ASSUME t \in RecordAnalysisDecision(store, o.decision) PROVE Lifecycle!Next
    <3>1. store.status = "WAITING_REASONER"
      BY <2>2 DEF RecordAnalysisDecision
    <3>2. \/ t \in {Finish(store, "INCONCLUSIVE"), Finish(store, "COMPLETED")}
          \/ /\ ~RoundsExhausted(store)
             /\ \E batch \in GuardExpand(store) : t = FollowUp(store, batch)
      <4>1. o.decision \in Decisions
        BY <1>1, <1>7, CallFields
      <4> QED BY <2>2, <4>1 DEF RecordAnalysisDecision, Inconclusive, Decisions
    <3>3. ASSUME ~RoundsExhausted(store), NEW batch \in GuardExpand(store),
                 t = FollowUp(store, batch)
          PROVE  Lifecycle!Next
      <4>1. CASE batch = {} \/ store.submitted + Cardinality(batch) > MaxExperiments
        BY <3>1, <3>3, <4>1, <1>5 DEF FollowUp, Inconclusive
      <4>2. CASE ~(batch = {} \/ store.submitted + Cardinality(batch) > MaxExperiments)
        <5>1. Lifecycle!AskForMore
          BY <1>1, <1>2, <1>3, <3>1, <3>3, <4>2, FollowUpImplements
        <5> QED BY <5>1 DEF Lifecycle!Next
      <4> QED BY <4>1, <4>2
    <3> QED BY <3>1, <3>2, <3>3, <1>5
  <2> QED BY <2>1, <2>2, <1>4
<1>8. CASE o.kind = "infra"
  <2>1. t = Transition(store, "NONE") \/ t \in RecordInfrastructureFailure(store)
    BY <1>1, <1>8 DEF Reduce
  <2>2. \/ t = Transition(store, "NONE")
        \/ /\ store.status \notin Terminal
           /\ t.session = [store EXCEPT !.status = "FAILED", !.pending = {}]
    BY <2>1 DEF RecordInfrastructureFailure, Transition
  <2> QED BY <1>1, <1>2, <1>3, <1>4, <2>2, EndImplements
<1>9. CASE o.kind \in {"pubfail", "published"}
  <2>1. \/ t = Transition(store, "NONE")
        \/ t \in RecordReportPublished(store) \cup RecordReportPublicationFailed(store)
    BY <1>1, <1>9 DEF Reduce
  <2>2. \/ t = Transition(store, "NONE")
        \/ /\ Reported(store) /\ store.report_publication = "PENDING"
           /\ \E p \in {"PUBLISHED", "FAILED"} :
                 t.session = [store EXCEPT !.report_publication = p]
    BY <2>1 DEF RecordReportPublished, RecordReportPublicationFailed, Transition
  <2> QED BY <1>1, <1>2, <1>3, <1>4, <2>2, EndImplements
<1>10. CASE o.kind = "triage"
  <2>1. t \in RecordTriageDecision(store)
    BY <1>1, <1>10 DEF Reduce
  <2>2. \/ t = Transition(store, "NONE")
        \/ /\ store.status = "WAITING_TRIAGE"
           /\ \E v \in TriageOutcomes(store) : t = ApplyTriage(store, v)
    BY <2>1 DEF RecordTriageDecision
  <2>3. \/ t = Transition(store, "NONE")
        \/ /\ store.status = "WAITING_TRIAGE"
           /\ \/ t \in {Finish(store, "COMPLETED"), Finish(store, "INCONCLUSIVE")}
              \/ t.session = [store EXCEPT !.status = "WAITING_REASONER"]
    BY <2>2 DEF TriageOutcomes, ApplyTriage, Inconclusive, Transition
  <2> QED BY <1>1, <1>2, <1>3, <1>4, <1>5, <2>3, EndImplements
<1> QED BY <1>1, <1>6, <1>7, <1>8, <1>9, <1>10 DEF Reduced

(* A step that leaves the stored session alone is invisible.               *)
LEMMA StoreUntouched ==
    ASSUME [Next]_vars, \A w \in Workers : ~Start(w) /\ ~ApplyCommit(w)
    PROVE  store' = store
BY DEF Next, Step, Callback, vars, Resume, OnExperimentEnvelope, OnReasoningDecision,
       OnInfrastructureFailure, OnReportPublicationFailure, ApplyEnds, ApplyLoad,
       ApplyConflict, ResumeLoad, SubmitExperiments, RunTriage, RunReasoner, PublishReport,
       RecordBaselines, Fault

(* The coordinator implements the abstract session, however callbacks are  *)
(* repeated, lost or reordered and however workers race (_apply, record_*  *)
(* in session.py).                                                         *)
THEOREM CoordinatorImplementsLifecycle == CallsSpec => ImplementsLifecycle
<1>1. Init => Lifecycle!Init
  BY DEF Init, Lifecycle!Init, Exists
<1>2. IInv /\ [Next]_vars => [Lifecycle!Next]_(Lifecycle!vars)
  <2> SUFFICES ASSUME IInv, [Next]_vars PROVE [Lifecycle!Next]_(Lifecycle!vars)
    OBVIOUS
  <2>1. ASSUME NEW w \in Workers, Start(w) PROVE Lifecycle!Next
    BY <2>1, StartImplements DEF Lifecycle!Next
  <2>2. ASSUME NEW w \in Workers, ApplyCommit(w)
        PROVE  Lifecycle!Next \/ UNCHANGED Lifecycle!vars
    BY <2>2, CommitImplements
  <2>3. CASE \A w \in Workers : ~Start(w) /\ ~ApplyCommit(w)
    <3>1. store' = store
      BY <2>3, StoreUntouched
    <3> QED BY <3>1 DEF Lifecycle!vars, Exists
  <2> QED BY <2>1, <2>2, <2>3
<1> QED BY <1>1, <1>2, CallsAreSpec, Invariance, PTL
        DEF Spec, ImplementsLifecycle, Lifecycle!Spec


-----------------------------------------------------------------------------
(* The fan-out of a discovery.  Once the parent has all its results        *)
(* (ReadyIn) nothing changes what its children start from, so every        *)
(* attempt at a child begins the same session; one that is still at its    *)
(* first revision is as it was created, and whoever took it up hands on    *)
(* what it owed then.                                                      *)

ParentExperiments == Initial \cup {Discovery}

ParentResults == [id : Initial, payload : {"signal"}]
                 \cup [id : {Discovery}, payload : {"discovered", "undiscovered"}]

ParentCore == [state_revision : Nat,
               status : Fanout!Terminal \cup {"WAITING_INITIAL", "WAITING_CHILDREN"},
               pending : SUBSET ParentExperiments, completed : SUBSET ParentExperiments,
               evidence : SUBSET ParentResults, fingerprints : SUBSET ParentExperiments,
               submitted : Nat, round_index : Nat,
               report_publication : Fanout!Publications]

ParentSession == [core : ParentCore, manifest : SUBSET Kernels, children : SUBSET Kernels]

ChildTxns == [session : Fanout!Session, effect : Fanout!Effects]

FanoutCall == [at : {"loop", "child"}, parent : ParentSession, todo : SUBSET Kernels,
               ids : SUBSET Kernels, failed : BOOLEAN, kid : Kernels \cup {Absent},
               txn : ChildTxns \cup {Absent}]

Answered(ss, x) == \E r \in ss[Root].core.evidence : r.id = x

ReadyIn(ss) == ss[Root].core.pending = {} /\ \A x \in TargetScoped : Answered(ss, x)

FirstTxn(ss) == Fanout!CreateSession(Fanout!SharedEvidence(ss[Root]))

ParentIn(ss) ==
    /\ ss[Root] \in ParentSession
    /\ ss[Root].core.status = "WAITING_INITIAL" =>
          \A x \in TargetScoped : x \in ss[Root].core.pending \/ Answered(ss, x)
    /\ ss[Root].core.status # "WAITING_INITIAL" => ss[Root].core.pending = {}
    /\ ss[Root].core.status \in {"WAITING_CHILDREN", "COMPLETED"} => ReadyIn(ss)

HandedOnIn(k, ss, js) ==
    /\ ss[k] # Absent
    /\ ss[k].core.state_revision = 1 => \E j \in js : j.session = k /\ j.revision = 1

ChildIn(k, ss) ==
    ss[k] # Absent =>
       /\ ss[k] \in Fanout!StoredChild
       /\ ReadyIn(ss)
       /\ k \in ss[Root].manifest
       /\ ss[k].core.state_revision >= 1
       /\ ss[k].core.pending \cap TargetScoped = {}
       /\ Fanout!Admission(ss[k].core.evidence) = Fanout!SharedEvidence(ss[Root])
       /\ ss[k].core.state_revision = 1 => ss[k].core = FirstTxn(ss).session

BusyIn(f, ss, js) ==
    /\ f \in FanoutCall
    /\ ReadyIn(ss)
    /\ f.parent.manifest = ss[Root].manifest
    /\ f.parent.core.evidence = ss[Root].core.evidence
    /\ f.todo \subseteq ss[Root].manifest
    /\ ~f.failed => f.ids \cup f.todo = ss[Root].manifest
    /\ \A k \in f.ids : HandedOnIn(k, ss, js)
    /\ f.at = "child" =>
          /\ f.kid \in f.todo /\ f.txn \in ChildTxns /\ ss[f.kid] # Absent
          /\ ss[f.kid].core.state_revision = 1 => f.txn = FirstTxn(ss)

WholeIn(ss, js) ==
    ss[Root].core.status = "COMPLETED" =>
       /\ ss[Root].children = ss[Root].manifest
       /\ \A k \in ss[Root].manifest : HandedOnIn(k, ss, js)

FanInv ==
    /\ sessions = [i \in {Root} \cup Kernels |-> sessions[i]]
    /\ worker = [w \in Workers |-> worker[w]]
    /\ ParentIn(sessions)
    /\ \A k \in Kernels : ChildIn(k, sessions)
    /\ \A w \in Workers : worker[w] = Fanout!Off \/ BusyIn(worker[w], sessions, childJobs)
    /\ WholeIn(sessions, childJobs)

(* What the reducers keep of a child: its revision, and, while no          *)
(* target-wide result is awaited, the results it was admitted with.        *)
ChildKeeps(s, t) ==
    /\ t \in ChildTxns
    /\ t.session.state_revision = s.state_revision
    /\ t.session.pending \cap TargetScoped = {}
    /\ Fanout!Admission(t.session.evidence) = Fanout!Admission(s.evidence)

LEMMA ChildResult ==
    ASSUME NEW s \in Fanout!Session, s.pending \cap TargetScoped = {},
           NEW x, NEW t \in Fanout!RecordExperimentResult(s, [id |-> x, payload |-> "signal"])
    PROVE  ChildKeeps(s, t)
<1> DEFINE r == [id |-> x, payload |-> "signal"]
<1>1. CASE t = Fanout!Transition(s, "NONE")
  BY <1>1 DEF ChildKeeps, ChildTxns, Fanout!Transition, Fanout!Effects
<1>2. CASE x \in s.pending /\ t = Fanout!AcceptResult(s, r)
  <2> DEFINE left == s.pending \ {x}
             s1 == [s EXCEPT !.evidence = @ \cup {r}, !.pending = left,
                             !.completed = @ \cup {x}]
  <2>1. r \in Fanout!Results /\ x \notin TargetScoped /\ x \in Initial
    BY <1>2 DEF Fanout!Session, Fanout!Results
  <2>2. /\ s1 \in Fanout!Session /\ s1.state_revision = s.state_revision
        /\ s1.pending = left /\ s1.evidence = s.evidence \cup {r}
        /\ s1.report_publication = s.report_publication
    BY <2>1 DEF Fanout!Session
  <2>3. Fanout!Admission(s1.evidence) = Fanout!Admission(s.evidence)
    BY <2>1, <2>2 DEF Fanout!Admission
  <2>4. \/ t = [session |-> s1, effect |-> "NONE"]
        \/ t = [session |-> [s1 EXCEPT !.status = "WAITING_TRIAGE"], effect |-> "RUN_TRIAGE"]
    BY <1>2, <2>1 DEF Fanout!AcceptResult, Fanout!Transition
  <2> HIDE DEF s1
  <2>5. [s1 EXCEPT !.status = "WAITING_TRIAGE"] \in Fanout!Session
    BY <2>2 DEF Fanout!Session, Fanout!Statuses, Fanout!Waiting
  <2>6. /\ t \in ChildTxns
        /\ t.session.state_revision = s1.state_revision
        /\ t.session.pending = s1.pending /\ t.session.evidence = s1.evidence
    BY <2>2, <2>4, <2>5 DEF ChildTxns, Fanout!Effects, Fanout!Session
  <2> QED BY <2>2, <2>3, <2>6 DEF ChildKeeps
<1> QED BY <1>1, <1>2 DEF Fanout!RecordExperimentResult

LEMMA ChildVerdicts ==
    ASSUME NEW s \in Fanout!Session, s.pending \cap TargetScoped = {},
           NEW t,
           \/ t \in Fanout!RecordTriageDecision(s)
           \/ \E d \in Fanout!Decisions : t \in Fanout!RecordAnalysisDecision(s, d)
           \/ t \in Fanout!RecordReportPublished(s)
           \/ t \in Fanout!RecordReportPublicationFailed(s)
           \/ t \in Fanout!RecordInfrastructureFailure(s)
    PROVE  ChildKeeps(s, t)
<1>1. s.round_index >= 0
  BY DEF Fanout!Session
<1>2. \/ t = [session |-> s, effect |-> "NONE"]
      \/ \E status \in {"COMPLETED", "INCONCLUSIVE"} :
            t = [session |-> [s EXCEPT !.status = status, !.report_publication = "PENDING"],
                 effect |-> "PUBLISH_REPORT"]
      \/ t = [session |-> [s EXCEPT !.status = "WAITING_REASONER"], effect |-> "RUN_REASONER"]
      \/ \E p \in {"PUBLISHED", "FAILED"} :
            t = [session |-> [s EXCEPT !.report_publication = p], effect |-> "NONE"]
      \/ t = [session |-> [s EXCEPT !.status = "FAILED", !.pending = {}], effect |-> "NONE"]
  <2>1. CASE t \in Fanout!RecordTriageDecision(s)
    BY <2>1 DEF Fanout!RecordTriageDecision, Fanout!ApplyTriage, Fanout!TriageOutcomes,
                Fanout!Inconclusive, Fanout!Finish, Fanout!Transition
  <2>2. ASSUME NEW d \in Fanout!Decisions, t \in Fanout!RecordAnalysisDecision(s, d)
        PROVE  t \in {Fanout!Finish(s, "COMPLETED"), Fanout!Finish(s, "INCONCLUSIVE")}
    BY <1>1, <2>2 DEF Fanout!RecordAnalysisDecision, Fanout!RoundsExhausted, Fanout!Decisions,
                      Fanout!Inconclusive
  <2>3. CASE \/ t \in Fanout!RecordReportPublished(s)
             \/ t \in Fanout!RecordReportPublicationFailed(s)
             \/ t \in Fanout!RecordInfrastructureFailure(s)
    BY <2>3 DEF Fanout!RecordReportPublished, Fanout!RecordReportPublicationFailed,
                Fanout!RecordInfrastructureFailure, Fanout!Transition
  <2> QED BY <2>1, <2>2, <2>3 DEF Fanout!Finish, Fanout!Transition
<1> DEFINE keeps ==
      /\ t.session \in Fanout!Session /\ t.effect \in Fanout!Effects
      /\ t = [session |-> t.session, effect |-> t.effect]
      /\ t.session.state_revision = s.state_revision
      /\ t.session.pending \subseteq s.pending
      /\ t.session.evidence = s.evidence
<1>3. keeps
  <2> USE DEF Fanout!Session, Fanout!Statuses, Fanout!Waiting, Fanout!Terminal,
              Fanout!Publications, Fanout!Effects
  <2>1. CASE t = [session |-> s, effect |-> "NONE"]
    BY <2>1
  <2>2. ASSUME NEW status \in {"COMPLETED", "INCONCLUSIVE"},
               t = [session |-> [s EXCEPT !.status = status, !.report_publication = "PENDING"],
                    effect |-> "PUBLISH_REPORT"]
        PROVE  keeps
    BY <2>2
  <2>3. CASE t = [session |-> [s EXCEPT !.status = "WAITING_REASONER"],
                  effect |-> "RUN_REASONER"]
    BY <2>3
  <2>4. ASSUME NEW p \in {"PUBLISHED", "FAILED"},
               t = [session |-> [s EXCEPT !.report_publication = p], effect |-> "NONE"]
        PROVE  keeps
    BY <2>4
  <2>5. CASE t = [session |-> [s EXCEPT !.status = "FAILED", !.pending = {}],
                  effect |-> "NONE"]
    BY <2>5
  <2> QED BY <1>2, <2>1, <2>2, <2>3, <2>4, <2>5
<1> QED BY <1>3 DEF ChildKeeps, ChildTxns

(* The same Cardinality, seen through the instance.                        *)
LEMMA SameCount == ASSUME NEW S PROVE Fanout!Cardinality(S) = Cardinality(S)
BY DEF Fanout!Cardinality, Cardinality

(* The first transition of a child: it is still what a resume hands on     *)
(* while the session is as it was created.                                 *)
LEMMA CreateFirst ==
    ASSUME NEW shared \in SUBSET Fanout!Results,
           \A r \in shared : r.id \in TargetScoped,
           \A x \in TargetScoped : \E r \in shared : r.id = x
    PROVE  LET t == Fanout!CreateSession(shared)
           IN  /\ t \in ChildTxns
               /\ t.session.state_revision = 1
               /\ t.session.pending \cap TargetScoped = {}
               /\ t.session.evidence = shared
               /\ Fanout!ResumeSession(t.session) = t
               /\ t.effect \in {"SUBMIT_EXPERIMENTS", "RUN_TRIAGE", "PUBLISH_REPORT"}
               /\ t.effect = "RUN_TRIAGE" => t.session.status = "WAITING_TRIAGE"
               /\ t.effect = "PUBLISH_REPORT" => /\ t.session.status = "INCONCLUSIVE"
                                                 /\ t.session.report_publication = "PENDING"
<1> DEFINE pend  == Initial \ {r.id : r \in shared}
           over  == Fanout!NewSession(shared, {})
           ended == [over EXCEPT !.status = "INCONCLUSIVE", !.report_publication = "PENDING"]
           new   == Fanout!NewSession(shared, pend)
<1>1. TargetScoped \subseteq Initial /\ IsFiniteSet(Initial)
  BY CallsAssumption, SessionAssumption, FS_Subset
<1>2. {r.id : r \in shared} \subseteq Initial /\ pend \subseteq Initial
  BY <1>1
<1>3. pend \cap TargetScoped = {}
  BY <1>1
<1>4. Fanout!Cardinality(pend) \in Nat /\ Fanout!Cardinality({}) \in Nat
  BY <1>1, <1>2, SameCount, FS_Subset, FS_CardinalityType, FS_EmptySet
<1>5. new = [state_revision |-> 1,
             status |-> IF pend = {} THEN "WAITING_TRIAGE" ELSE "WAITING_INITIAL",
             pending |-> pend, completed |-> {r.id : r \in shared}, evidence |-> shared,
             fingerprints |-> pend, submitted |-> Fanout!Cardinality(pend), round_index |-> 0,
             report_publication |-> "NOT_READY"]
  BY DEF Fanout!NewSession
<1>6. over \in Fanout!Session /\ over.state_revision = 1 /\ over.pending = {} /\ over.evidence = shared
  BY <1>2, <1>4 DEF Fanout!NewSession, Fanout!Session, Fanout!Statuses, Fanout!Waiting,
                    Fanout!Publications
<1>7. CASE Fanout!Cardinality(pend) > MaxExperiments
  <2>1. Fanout!CreateSession(shared) = [session |-> ended, effect |-> "PUBLISH_REPORT"]
    BY <1>7 DEF Fanout!CreateSession, Fanout!Inconclusive, Fanout!Finish, Fanout!Transition
  <2> HIDE DEF over
  <2>2. /\ ended \in Fanout!Session /\ ended.state_revision = 1 /\ ended.pending = {}
        /\ ended.evidence = shared /\ ended.status = "INCONCLUSIVE"
        /\ ended.report_publication = "PENDING"
    BY <1>6 DEF Fanout!Session, Fanout!Statuses, Fanout!Terminal, Fanout!Publications
  <2> HIDE DEF ended
  <2>3. Fanout!ResumeSession(ended) = [session |-> ended, effect |-> "PUBLISH_REPORT"]
    BY <2>2 DEF Fanout!ResumeSession, Fanout!Transition, Fanout!Terminal
  <2> QED BY <2>1, <2>2, <2>3 DEF ChildTxns, Fanout!Effects
<1>8. CASE ~(Fanout!Cardinality(pend) > MaxExperiments)
  <2> DEFINE e == IF pend = {} THEN "RUN_TRIAGE" ELSE "SUBMIT_EXPERIMENTS"
  <2>1. Fanout!CreateSession(shared) = [session |-> new, effect |-> e]
    BY <1>8 DEF Fanout!CreateSession, Fanout!Transition
  <2> HIDE DEF new, pend
  <2>2. new \in Fanout!Session
    BY <1>2, <1>4, <1>5 DEF Fanout!Session, Fanout!Statuses, Fanout!Waiting,
                            Fanout!Publications
  <2>3. /\ new.state_revision = 1 /\ new.pending = pend /\ new.evidence = shared
        /\ new.status = IF pend = {} THEN "WAITING_TRIAGE" ELSE "WAITING_INITIAL"
    BY <1>5
  <2>4. Fanout!ResumeSession(new) = [session |-> new, effect |-> e]
    <3>1. CASE pend = {}
      <4>1. new.status = "WAITING_TRIAGE"
        BY <2>3, <3>1
      <4> QED BY <3>1, <4>1 DEF Fanout!ResumeSession, Fanout!Transition, Fanout!Terminal
    <3>2. CASE pend # {}
      <4>1. new.status = "WAITING_INITIAL"
        BY <2>3, <3>2
      <4> QED BY <3>2, <4>1 DEF Fanout!ResumeSession, Fanout!Transition, Fanout!Terminal
    <3> QED BY <3>1, <3>2
  <2> QED BY <1>3, <2>1, <2>2, <2>3, <2>4 DEF ChildTxns, Fanout!Effects
<1> QED BY <1>7, <1>8

LEMMA FirstIs ==
    ASSUME NEW ss, ParentIn(ss), ReadyIn(ss)
    PROVE  LET t == FirstTxn(ss)
           IN  /\ t \in ChildTxns
               /\ t.session.state_revision = 1
               /\ t.session.pending \cap TargetScoped = {}
               /\ Fanout!Admission(t.session.evidence) = Fanout!SharedEvidence(ss[Root])
               /\ Fanout!ResumeSession(t.session) = t
               /\ t.effect \in {"SUBMIT_EXPERIMENTS", "RUN_TRIAGE", "PUBLISH_REPORT"}
               /\ t.effect = "RUN_TRIAGE" => t.session.status = "WAITING_TRIAGE"
               /\ t.effect = "PUBLISH_REPORT" => /\ t.session.status = "INCONCLUSIVE"
                                                 /\ t.session.report_publication = "PENDING"
<1> DEFINE shared == Fanout!SharedEvidence(ss[Root])
<1>1. Discovery \notin Initial /\ TargetScoped \subseteq Initial
  BY CallsAssumption, SessionAssumption
<1>2. shared \in SUBSET Fanout!Results /\ \A r \in shared : r.id \in TargetScoped
  BY <1>1 DEF ParentIn, ParentSession, ParentCore, ParentResults, Fanout!SharedEvidence,
              Fanout!Results
<1>3. \A x \in TargetScoped : \E r \in shared : r.id = x
  BY DEF ReadyIn, Answered, Fanout!SharedEvidence
<1>4. Fanout!Admission(shared) = shared
  BY <1>2 DEF Fanout!Admission
<1> HIDE DEF shared
<1>5. FirstTxn(ss) = Fanout!CreateSession(shared)
  BY DEF FirstTxn, shared
<1> QED BY <1>2, <1>3, <1>4, <1>5, CreateFirst DEF shared

(* Sessions go on and jobs are added; what the children start from stays.  *)
Grown(ss, tt, js, ks) ==
    /\ tt[Root].manifest = ss[Root].manifest
    /\ tt[Root].core.evidence = ss[Root].core.evidence
    /\ ReadyIn(ss) => ReadyIn(tt)
    /\ \A k \in Kernels : ss[k] # Absent =>
          /\ tt[k] # Absent
          /\ tt[k].core.state_revision = 1 => tt[k] = ss[k]
    /\ js \subseteq ks

LEMMA FirstStays ==
    ASSUME NEW ss, NEW tt, tt[Root].core.evidence = ss[Root].core.evidence
    PROVE  /\ Fanout!SharedEvidence(tt[Root]) = Fanout!SharedEvidence(ss[Root])
           /\ FirstTxn(tt) = FirstTxn(ss)
<1>1. Fanout!SharedEvidence(tt[Root]) = Fanout!SharedEvidence(ss[Root])
  BY DEF Fanout!SharedEvidence
<1> QED BY <1>1 DEF FirstTxn

LEMMA HandedOnStays ==
    ASSUME NEW ss, NEW tt, NEW js, NEW ks, Grown(ss, tt, js, ks),
           NEW k \in Kernels, HandedOnIn(k, ss, js)
    PROVE  HandedOnIn(k, tt, ks)
BY DEF Grown, HandedOnIn

LEMMA BusyStays ==
    ASSUME NEW ss, NEW tt, NEW js, NEW ks, Grown(ss, tt, js, ks),
           NEW f, BusyIn(f, ss, js)
    PROVE  BusyIn(f, tt, ks)
<1>1. FirstTxn(tt) = FirstTxn(ss)
  BY FirstStays DEF Grown
<1>2. f.ids \subseteq Kernels /\ (f.at = "child" => f.kid \in Kernels)
  BY DEF BusyIn, FanoutCall
<1>3. \A k \in f.ids : HandedOnIn(k, tt, ks)
  BY <1>2, HandedOnStays DEF BusyIn
<1> QED BY <1>1, <1>2, <1>3 DEF BusyIn, Grown

LEMMA ChildStays ==
    ASSUME NEW ss, NEW tt, NEW js, NEW ks, Grown(ss, tt, js, ks),
           NEW k \in Kernels, ChildIn(k, ss), tt[k] = ss[k]
    PROVE  ChildIn(k, tt)
<1>1. /\ FirstTxn(tt) = FirstTxn(ss)
      /\ Fanout!SharedEvidence(tt[Root]) = Fanout!SharedEvidence(ss[Root])
  BY FirstStays DEF Grown
<1> QED BY <1>1 DEF ChildIn, Grown

(* A step after which every worker is where it was, idle, or at work.      *)
LEMMA FanStep ==
    ASSUME FanInv,
           Grown(sessions, sessions', childJobs, childJobs'),
           sessions' = [i \in {Root} \cup Kernels |-> sessions'[i]],
           worker' = [v \in Workers |-> worker'[v]],
           ParentIn(sessions'),
           \A k \in Kernels : sessions'[k] = sessions[k] \/ ChildIn(k, sessions'),
           \A v \in Workers : \/ worker'[v] \in {worker[v], Fanout!Off}
                              \/ BusyIn(worker'[v], sessions', childJobs'),
           \/ sessions'[Root] = sessions[Root]
           \/ WholeIn(sessions', childJobs')
    PROVE  FanInv'
<1>1. ASSUME NEW v \in Workers
      PROVE  worker'[v] = Fanout!Off \/ BusyIn(worker'[v], sessions', childJobs')
  <2>1. worker[v] = Fanout!Off \/ BusyIn(worker[v], sessions, childJobs)
    BY DEF FanInv
  <2> QED BY <2>1, BusyStays
<1>2. ASSUME NEW k \in Kernels PROVE ChildIn(k, sessions')
  BY ChildStays DEF FanInv
<1>3. WholeIn(sessions', childJobs')
  <2>1. CASE sessions'[Root] = sessions[Root]
    <3>1. sessions[Root].manifest \subseteq Kernels
      BY DEF FanInv, ParentIn, ParentSession
    <3> QED BY <2>1, <3>1, HandedOnStays DEF FanInv, WholeIn
  <2> QED BY <2>1
<1> QED BY <1>1, <1>2, <1>3 DEF FanInv

LEMMA WorkerMoves ==
    ASSUME FanInv, NEW w \in Workers, NEW to, Fanout!Move(w, to)
    PROVE  /\ worker' = [v \in Workers |-> worker'[v]]
           /\ worker'[w] = to
           /\ \A v \in Workers \ {w} : worker'[v] = worker[v]
BY DEF FanInv, Fanout!Move

(* A step of one worker that leaves the sessions alone.                    *)
LEMMA WorkerOnly ==
    ASSUME FanInv, NEW w \in Workers, NEW to, Fanout!Move(w, to), UNCHANGED sessions,
           childJobs \subseteq childJobs',
           to = Fanout!Off \/ BusyIn(to, sessions, childJobs')
    PROVE  FanInv'
<1>1. Grown(sessions, sessions', childJobs, childJobs')
  BY DEF Grown
<1>2. /\ worker' = [v \in Workers |-> worker'[v]]
      /\ worker'[w] = to
      /\ \A v \in Workers \ {w} : worker'[v] = worker[v]
  BY WorkerMoves
<1>3. /\ sessions' = [i \in {Root} \cup Kernels |-> sessions'[i]]
      /\ ParentIn(sessions')
  BY DEF FanInv
<1>4. \A v \in Workers : \/ worker'[v] \in {worker[v], Fanout!Off}
                         \/ BusyIn(worker'[v], sessions', childJobs')
  BY <1>2
<1> QED BY <1>1, <1>2, <1>3, <1>4, FanStep

(* A child is committed again: whoever still has its first transition in   *)
(* hand has handed it on too late.                                         *)
LEMMA ChildCommits ==
    ASSUME FanInv, NEW k \in Kernels, sessions[k] # Absent, NEW t,
           ChildKeeps(sessions[k].core, t), Fanout!CommitCore(k, t.session),
           childJobs' = childJobs
    PROVE  /\ Grown(sessions, sessions', childJobs, childJobs')
           /\ sessions' = [i \in {Root} \cup Kernels |-> sessions'[i]]
           /\ sessions'[Root] = sessions[Root]
           /\ \A j \in Kernels \ {k} : sessions'[j] = sessions[j]
           /\ ChildIn(k, sessions')
           /\ sessions'[k] # Absent
           /\ sessions'[k].core \in Fanout!Session
           /\ sessions'[k].core.state_revision > 1
           /\ ParentIn(sessions')
<1> DEFINE s   == sessions[k].core
           new == [sessions[k] EXCEPT !.core = t.session]
           rec == [new EXCEPT !.core.state_revision = @ + 1]
<1>1. ChildIn(k, sessions) /\ sessions[k] \in Fanout!StoredChild
  BY DEF FanInv, ChildIn
<1>2. t.session \in Fanout!Session /\ t.session.state_revision = s.state_revision
  BY DEF ChildKeeps, ChildTxns
<1>3. s \in Fanout!Session /\ s.state_revision \in Nat /\ s.state_revision >= 1
  BY <1>1 DEF ChildIn, Fanout!StoredChild, Fanout!Session
<1>4. /\ rec.core = [t.session EXCEPT !.state_revision = @ + 1]
      /\ rec = [core |-> rec.core, manifest |-> {}, children |-> {}]
  <2>1. new = [core |-> t.session, manifest |-> {}, children |-> {}]
    BY <1>1 DEF Fanout!StoredChild
  <2> HIDE DEF new
  <2> QED BY <1>2, <2>1
<1> HIDE DEF rec, new
<1>5. /\ rec.core \in Fanout!Session /\ rec.core.state_revision = s.state_revision + 1
      /\ rec.core.pending = t.session.pending /\ rec.core.evidence = t.session.evidence
  BY <1>2, <1>3, <1>4 DEF Fanout!Session
<1>6. rec \in Fanout!StoredChild /\ rec # Absent
  BY <1>4, <1>5, CallsAssumption DEF Fanout!StoredChild
<1>7. sessions' = [sessions EXCEPT ![k] = rec]
  BY DEF Fanout!CommitCore, Fanout!Commit, rec, new
<1>8. Root # k
  BY CallsAssumption
<1>9. /\ sessions' = [i \in {Root} \cup Kernels |-> sessions'[i]]
      /\ sessions'[Root] = sessions[Root]
      /\ \A j \in Kernels \ {k} : sessions'[j] = sessions[j]
      /\ sessions'[k] = rec
  BY <1>7, <1>8 DEF FanInv
<1>10. rec.core.state_revision \in Nat /\ rec.core.state_revision > 1
  BY <1>3, <1>5
<1>11. ReadyIn(sessions') /\ ParentIn(sessions')
  BY <1>1, <1>9 DEF FanInv, ChildIn, ReadyIn, ParentIn, Answered
<1>12. Grown(sessions, sessions', childJobs, childJobs')
  BY <1>6, <1>9, <1>10, <1>11 DEF Grown
<1>13. ChildIn(k, sessions')
  <2>1. Fanout!Admission(rec.core.evidence) = Fanout!SharedEvidence(sessions'[Root])
    BY <1>1, <1>5, <1>9 DEF ChildKeeps, ChildIn
  <2>2. rec.core.pending \cap TargetScoped = {} /\ k \in sessions'[Root].manifest
    BY <1>1, <1>5, <1>9 DEF ChildKeeps, ChildIn
  <2> QED BY <1>6, <1>9, <1>10, <1>11, <2>1, <2>2 DEF ChildIn
<1> QED BY <1>5, <1>6, <1>9, <1>10, <1>11, <1>12, <1>13

-----------------------------------------------------------------------------
(* The loop over the kernels.                                              *)

LEMMA BeginsBusy ==
    ASSUME NEW ss, NEW js, ParentIn(ss), ss[Root].core.status = "WAITING_CHILDREN"
    PROVE  BusyIn(Fanout!BeginFanout(ss[Root]), ss, js)
<1> DEFINE f == Fanout!BeginFanout(ss[Root])
<1>1. f \in FanoutCall
  BY DEF ParentIn, ParentSession, FanoutCall, Fanout!BeginFanout
<1>2. /\ f.at = "loop" /\ f.parent = ss[Root] /\ f.todo = ss[Root].manifest /\ f.ids = {}
  BY DEF Fanout!BeginFanout
<1> QED BY <1>1, <1>2 DEF BusyIn, ParentIn

LEMMA FailedBusy ==
    ASSUME NEW ss, NEW js, NEW f, BusyIn(f, ss, js), NEW k \in f.todo
    PROVE  BusyIn(Fanout!ChildFailed(f, k), ss, js)
<1> DEFINE g == Fanout!ChildFailed(f, k)
<1>1. /\ g \in FanoutCall /\ g.at = "loop" /\ g.parent = f.parent /\ g.todo = f.todo \ {k}
      /\ g.ids = f.ids /\ g.failed = TRUE
  BY DEF BusyIn, FanoutCall, Fanout!ChildFailed
<1> HIDE DEF g
<1>2. BusyIn(g, ss, js)
  BY <1>1 DEF BusyIn
<1> QED BY <1>2 DEF g

LEMMA DoneBusy ==
    ASSUME NEW ss, NEW js, NEW f, BusyIn(f, ss, js), NEW k \in f.todo, HandedOnIn(k, ss, js)
    PROVE  BusyIn(Fanout!ChildDone(f, k), ss, js)
<1> DEFINE g == Fanout!ChildDone(f, k)
<1>1. /\ g \in FanoutCall /\ g.at = "loop" /\ g.parent = f.parent /\ g.todo = f.todo \ {k}
      /\ g.ids = f.ids \cup {k} /\ g.failed = f.failed
  BY DEF BusyIn, FanoutCall, Fanout!ChildDone
<1> HIDE DEF g
<1>2. BusyIn(g, ss, js)
  BY <1>1 DEF BusyIn
<1> QED BY <1>2 DEF g

LEMMA OwesBusy ==
    ASSUME NEW ss, NEW js, ParentIn(ss), NEW f, BusyIn(f, ss, js), NEW k \in f.todo,
           NEW t \in ChildTxns, ss[k] # Absent,
           ss[k].core.state_revision = 1 => t = FirstTxn(ss)
    PROVE  BusyIn(Fanout!ChildOwes(f, k, t), ss, js)
<1>1. CASE t.effect = "NONE"
  <2>1. FirstTxn(ss).effect # "NONE"
    BY FirstIs DEF BusyIn
  <2>2. HandedOnIn(k, ss, js)
    BY <1>1, <2>1 DEF HandedOnIn
  <2> QED BY <1>1, <2>2, DoneBusy DEF Fanout!ChildOwes
<1>2. CASE t.effect # "NONE"
  <2> DEFINE g == [f EXCEPT !.at = "child", !.kid = k, !.txn = t]
  <2>1. /\ g \in FanoutCall /\ g.at = "child" /\ g.parent = f.parent /\ g.todo = f.todo
        /\ g.ids = f.ids /\ g.failed = f.failed /\ g.kid = k /\ g.txn = t
    BY DEF BusyIn, FanoutCall
  <2>2. Fanout!ChildOwes(f, k, t) = g
    BY <1>2 DEF Fanout!ChildOwes
  <2> HIDE DEF g
  <2> QED BY <2>1, <2>2 DEF BusyIn
<1> QED BY <1>1, <1>2

-----------------------------------------------------------------------------
(* The steps.                                                              *)

LEMMA FanStart == Fanout!FanoutInit => FanInv
<1> SUFFICES ASSUME Fanout!FanoutInit PROVE FanInv
  OBVIOUS
<1> DEFINE pend == {Discovery} \cup TargetScoped
           over == Fanout!NewSession({}, {})
           new  == Fanout!NewSession({}, pend)
           core == Fanout!CreateDiscoverySession.session
<1>1. /\ sessions = [i \in {Root} \cup Kernels |-> sessions[i]]
      /\ worker = [w \in Workers |-> worker[w]]
      /\ \A w \in Workers : worker[w] = Fanout!Off
      /\ \A k \in Kernels : sessions[k] = Absent
      /\ sessions[Root] = [core |-> core, manifest |-> {}, children |-> {}]
  BY CallsAssumption DEF Fanout!FanoutInit, Fanout!Stored
<1>2. TargetScoped \subseteq Initial /\ pend \subseteq ParentExperiments /\ pend # {}
  BY CallsAssumption DEF ParentExperiments
<1>3. Fanout!Cardinality(pend) \in Nat /\ Fanout!Cardinality({}) \in Nat
  <2>1. IsFiniteSet(TargetScoped)
    BY <1>2, SessionAssumption, FS_Subset
  <2>2. IsFiniteSet(pend)
    BY <2>1, FS_AddElement
  <2> QED BY <2>2, SameCount, FS_CardinalityType, FS_EmptySet
<1>4. /\ core \in ParentCore
      /\ core.status \in {"WAITING_INITIAL", "INCONCLUSIVE"}
      /\ core.status = "WAITING_INITIAL" => core.pending = pend
      /\ core.status # "WAITING_INITIAL" => core.pending = {}
  <2>1. CASE Fanout!Cardinality(pend) > MaxExperiments
    <3>1. core = [over EXCEPT !.status = "INCONCLUSIVE", !.report_publication = "PENDING"]
      BY <2>1 DEF Fanout!CreateDiscoverySession, Fanout!Inconclusive, Fanout!Finish,
                  Fanout!Transition
    <3>2. over = [state_revision |-> 1, status |-> "WAITING_TRIAGE", pending |-> {},
                  completed |-> {}, evidence |-> {}, fingerprints |-> {},
                  submitted |-> Fanout!Cardinality({}), round_index |-> 0,
                  report_publication |-> "NOT_READY"]
      BY DEF Fanout!NewSession
    <3> HIDE DEF over, core
    <3> QED BY <1>3, <3>1, <3>2 DEF ParentCore, Fanout!Terminal, Fanout!Publications
  <2>2. CASE ~(Fanout!Cardinality(pend) > MaxExperiments)
    <3>1. core = new
      BY <2>2 DEF Fanout!CreateDiscoverySession, Fanout!Transition
    <3>2. new = [state_revision |-> 1, status |-> "WAITING_INITIAL", pending |-> pend,
                 completed |-> {}, evidence |-> {}, fingerprints |-> pend,
                 submitted |-> Fanout!Cardinality(pend), round_index |-> 0,
                 report_publication |-> "NOT_READY"]
      BY <1>2 DEF Fanout!NewSession
    <3> HIDE DEF new, core, pend
    <3> QED BY <1>2, <1>3, <3>1, <3>2 DEF ParentCore, Fanout!Publications
  <2> QED BY <2>1, <2>2
<1> HIDE DEF core
<1>5. ParentIn(sessions)
  BY <1>1, <1>4 DEF ParentIn, ParentSession
<1> QED BY <1>1, <1>4, <1>5 DEF FanInv, ChildIn, WholeIn

(* What the parent owes is its children only when it waits for them.       *)
LEMMA OwesChildren ==
    ASSUME NEW p,
           p.core.status \in Fanout!Terminal \cup {"WAITING_INITIAL", "WAITING_CHILDREN"},
           Fanout!Owed(p) = "CREATE_CHILD_SESSIONS"
    PROVE  p.core.status = "WAITING_CHILDREN"
BY DEF Fanout!Owed, Fanout!ResumeSession, Fanout!Transition, Fanout!Terminal

LEMMA OnParentResultStep ==
    ASSUME FanInv, NEW w \in Workers, Fanout!OnParentResult(w)
    PROVE  FanInv'
<1> DEFINE P == sessions[Root]
<1>0. PICK x \in P.core.pending :
         \E p \in IF x = Discovery THEN {"discovered", "undiscovered"} ELSE {"signal"},
            m \in Fanout!Manifests \cup {{}} :
            Fanout!Commit(Root, Fanout!RecordParentResult(P, [id |-> x, payload |-> p], m))
  BY DEF Fanout!OnParentResult, Fanout!Parent
<1>1. PICK p \in IF x = Discovery THEN {"discovered", "undiscovered"} ELSE {"signal"},
           m \in Fanout!Manifests \cup {{}} :
         Fanout!Commit(Root, Fanout!RecordParentResult(P, [id |-> x, payload |-> p], m))
  BY <1>0
<1> DEFINE r    == [id |-> x, payload |-> p]
           left == P.core.pending \ {x}
           kept == IF x = Discovery THEN m ELSE P.manifest
           s1   == [P.core EXCEPT !.evidence = @ \cup {r}, !.pending = left,
                                  !.completed = @ \cup {x},
                                  !.status = IF left # {} THEN @
                                             ELSE IF kept # {} THEN "WAITING_CHILDREN"
                                             ELSE "FAILED"]
           s2   == [s1 EXCEPT !.state_revision = @ + 1]
<1>2. /\ P \in ParentSession /\ P.core \in ParentCore /\ P.manifest \subseteq Kernels
      /\ P.core.status = "WAITING_INITIAL" /\ P.core.pending \subseteq ParentExperiments
      /\ \A y \in TargetScoped : y \in P.core.pending \/ Answered(sessions, y)
  BY <1>1 DEF FanInv, ParentIn, ParentSession, ParentCore
<1>3. ~ReadyIn(sessions)
  BY <1>1 DEF ReadyIn
<1>4. \A k \in Kernels : sessions[k] = Absent
  BY <1>3 DEF FanInv, ChildIn
<1>5. \A v \in Workers : worker[v] = Fanout!Off
  BY <1>3 DEF FanInv, BusyIn
<1>6. r \in ParentResults /\ x \in ParentExperiments /\ kept \subseteq Kernels
  BY <1>1, <1>2 DEF ParentResults, ParentExperiments, Fanout!Manifests
<1>7. /\ s1 \in ParentCore /\ s1.pending = left /\ s1.evidence = P.core.evidence \cup {r}
      /\ s1.status = IF left # {} THEN "WAITING_INITIAL"
                     ELSE IF kept # {} THEN "WAITING_CHILDREN" ELSE "FAILED"
  <2> HIDE DEF kept, r, P
  <2> QED BY <1>2, <1>6 DEF ParentCore, Fanout!Terminal
<1>8. Fanout!RecordParentResult(P, r, m) = [core |-> s1, manifest |-> kept,
                                            children |-> P.children]
  BY DEF Fanout!RecordParentResult, Fanout!Stored
<1> HIDE DEF s1
<1>9. /\ s2 \in ParentCore /\ s2.pending = left /\ s2.evidence = P.core.evidence \cup {r}
      /\ s2.status = s1.status
  BY <1>7 DEF ParentCore
<1>10. sessions' = [sessions EXCEPT ![Root] = [core |-> s2, manifest |-> kept,
                                               children |-> P.children]]
  <2> DEFINE rec == Fanout!RecordParentResult(P, r, m)
  <2>1. sessions' = [sessions EXCEPT ![Root] = [rec EXCEPT !.core.state_revision = @ + 1]]
    BY <1>1 DEF Fanout!Commit
  <2>2. rec = [core |-> s1, manifest |-> kept, children |-> P.children]
    BY <1>8
  <2> HIDE DEF rec, kept, P
  <2>3. [rec EXCEPT !.core.state_revision = @ + 1]
           = [core |-> s2, manifest |-> kept, children |-> P.children]
    BY <2>2
  <2> QED BY <2>1, <2>3
<1> HIDE DEF s2, kept
<1>11. /\ sessions' = [i \in {Root} \cup Kernels |-> sessions'[i]]
       /\ sessions'[Root] = [core |-> s2, manifest |-> kept, children |-> P.children]
       /\ \A k \in Kernels : sessions'[k] = Absent
  BY <1>4, <1>10, CallsAssumption DEF FanInv
<1>12. \A y \in TargetScoped : y \in left \/ Answered(sessions', y)
  <2>1. sessions'[Root].core.evidence = P.core.evidence \cup {r} /\ r.id = x
    BY <1>9, <1>11
  <2> HIDE DEF r
  <2> QED BY <1>2, <2>1 DEF Answered
<1>13. ParentIn(sessions')
  <2>1. sessions'[Root] \in ParentSession
    BY <1>2, <1>6, <1>9, <1>11 DEF ParentSession
  <2>2. sessions'[Root].core.pending = left /\ sessions'[Root].core.status = s1.status
    BY <1>9, <1>11
  <2> QED BY <1>7, <1>12, <2>1, <2>2 DEF ParentIn, ReadyIn
<1>14. s1.status # "COMPLETED" /\ sessions'[Root].core.status = s1.status
  BY <1>7, <1>9, <1>11
<1>15. PICK to \in {Fanout!Off, Fanout!BeginFanout(sessions'[Root])} :
          /\ Fanout!Move(w, to)
          /\ to = Fanout!Off \/ Fanout!Owed(sessions'[Root]) = "CREATE_CHILD_SESSIONS"
  BY DEF Fanout!OnParentResult
<1>16. to = Fanout!Off \/ BusyIn(to, sessions', childJobs')
  <2>1. CASE Fanout!Owed(sessions'[Root]) = "CREATE_CHILD_SESSIONS"
    <3>1. sessions'[Root].core.status = "WAITING_CHILDREN"
      BY <1>13, <2>1, OwesChildren DEF ParentIn, ParentSession, ParentCore
    <3> QED BY <1>13, <1>15, <3>1, BeginsBusy
  <2> QED BY <1>15, <2>1
<1>17. /\ worker' = [v \in Workers |-> worker'[v]]
       /\ \A v \in Workers : \/ worker'[v] = Fanout!Off
                             \/ BusyIn(worker'[v], sessions', childJobs')
  BY <1>5, <1>15, <1>16, WorkerMoves
<1> QED BY <1>11, <1>13, <1>14, <1>17 DEF FanInv, ChildIn, WholeIn

LEMMA ResumeParentStep ==
    ASSUME FanInv, NEW w \in Workers, Fanout!ResumeParent(w)
    PROVE  FanInv'
<1>1. PICK to \in {Fanout!Off, Fanout!BeginFanout(sessions[Root])} :
         /\ Fanout!Move(w, to)
         /\ to = Fanout!Off \/ Fanout!Owed(sessions[Root]) = "CREATE_CHILD_SESSIONS"
  BY DEF Fanout!ResumeParent, Fanout!Parent
<1>2. ParentIn(sessions) /\ UNCHANGED <<sessions, childJobs>>
  BY DEF FanInv, Fanout!ResumeParent
<1>3. to = Fanout!Off \/ BusyIn(to, sessions, childJobs')
  <2>1. CASE Fanout!Owed(sessions[Root]) = "CREATE_CHILD_SESSIONS"
    <3>1. sessions[Root].core.status = "WAITING_CHILDREN"
      BY <1>2, <2>1, OwesChildren DEF ParentIn, ParentSession, ParentCore
    <3> QED BY <1>1, <1>2, <3>1, BeginsBusy
  <2> QED BY <1>1, <2>1
<1> QED BY <1>1, <1>2, <1>3, WorkerOnly

(* The parent is committed again with its results and its manifest.        *)
LEMMA ParentCommits ==
    ASSUME FanInv, NEW s \in ParentCore, NEW ids \in SUBSET Kernels,
           sessions' = [sessions EXCEPT ![Root] =
                          [core |-> s, manifest |-> sessions[Root].manifest,
                           children |-> ids]],
           worker' = [v \in Workers |-> worker'[v]],
           \A v \in Workers : worker'[v] \in {worker[v], Fanout!Off},
           childJobs' = childJobs,
           s.evidence = sessions[Root].core.evidence, s.pending = {},
           s.status \in {"FAILED", "COMPLETED"},
           s.status = "COMPLETED" =>
              /\ sessions[Root].core.status = "WAITING_CHILDREN"
              /\ ids = sessions[Root].manifest
              /\ \A k \in sessions[Root].manifest : HandedOnIn(k, sessions, childJobs)
    PROVE  FanInv'
<1>1. /\ sessions' = [i \in {Root} \cup Kernels |-> sessions'[i]]
      /\ sessions'[Root] = [core |-> s, manifest |-> sessions[Root].manifest,
                            children |-> ids]
      /\ \A k \in Kernels : sessions'[k] = sessions[k]
  BY CallsAssumption DEF FanInv
<1>2. /\ sessions'[Root].core = s /\ sessions'[Root].children = ids
      /\ sessions'[Root].manifest = sessions[Root].manifest
      /\ sessions[Root].manifest \subseteq Kernels
  BY <1>1 DEF FanInv, ParentIn, ParentSession
<1>3. ReadyIn(sessions) => ReadyIn(sessions')
  BY <1>2 DEF ReadyIn, Answered
<1>4. Grown(sessions, sessions', childJobs, childJobs')
  BY <1>1, <1>2, <1>3 DEF Grown
<1>5. ParentIn(sessions')
  <2>1. sessions'[Root] \in ParentSession
    BY <1>1, <1>2 DEF ParentSession
  <2> QED BY <1>2, <1>3, <2>1 DEF ParentIn, FanInv
<1>6. WholeIn(sessions', childJobs')
  <2>1. CASE s.status = "COMPLETED"
    <3>1. \A k \in sessions[Root].manifest : HandedOnIn(k, sessions', childJobs')
      BY <1>2, <1>4, <2>1, HandedOnStays
    <3> QED BY <1>2, <2>1, <3>1 DEF WholeIn
  <2>2. CASE s.status # "COMPLETED"
    BY <1>2, <2>2 DEF WholeIn
  <2> QED BY <2>1, <2>2
<1> QED BY <1>1, <1>4, <1>5, <1>6, FanStep

LEMMA GiveUpParentStep == ASSUME FanInv, Fanout!GiveUpParent PROVE FanInv'
<1> DEFINE P  == sessions[Root]
           s1 == [P.core EXCEPT !.status = "FAILED", !.pending = {}]
           s2 == [s1 EXCEPT !.state_revision = @ + 1]
<1>1. /\ P.core \in ParentCore /\ P.manifest \subseteq Kernels /\ P.children \subseteq Kernels
      /\ P = [core |-> P.core, manifest |-> P.manifest, children |-> P.children]
  BY DEF FanInv, ParentIn, ParentSession
<1>2. Fanout!CommitCore(Root, s1) /\ UNCHANGED <<worker, childJobs>>
  BY DEF Fanout!GiveUpParent, Fanout!Parent, Fanout!RecordInfrastructureFailure,
         Fanout!Transition
<1>3. s1 \in ParentCore /\ s1.status = "FAILED" /\ s1.pending = {} /\ s1.evidence = P.core.evidence
  BY <1>1 DEF ParentCore, Fanout!Terminal
<1> HIDE DEF s1
<1>4. s2 \in ParentCore /\ s2.status = "FAILED" /\ s2.pending = {} /\ s2.evidence = P.core.evidence
  BY <1>3 DEF ParentCore
<1>5. sessions' = [sessions EXCEPT ![Root] = [core |-> s2, manifest |-> P.manifest,
                                              children |-> P.children]]
  <2> DEFINE new == [P EXCEPT !.core = s1]
  <2>1. sessions' = [sessions EXCEPT ![Root] = [new EXCEPT !.core.state_revision = @ + 1]]
    BY <1>2 DEF Fanout!CommitCore, Fanout!Commit
  <2>2. new = [core |-> s1, manifest |-> P.manifest, children |-> P.children]
    <3> HIDE DEF P
    <3> QED BY <1>1
  <2> HIDE DEF new, P
  <2>3. [new EXCEPT !.core.state_revision = @ + 1]
           = [core |-> s2, manifest |-> P.manifest, children |-> P.children]
    BY <2>2
  <2> QED BY <2>1, <2>3
<1> HIDE DEF s2
<1>6. worker' = [v \in Workers |-> worker'[v]] /\ \A v \in Workers : worker'[v] = worker[v]
  BY <1>2 DEF FanInv
<1> QED BY <1>1, <1>2, <1>4, <1>5, <1>6, ParentCommits

LEMMA ChildMovesStep ==
    ASSUME FanInv, NEW k \in Kernels, Fanout!ChildMoves(k)
    PROVE  FanInv'
<1> DEFINE s == sessions[k].core
<1>1. /\ sessions[k] # Absent /\ s \in Fanout!Session /\ s.pending \cap TargetScoped = {}
      /\ UNCHANGED <<worker, childJobs>>
  BY DEF FanInv, ChildIn, Fanout!ChildMoves, Fanout!StoredChild
<1>2. PICK t \in Fanout!ChildTransitions(k) : Fanout!CommitCore(k, t.session)
  BY DEF Fanout!ChildMoves
<1>3. \/ \E x : t \in Fanout!RecordExperimentResult(s, [id |-> x, payload |-> "signal"])
      \/ \E d \in Fanout!Decisions : t \in Fanout!RecordAnalysisDecision(s, d)
      \/ t \in Fanout!RecordTriageDecision(s)
      \/ t \in Fanout!RecordReportPublished(s)
      \/ t \in Fanout!RecordReportPublicationFailed(s)
      \/ t \in Fanout!RecordInfrastructureFailure(s)
  <2> DEFINE ids == UNION {j.experiments : j \in {i \in childJobs : i.session = k}}
             one == {Fanout!RecordExperimentResult(s, r) :
                        r \in [id : ids, payload : {"signal"}]}
             two == {Fanout!RecordAnalysisDecision(s, d) : d \in Fanout!Decisions}
             three == {Fanout!RecordTriageDecision(s), Fanout!RecordReportPublished(s),
                       Fanout!RecordReportPublicationFailed(s),
                       Fanout!RecordInfrastructureFailure(s)}
  <2>1. t \in UNION (one \cup two \cup three)
    BY DEF Fanout!ChildTransitions
  <2>2. ASSUME NEW T \in one
        PROVE  \E x : T = Fanout!RecordExperimentResult(s, [id |-> x, payload |-> "signal"])
    <3> HIDE DEF ids, s
    <3>1. PICK r \in [id : ids, payload : {"signal"}] : T = Fanout!RecordExperimentResult(s, r)
      BY <2>2
    <3>2. r = [id |-> r.id, payload |-> "signal"]
      OBVIOUS
    <3> QED BY <3>1, <3>2
  <2>3. ASSUME NEW T \in two PROVE \E d \in Fanout!Decisions : T = Fanout!RecordAnalysisDecision(s, d)
    BY <2>3
  <2> HIDE DEF one, two, s
  <2> QED BY <2>1, <2>2, <2>3
<1>4. ChildKeeps(s, t)
  BY <1>1, <1>3, ChildResult, ChildVerdicts
<1>5. /\ Grown(sessions, sessions', childJobs, childJobs')
      /\ sessions' = [i \in {Root} \cup Kernels |-> sessions'[i]]
      /\ sessions'[Root] = sessions[Root]
      /\ \A j \in Kernels \ {k} : sessions'[j] = sessions[j]
      /\ ChildIn(k, sessions') /\ ParentIn(sessions')
  BY <1>1, <1>2, <1>4, ChildCommits
<1>6. worker' = [v \in Workers |-> worker'[v]] /\ \A v \in Workers : worker'[v] = worker[v]
  BY <1>1 DEF FanInv
<1> QED BY <1>5, <1>6, FanStep

(* A worker that is not idle, and what it has in hand.                     *)
LEMMA AtWork ==
    ASSUME FanInv, NEW w \in Workers, worker[w].at \in {"loop", "child"}
    PROVE  /\ BusyIn(worker[w], sessions, childJobs)
           /\ ParentIn(sessions) /\ ReadyIn(sessions)
           /\ worker[w].todo \subseteq Kernels
           /\ Fanout!SharedEvidence(worker[w].parent) = Fanout!SharedEvidence(sessions[Root])
<1>1. worker[w] # Fanout!Off
  BY DEF Fanout!Off
<1>2. BusyIn(worker[w], sessions, childJobs)
  BY <1>1 DEF FanInv
<1>3. Fanout!SharedEvidence(worker[w].parent) = Fanout!SharedEvidence(sessions[Root])
  BY <1>2 DEF BusyIn, Fanout!SharedEvidence
<1> QED BY <1>2, <1>3 DEF FanInv, BusyIn, FanoutCall

LEMMA ResumeOwes ==
    ASSUME NEW s \in Fanout!Session
    PROVE  Fanout!ResumeSession(s) \in ChildTxns
<1>1. s.status \in Fanout!Statuses
  BY DEF Fanout!Session
<1> QED BY <1>1 DEF ChildTxns, Fanout!ResumeSession, Fanout!Transition, Fanout!Statuses,
                    Fanout!Waiting, Fanout!Terminal, Fanout!Effects

LEMMA StartChildStep ==
    ASSUME FanInv, NEW w \in Workers, Fanout!StartChild(w)
    PROVE  FanInv'
<1> DEFINE f == worker[w]
           k == Fanout!NextOf(f.todo)
           t == FirstTxn(sessions)
<1>1. /\ BusyIn(f, sessions, childJobs) /\ ParentIn(sessions) /\ ReadyIn(sessions)
      /\ f.todo \subseteq Kernels
      /\ Fanout!SharedEvidence(f.parent) = Fanout!SharedEvidence(sessions[Root])
      /\ childJobs' = childJobs
  BY AtWork DEF Fanout!StartChild
<1>2. k \in f.todo /\ k \in Kernels /\ k \in sessions[Root].manifest
  BY <1>1 DEF Fanout!StartChild, Fanout!NextOf, BusyIn
<1>3. Fanout!CreateSession(Fanout!SharedEvidence(f.parent)) = t
  BY <1>1 DEF FirstTxn
<1>4. /\ t \in ChildTxns /\ t.session \in Fanout!Session /\ t.session.state_revision = 1
      /\ t.session.pending \cap TargetScoped = {}
      /\ Fanout!Admission(t.session.evidence) = Fanout!SharedEvidence(sessions[Root])
      /\ Fanout!ResumeSession(t.session) = t
  BY <1>1, FirstIs DEF ChildTxns
<1>5. CASE sessions[k] = Absent
  <2> DEFINE rec == [core |-> t.session, manifest |-> {}, children |-> {}]
  <2>1. sessions' = [sessions EXCEPT ![k] = rec] /\ Fanout!Move(w, Fanout!ChildOwes(f, k, t))
    BY <1>3, <1>5 DEF Fanout!StartChild, Fanout!Stored
  <2>2. rec \in Fanout!StoredChild /\ rec # Absent
    BY <1>4, CallsAssumption DEF Fanout!StoredChild
  <2> HIDE DEF f, k, t
  <2>3. /\ sessions' = [i \in {Root} \cup Kernels |-> sessions'[i]]
        /\ sessions'[Root] = sessions[Root] /\ sessions'[k] = rec
        /\ \A j \in Kernels \ {k} : sessions'[j] = sessions[j]
    BY <1>2, <2>1, CallsAssumption DEF FanInv
  <2>4. ParentIn(sessions') /\ ReadyIn(sessions') /\ FirstTxn(sessions') = t
    BY <1>1, <2>3, FirstStays DEF ParentIn, ReadyIn, Answered, t
  <2>5. Grown(sessions, sessions', childJobs, childJobs')
    BY <1>1, <1>5, <2>3, <2>4 DEF Grown
  <2>6. ChildIn(k, sessions')
    BY <1>2, <1>4, <2>2, <2>3, <2>4 DEF ChildIn
  <2>7. BusyIn(f, sessions', childJobs')
    BY <1>1, <2>5, BusyStays
  <2>8. BusyIn(Fanout!ChildOwes(f, k, t), sessions', childJobs')
    BY <1>2, <1>4, <2>2, <2>3, <2>4, <2>7, OwesBusy
  <2>9. /\ worker' = [v \in Workers |-> worker'[v]]
        /\ worker'[w] = Fanout!ChildOwes(f, k, t)
        /\ \A v \in Workers \ {w} : worker'[v] = worker[v]
    BY <2>1, WorkerMoves
  <2>10. \A v \in Workers : \/ worker'[v] \in {worker[v], Fanout!Off}
                            \/ BusyIn(worker'[v], sessions', childJobs')
    BY <2>8, <2>9
  <2> QED BY <2>3, <2>4, <2>5, <2>6, <2>9, <2>10, FanStep
<1>6. CASE sessions[k] # Absent
  <2> DEFINE s == sessions[k].core
  <2>1. s \in Fanout!Session /\ (s.state_revision = 1 => s = t.session)
    BY <1>2, <1>6 DEF FanInv, ChildIn, Fanout!StoredChild
  <2>2. PICK to \in {Fanout!ChildFailed(f, k), Fanout!ChildOwes(f, k, Fanout!ResumeSession(s))} :
           Fanout!Move(w, to)
    BY <1>6 DEF Fanout!StartChild
  <2>3. BusyIn(Fanout!ChildOwes(f, k, Fanout!ResumeSession(s)), sessions, childJobs)
    <3>1. Fanout!ResumeSession(s) \in ChildTxns
      BY <2>1, ResumeOwes
    <3>2. s.state_revision = 1 => Fanout!ResumeSession(s) = t
      BY <1>4, <2>1
    <3> HIDE DEF f, k
    <3> QED BY <1>1, <1>2, <1>6, <3>1, <3>2, OwesBusy
  <2>4. BusyIn(Fanout!ChildFailed(f, k), sessions, childJobs)
    BY <1>1, <1>2, FailedBusy
  <2>5. UNCHANGED sessions
    BY <1>6 DEF Fanout!StartChild
  <2> HIDE DEF f, k, s
  <2> QED BY <1>1, <2>2, <2>3, <2>4, <2>5, WorkerOnly
<1> QED BY <1>5, <1>6

(* What is in hand for a child that is as it was created.                  *)
LEMMA InHand ==
    ASSUME FanInv, NEW w \in Workers, worker[w].at = "child"
    PROVE  LET f == worker[w]
               s == sessions[f.kid].core
           IN  /\ f.kid \in f.todo /\ f.kid \in Kernels /\ sessions[f.kid] # Absent
               /\ f.txn \in ChildTxns
               /\ s \in Fanout!Session /\ s.pending \cap TargetScoped = {}
               /\ s.state_revision = 1 =>
                     /\ s = f.txn.session /\ s = FirstTxn(sessions).session
                     /\ f.txn = FirstTxn(sessions)
<1> DEFINE f == worker[w]
<1>1. /\ BusyIn(f, sessions, childJobs) /\ f.todo \subseteq Kernels
  BY AtWork
<1>2. /\ f.kid \in f.todo /\ f.kid \in Kernels /\ sessions[f.kid] # Absent
      /\ f.txn \in ChildTxns
      /\ sessions[f.kid].core.state_revision = 1 => f.txn = FirstTxn(sessions)
  BY <1>1 DEF BusyIn
<1> HIDE DEF f
<1>3. ChildIn(f.kid, sessions)
  BY <1>2 DEF FanInv
<1>4. /\ sessions[f.kid].core \in Fanout!Session
      /\ sessions[f.kid].core.pending \cap TargetScoped = {}
      /\ sessions[f.kid].core.state_revision = 1 =>
            sessions[f.kid].core = FirstTxn(sessions).session
  BY <1>2, <1>3 DEF ChildIn, Fanout!StoredChild
<1> QED BY <1>2, <1>4 DEF f

LEMMA DispatchChildStep ==
    ASSUME FanInv, NEW w \in Workers, Fanout!DispatchChild(w)
    PROVE  FanInv'
<1> DEFINE f == worker[w]
           s == sessions[f.kid].core
<1>1. /\ f.at = "child" /\ UNCHANGED sessions /\ Fanout!Move(w, Fanout!ChildDone(f, f.kid))
      /\ childJobs \subseteq childJobs'
      /\ f.txn.effect # "RUN_REASONER" => Fanout!ChildJob(f.kid, f.txn.session) \in childJobs'
  BY DEF Fanout!DispatchChild, Fanout!HandOn
<1>2. /\ f.kid \in f.todo /\ f.kid \in Kernels /\ sessions[f.kid] # Absent
      /\ s.state_revision = 1 => s = f.txn.session /\ f.txn = FirstTxn(sessions)
  BY <1>1, InHand
<1>3. BusyIn(f, sessions, childJobs) /\ ParentIn(sessions) /\ ReadyIn(sessions)
  BY <1>1, AtWork
<1>4. HandedOnIn(f.kid, sessions, childJobs')
  <2>1. CASE s.state_revision = 1
    <3>1. f.txn.effect # "RUN_REASONER" /\ f.txn.session.state_revision = 1
      BY <1>2, <1>3, <2>1, FirstIs
    <3>2. Fanout!ChildJob(f.kid, f.txn.session) \in childJobs'
      BY <1>1, <3>1
    <3> QED BY <1>2, <3>1, <3>2 DEF HandedOnIn, Fanout!ChildJob
  <2> QED BY <1>2, <2>1 DEF HandedOnIn
<1>5. Grown(sessions, sessions, childJobs, childJobs')
  BY <1>1 DEF Grown
<1>6. BusyIn(f, sessions, childJobs')
  BY <1>3, <1>5, BusyStays
<1>7. BusyIn(Fanout!ChildDone(f, f.kid), sessions, childJobs')
  BY <1>2, <1>4, <1>6, DoneBusy
<1> QED BY <1>1, <1>7, WorkerOnly

LEMMA ApplyChildStep ==
    ASSUME FanInv, NEW w \in Workers, Fanout!ApplyChild(w)
    PROVE  FanInv'
<1> DEFINE f  == worker[w]
           k  == f.kid
           s  == sessions[k].core
           ts == IF f.txn.effect = "RUN_TRIAGE" THEN Fanout!RecordTriageDecision(s)
                 ELSE Fanout!RecordReportPublished(s)
<1>1. /\ f.at = "child" /\ f.txn.effect \in {"RUN_TRIAGE", "PUBLISH_REPORT"}
      /\ childJobs' = childJobs
  BY DEF Fanout!ApplyChild, Fanout!HandOn
<1>2. /\ k \in f.todo /\ k \in Kernels /\ sessions[k] # Absent
      /\ s \in Fanout!Session /\ s.pending \cap TargetScoped = {}
      /\ s.state_revision = 1 => s = f.txn.session /\ f.txn = FirstTxn(sessions)
  BY <1>1, InHand
<1>3. BusyIn(f, sessions, childJobs) /\ ParentIn(sessions) /\ ReadyIn(sessions)
  BY <1>1, AtWork
<1>4. \/ ts = {} /\ Fanout!Move(w, Fanout!ChildFailed(f, k)) /\ UNCHANGED sessions
      \/ \E t \in ts :
            IF t.session = s THEN Fanout!Move(w, Fanout!ChildDone(f, k)) /\ UNCHANGED sessions
            ELSE /\ Fanout!CommitCore(k, t.session)
                 /\ Fanout!Move(w, Fanout!ChildOwes(f, k,
                                      Fanout!Transition(sessions'[k].core, t.effect)))
  BY DEF Fanout!ApplyChild
<1>5. CASE Fanout!Move(w, Fanout!ChildFailed(f, k)) /\ UNCHANGED sessions
  <2>1. BusyIn(Fanout!ChildFailed(f, k), sessions, childJobs)
    BY <1>2, <1>3, FailedBusy
  <2> QED BY <1>1, <1>5, <2>1, WorkerOnly
<1>6. ASSUME NEW t \in ts, t.session = s, Fanout!Move(w, Fanout!ChildDone(f, k)),
             UNCHANGED sessions
      PROVE  FanInv'
  <2>1. s.state_revision # 1
    <3> SUFFICES ASSUME s.state_revision = 1 PROVE FALSE
      OBVIOUS
    <3>1. /\ f.txn = FirstTxn(sessions) /\ s = f.txn.session
          /\ f.txn.effect = "RUN_TRIAGE" => s.status = "WAITING_TRIAGE"
          /\ f.txn.effect = "PUBLISH_REPORT" => /\ s.status = "INCONCLUSIVE"
                                                /\ s.report_publication = "PENDING"
      BY <1>2, <1>3, FirstIs
    <3>2. CASE f.txn.effect = "RUN_TRIAGE"
      <4>1. PICK o \in Fanout!TriageOutcomes(s) : t = Fanout!ApplyTriage(s, o)
        BY <1>6, <3>1, <3>2 DEF Fanout!RecordTriageDecision
      <4>2. o \in {"ANALYZE", "FINISH", "INCONCLUSIVE"}
        BY DEF Fanout!TriageOutcomes
      <4>3. t.session.status # "WAITING_TRIAGE"
        <5> HIDE DEF s
        <5> QED BY <1>2, <4>1, <4>2 DEF Fanout!ApplyTriage, Fanout!Inconclusive, Fanout!Finish,
                                        Fanout!Transition, Fanout!Session
      <4> QED BY <1>6, <3>1, <3>2, <4>3
    <3>3. CASE f.txn.effect = "PUBLISH_REPORT"
      <4>1. t.session.report_publication = "PUBLISHED"
        <5>1. t \in Fanout!RecordReportPublished(s)
          BY <3>3
        <5> HIDE DEF s
        <5> QED BY <1>2, <3>1, <3>3, <5>1 DEF Fanout!RecordReportPublished, Fanout!Reported,
                                             Fanout!Transition, Fanout!Session
      <4> QED BY <1>6, <3>1, <3>3, <4>1
    <3> QED BY <1>1, <3>2, <3>3
  <2>2. HandedOnIn(k, sessions, childJobs)
    BY <1>2, <2>1 DEF HandedOnIn
  <2>3. BusyIn(Fanout!ChildDone(f, k), sessions, childJobs)
    BY <1>2, <1>3, <2>2, DoneBusy
  <2> QED BY <1>1, <1>6, <2>3, WorkerOnly
<1>7. ASSUME NEW t \in ts, Fanout!CommitCore(k, t.session),
             Fanout!Move(w, Fanout!ChildOwes(f, k,
                               Fanout!Transition(sessions'[k].core, t.effect)))
      PROVE  FanInv'
  <2> DEFINE u == Fanout!Transition(sessions'[k].core, t.effect)
  <2>1. t \in Fanout!RecordTriageDecision(s) \/ t \in Fanout!RecordReportPublished(s)
    BY <1>7
  <2>2. ChildKeeps(s, t)
    BY <1>2, <2>1, ChildVerdicts
  <2>3. /\ Grown(sessions, sessions', childJobs, childJobs')
        /\ sessions' = [i \in {Root} \cup Kernels |-> sessions'[i]]
        /\ sessions'[Root] = sessions[Root]
        /\ \A j \in Kernels \ {k} : sessions'[j] = sessions[j]
        /\ ChildIn(k, sessions') /\ sessions'[k] # Absent
        /\ sessions'[k].core \in Fanout!Session
        /\ sessions'[k].core.state_revision > 1
        /\ ParentIn(sessions')
    BY <1>1, <1>2, <1>7, <2>2, ChildCommits
  <2>4. u \in ChildTxns /\ sessions'[k].core.state_revision # 1
    BY <2>2, <2>3 DEF ChildKeeps, ChildTxns, Fanout!Transition, Fanout!Session
  <2> HIDE DEF u
  <2>5. BusyIn(f, sessions', childJobs')
    BY <1>3, <2>3, BusyStays
  <2>6. BusyIn(Fanout!ChildOwes(f, k, u), sessions', childJobs')
    BY <1>2, <2>3, <2>4, <2>5, OwesBusy
  <2>7. /\ worker' = [v \in Workers |-> worker'[v]]
        /\ worker'[w] = Fanout!ChildOwes(f, k, u)
        /\ \A v \in Workers \ {w} : worker'[v] = worker[v]
    BY <1>7, WorkerMoves DEF u
  <2>8. \A v \in Workers : \/ worker'[v] \in {worker[v], Fanout!Off}
                           \/ BusyIn(worker'[v], sessions', childJobs')
    BY <2>6, <2>7
  <2> QED BY <2>3, <2>7, <2>8, FanStep
<1> HIDE DEF ts, f, s, k
<1> QED BY <1>4, <1>5, <1>6, <1>7

LEMMA ChildFailsStep ==
    ASSUME FanInv, NEW w \in Workers, Fanout!ChildFails(w) \/ Fanout!WorkerStops(w)
    PROVE  FanInv'
<1> DEFINE f == worker[w]
<1>1. UNCHANGED <<sessions, childJobs>>
  BY DEF Fanout!ChildFails, Fanout!WorkerStops
<1>2. CASE Fanout!WorkerStops(w)
  BY <1>1, <1>2, WorkerOnly DEF Fanout!WorkerStops
<1>3. CASE Fanout!ChildFails(w)
  <2>1. PICK k \in f.todo : f.at \in {"loop", "child"} /\ Fanout!Move(w, Fanout!ChildFailed(f, k))
    <3>1. CASE f.at = "child"
      <4>1. f.kid \in f.todo
        BY <3>1, InHand
      <4> QED BY <1>3, <3>1, <4>1 DEF Fanout!ChildFails
    <3>2. CASE f.at # "child"
      <4>1. /\ f.at = "loop" /\ f.todo # {}
            /\ Fanout!Move(w, Fanout!ChildFailed(f, Fanout!NextOf(f.todo)))
        BY <1>3, <3>2 DEF Fanout!ChildFails
      <4> QED BY <4>1 DEF Fanout!NextOf
    <3> QED BY <3>1, <3>2
  <2>2. BusyIn(Fanout!ChildFailed(f, k), sessions, childJobs)
    BY <2>1, AtWork, FailedBusy
  <2> QED BY <1>1, <2>1, <2>2, WorkerOnly
<1> QED BY <1>2, <1>3

LEMMA RecordChildrenStep ==
    ASSUME FanInv, NEW w \in Workers, Fanout!RecordChildren(w)
    PROVE  FanInv'
<1> DEFINE f == worker[w]
           P == sessions[Root]
           recs == IF f.failed THEN {} ELSE Fanout!RecordDiscoveryChildrenStarted(P, f.ids)
<1>1. /\ f.at = "loop" /\ f.todo = {} /\ Fanout!Move(w, Fanout!Off) /\ childJobs' = childJobs
      /\ IF recs \subseteq {P} THEN UNCHANGED sessions ELSE \E rec \in recs : Fanout!Commit(Root, rec)
  BY DEF Fanout!RecordChildren, Fanout!Parent
<1>2. CASE UNCHANGED sessions
  BY <1>1, <1>2, WorkerOnly
<1>3. ASSUME NEW rec \in recs, ~(recs \subseteq {P}), Fanout!Commit(Root, rec)
      PROVE  FanInv'
  <2> DEFINE s1 == [P.core EXCEPT !.status = "COMPLETED"]
             s2 == [s1 EXCEPT !.state_revision = @ + 1]
  <2>1. BusyIn(f, sessions, childJobs) /\ f.ids \in SUBSET Kernels
    BY <1>1, AtWork DEF BusyIn, FanoutCall
  <2>2. ~f.failed /\ rec \in Fanout!RecordDiscoveryChildrenStarted(P, f.ids)
    BY <1>3
  <2>3. /\ P.core.status = "WAITING_CHILDREN"
        /\ rec = [core |-> s1, manifest |-> P.manifest, children |-> f.ids]
    BY <1>3, <2>2 DEF Fanout!RecordDiscoveryChildrenStarted, Fanout!Stored
  <2>4. f.ids = P.manifest /\ \A k \in P.manifest : HandedOnIn(k, sessions, childJobs)
    BY <1>1, <2>1, <2>2 DEF BusyIn
  <2>5. P.core \in ParentCore /\ P.core.pending = {}
    BY <2>3 DEF FanInv, ParentIn, ParentSession
  <2>6. /\ s1 \in ParentCore /\ s1.status = "COMPLETED" /\ s1.pending = {}
        /\ s1.evidence = P.core.evidence
    <3> HIDE DEF P
    <3> QED BY <2>5 DEF ParentCore, Fanout!Terminal
  <2> HIDE DEF s1
  <2>7. /\ s2 \in ParentCore /\ s2.status = "COMPLETED" /\ s2.pending = {}
        /\ s2.evidence = P.core.evidence
    BY <2>6 DEF ParentCore
  <2>8. sessions' = [sessions EXCEPT ![Root] = [core |-> s2, manifest |-> P.manifest,
                                                children |-> f.ids]]
    <3>1. sessions' = [sessions EXCEPT ![Root] = [rec EXCEPT !.core.state_revision = @ + 1]]
      BY <1>3 DEF Fanout!Commit
    <3> HIDE DEF P, f
    <3>2. [rec EXCEPT !.core.state_revision = @ + 1]
             = [core |-> s2, manifest |-> P.manifest, children |-> f.ids]
      BY <2>3
    <3> QED BY <3>1, <3>2
  <2> HIDE DEF s2
  <2>9. /\ worker' = [v \in Workers |-> worker'[v]]
        /\ \A v \in Workers : worker'[v] \in {worker[v], Fanout!Off}
    BY <1>1, WorkerMoves
  <2> QED BY <1>1, <2>1, <2>3, <2>4, <2>7, <2>8, <2>9, ParentCommits
<1> QED BY <1>1, <1>2, <1>3

LEMMA FanNext == FanInv /\ [Fanout!FanoutNext]_fanout => FanInv'
<1> SUFFICES ASSUME FanInv, [Fanout!FanoutNext]_fanout PROVE FanInv'
  OBVIOUS
<1>1. CASE UNCHANGED fanout
  BY <1>1 DEF fanout, FanInv
<1>2. CASE Fanout!FanoutNext
  BY <1>2, GiveUpParentStep, ChildMovesStep, OnParentResultStep, ResumeParentStep,
     StartChildStep, DispatchChildStep, ApplyChildStep, ChildFailsStep, RecordChildrenStep
     DEF Fanout!FanoutNext
<1> QED BY <1>1, <1>2

(* A discovery that calls itself complete has left nothing behind, however *)
(* many workers fan out at the same time and whichever of them fail or     *)
(* die (_create_discovery_children, start).                                *)
THEOREM DiscoveriesAreWhole == CallsSpec => []FanoutIsWhole
<1>1. CallsInit => FanInv
  BY FanStart DEF CallsInit
<1>2. FanInv /\ [CallsNext]_<<pinned, fanout, vars>> => FanInv'
  <2>1. [CallsNext]_<<pinned, fanout, vars>> => [Fanout!FanoutNext]_fanout
    BY DEF CallsNext, PinnedSession, DiscoveryParent
  <2> QED BY <2>1, FanNext
<1>3. FanInv => FanoutIsWhole
  <2> SUFFICES ASSUME FanInv PROVE FanoutIsWhole
    OBVIOUS
  <2>1. ASSUME NEW k \in Kernels, sessions[k] # Absent
        PROVE  /\ k \in sessions[Root].manifest
               /\ Fanout!Admission(sessions[k].core.evidence) = Fanout!SharedEvidence(sessions[Root])
    BY <2>1 DEF FanInv, ChildIn
  <2>2. WholeIn(sessions, childJobs)
    BY DEF FanInv
  <2> QED BY <2>1, <2>2 DEF FanoutIsWhole, Fanout!FanoutIsWhole, Fanout!Parent, WholeIn, HandedOnIn
<1> QED BY <1>1, <1>2, <1>3, PTL DEF CallsSpec

=============================================================================
