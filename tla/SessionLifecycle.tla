-------------------------- MODULE SessionLifecycle --------------------------
(***************************************************************************)
(* What one diagnosis session promises its readers, with no store, no      *)
(* workers and no messages: it asks for experiments within its budget,     *)
(* leaves a batch when the last experiment asked for has its one result,   *)
(* ends once, keeps its evidence then, and settles the delivery of its     *)
(* report once.                                                            *)
(***************************************************************************)
EXTENDS Integers, FiniteSets

CONSTANTS Experiments, Results, MaxRounds, MaxExperiments

VARIABLES status, round, publication,
          submitted,    \* the experiments it asked for
          spent,        \* what it charged to its budget
          evidence      \* the results it rests on

vars == <<status, round, publication, submitted, spent, evidence>>

Ended == {"COMPLETED", "INCONCLUSIVE", "FAILED"}

Answered == {r.id : r \in evidence}
Outstanding == submitted \ Answered

Init ==
    /\ status = "ABSENT" /\ round = 0 /\ publication = "NOT_READY"
    /\ submitted = {} /\ spent = 0 /\ evidence = {}

(* Ask for a batch of experiments the session has no result of.            *)
Ask(batch) ==
    /\ batch \cap (submitted \cup Answered) = {}
    /\ submitted' = submitted \cup batch
    /\ spent' = Cardinality(submitted') /\ spent' <= MaxExperiments

(* With results that were there before it, a session need not ask.         *)
Create ==
    /\ status = "ABSENT"
    /\ \E batch \in SUBSET Experiments :
          /\ Ask(batch)
          /\ \/ batch # {} /\ status' = "WAITING_INITIAL" /\ UNCHANGED publication
             \/ batch = {} /\ status' = "WAITING_TRIAGE" /\ UNCHANGED publication
             \/ batch = {} /\ status' = "INCONCLUSIVE" /\ publication' = "PENDING"
    /\ evidence' \subseteq Results
    /\ \A r, q \in evidence' : r.id = q.id => r = q
    /\ {r.id : r \in evidence'} \cap submitted' = {}
    /\ UNCHANGED round

(* A result; the last one of a batch moves the session on.                 *)
Collect ==
    /\ status \in {"WAITING_INITIAL", "WAITING_FOLLOWUP"}
    /\ \E r \in Results :
          /\ r.id \in Outstanding
          /\ evidence' = evidence \cup {r}
          /\ status' = IF Outstanding # {r.id} THEN status
                       ELSE IF status = "WAITING_INITIAL" THEN "WAITING_TRIAGE"
                       ELSE "WAITING_REASONER"
    /\ UNCHANGED <<round, publication, submitted, spent>>

Analyze ==
    /\ status = "WAITING_TRIAGE"
    /\ status' = "WAITING_REASONER"
    /\ UNCHANGED <<round, publication, submitted, spent, evidence>>

AskForMore ==
    /\ status = "WAITING_REASONER"
    /\ round < MaxRounds
    /\ status' = "WAITING_FOLLOWUP"
    /\ round' = round + 1
    /\ \E batch \in SUBSET Experiments : batch # {} /\ Ask(batch)
    /\ UNCHANGED <<publication, evidence>>

Conclude ==
    /\ status \in {"WAITING_TRIAGE", "WAITING_REASONER"}
    /\ status' \in {"COMPLETED", "INCONCLUSIVE"}
    /\ publication' = "PENDING"
    /\ UNCHANGED <<round, submitted, spent, evidence>>

Fail ==
    /\ status \notin Ended \cup {"ABSENT"}
    /\ status' = "FAILED"
    /\ UNCHANGED <<round, publication, submitted, spent, evidence>>

SettleReport ==
    /\ status \in {"COMPLETED", "INCONCLUSIVE"}
    /\ publication = "PENDING"
    /\ publication' \in {"PUBLISHED", "FAILED"}
    /\ UNCHANGED <<status, round, submitted, spent, evidence>>

Next == Create \/ Collect \/ Analyze \/ AskForMore \/ Conclude \/ Fail \/ SettleReport

Spec == Init /\ [][Next]_vars

=============================================================================
