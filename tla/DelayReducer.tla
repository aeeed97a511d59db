---------------------------- MODULE DelayReducer ----------------------------
(***************************************************************************)
(* `cutracer reduce`: starting from a delay configuration that triggers a  *)
(* data race, switch delay points off until only the ones the race needs   *)
(* are left.  Two strategies: "linear" tries every point once, "bisect" is *)
(* a ddmin.  Every candidate configuration is written to a temporary file  *)
(* and replayed; a replay is classified, several replays are voted on.     *)
(*                                                                         *)
(* The enabled points of a configuration are a list in file order.  Every  *)
(* list the reducer builds keeps that order, so a list is the set of its   *)
(* points and a chunk is a range of ranks.                                 *)
(***************************************************************************)
EXTENDS Naturals, FiniteSets

CONSTANTS N,                 \* delay points in the configuration
          Strategies,        \* {"linear", "bisect"}, or one of them
          Targets,           \* pairs of an oracle and whether it is flaky
          ConfidenceRuns,    \* confidence_runs
          HangIsBug,         \* ReplayConfig.hang_is_bug
          Pinned             \* ReplayConfig.expected_kernel_name is set

ASSUME ReducerAssumption ==
    /\ N \in Nat
    /\ Strategies \subseteq {"linear", "bisect"}
    /\ Targets \subseteq {"replay", "script"} \X BOOLEAN
    /\ ConfidenceRuns \in Nat
    /\ {HangIsBug, Pinned} \subseteq BOOLEAN

VARIABLES
    strategy,     \* --strategy
    oracle,       \* a ReplayConfig, or a bare test script
    flaky,        \* whether the same candidate may answer differently
    race,         \* the enabled sets under which the race happens
    on,           \* enabled_points of the input configuration
    phase,        \* where the reducer is
    enabled,      \* the mutator's enabled points / ddmin's current_points
    n,            \* ddmin's granularity
    todo,         \* linear: the points_to_test not tried yet
    i,            \* bisect: the chunk under test, from 1
    yes, no,      \* race_count and no_race_count of the test in progress
    essential,    \* ReduceResult.essential_points
    temps,        \* temporary configuration files on disk
    disk,         \* whether a write has failed
    saved         \* the configuration at output_path

vars == <<strategy, oracle, flaky, race, on, phase, enabled, n, todo, i, yes, no,
          essential, temps, disk, saved>>

input == <<strategy, oracle, flaky, race, on>>

Points == 1..N
NoConfig == [config |-> "none"]
Ended == {"done", "aborted", "rejected"}

Min2(a, b) == IF a <= b THEN a ELSE b
Max2(a, b) == IF a >= b THEN a ELSE b

(***************************************************************************)
(* One replay.  What the target did: it exited with code 0, with a code of *)
(* not_interesting_exit_codes or with another one, it outlived the timeout *)
(* or it could not be started; CUTracer's watchdog may have ended a kernel *)
(* of it; and its kernel event files name the pinned kernel, or name only  *)
(* others, hold an unreadable file or an undecodable line, or hold none.   *)
(***************************************************************************)
Replays == [end : {"zero", "expected", "unexpected", "timeout", "not_started"},
            hang : BOOLEAN,
            events : {"match", "unreadable", "garbled", "none", "other"}]

HangLines(r) == HangIsBug /\ r.hang

\* _validate_replay_kernel_identity: the failure, or "ok".
KernelIdentity(r) ==
    CASE r.events = "match" -> "ok"
      [] r.events \in {"unreadable", "garbled", "none"} -> "infra_error"
      [] OTHER -> "stale_input"

\* _run_replay_once with _classify_replay_process.
\* Mutants: any crash is a reproduction; a timeout is a clean run.
ReplayOutcomeOfCrash(r) ==
    IF HangLines(r) \/ r.end \in {"zero", "unexpected"} THEN "interesting"
    ELSE IF r.end = "expected" THEN "not_interesting" ELSE "infra_error"
ReplayOutcomeOfTimeout(r) ==
    IF HangLines(r) \/ r.end = "zero" THEN "interesting"
    ELSE IF r.end \in {"expected", "timeout"} THEN "not_interesting" ELSE "infra_error"
ReplayOutcome(r) ==
    LET exit == CASE r.end = "zero" -> "interesting"
                  [] r.end = "expected" -> "not_interesting"
                  [] OTHER -> "infra_error"
        read == IF HangLines(r) THEN "interesting" ELSE exit
    IN  CASE r.end = "timeout" -> IF HangLines(r) THEN "interesting" ELSE "timed_out"
          [] r.end = "not_started" -> "infra_error"
          [] OTHER -> IF Pinned /\ read # "infra_error" /\ KernelIdentity(r) # "ok"
                      THEN KernelIdentity(r) ELSE read

\* run_test: the script's exit status is all that counts; a timeout or an
\* error is an answer too, and the answer is "no race".
ScriptOutcome(r) == IF r.end = "zero" THEN "interesting" ELSE "not_interesting"

\* The target is a faithful witness of the race: it exits 0 or hangs only
\* where the race happens and reports a clean run only where it does not.
Faithful(r, c) ==
    /\ r.end = "zero" => c \in race
    /\ (r.end = "expected" /\ ~HangLines(r)) => c \notin race
    /\ HangLines(r) => c \in race

\* _candidate_is_interesting: the answers a candidate can get.  Any outcome
\* other than these two raises ReplayExecutionError.
Outcomes(c) ==
    {IF oracle = "replay" THEN ReplayOutcome(r) ELSE ScriptOutcome(r) :
        r \in {r \in Replays : flaky \/ Faithful(r, c)}}

Answers == {"interesting", "not_interesting"}

(***************************************************************************)
(* _run_test_with_confidence: a majority vote that stops when decided.     *)
(* The last run of the loop returns race_count >= threshold.               *)
(***************************************************************************)
Threshold == ConfidenceRuns \div 2 + 1
Decided(y, x) == \/ y >= Threshold
                 \/ x >= Threshold
                 \/ y + x >= ConfidenceRuns
Verdict(y) == y >= Threshold

(***************************************************************************)
(* Chunks of ddmin: size // n points each, the last one what is left.      *)
(***************************************************************************)
Size == Cardinality(enabled)
ChunkSize == Max2(1, Size \div n)
NumChunks == (Size + ChunkSize - 1) \div ChunkSize
Rank(S, p) == Cardinality({q \in S : q < p})
Chunk(k) == {p \in enabled : Rank(enabled, p) \div ChunkSize = k - 1}

\* The point the linear strategy is at.
NextPoint == CHOOSE p \in todo : \A q \in todo : p <= q

\* The configuration under test.
Candidate ==
    CASE phase = "linear" -> enabled \ {NextPoint}
      [] phase = "chunks" -> Chunk(i)
      [] phase = "complements" -> enabled \ Chunk(i)

-----------------------------------------------------------------------------
Init ==
    /\ strategy \in Strategies
    /\ \E t \in Targets : oracle = t[1] /\ flaky = t[2]
    /\ on \in SUBSET Points
    /\ race \in SUBSET SUBSET on
    /\ flaky => race = {}   \* without a meaning then
    /\ phase = "validate"
    /\ enabled = on
    /\ n = 2 /\ todo = on /\ i = 1
    /\ yes = 0 /\ no = 0
    /\ essential = {} /\ temps = {} /\ disk = "ok" /\ saved = NoConfig

\* _ddmin(S, m) up to its first test.
Ddmin(S, m) ==
    /\ enabled' = S
    /\ n' = Min2(m, Cardinality(S))
    /\ i' = 1
    /\ phase' = IF Cardinality(S) <= 1 THEN "save" ELSE "chunks"
    /\ UNCHANGED <<todo, essential>>

\* What a bisection starts from: points = list(base_mutator.enabled_points).
StartPoints == on

\* The configuration is loaded without an enabled point.
RejectEmpty ==
    /\ phase = "validate" /\ on = {}
    /\ phase' = "rejected"
    /\ UNCHANGED <<input, enabled, n, todo, i, yes, no, essential, temps, disk, saved>>

\* _validate_initial_config: one replay, no vote.  A bisection then drops the
\* initial file and enters ddmin; a linear pass keeps it to the end.
ValidateInitial ==
    /\ phase = "validate" /\ on # {}
    /\ \E answer \in Outcomes(on) :
         \/ /\ answer = "interesting"
            /\ \/ /\ strategy = "linear"
                  /\ phase' = "linear" /\ temps' = {"initial"}
                  /\ UNCHANGED <<enabled, n, todo, i, essential>>
               \/ /\ strategy = "bisect"
                  /\ Ddmin(StartPoints, 2)
                  /\ UNCHANGED temps
         \/ /\ answer # "interesting"
            /\ phase' = IF answer \in Answers THEN "rejected" ELSE "aborted"
            /\ UNCHANGED <<enabled, n, todo, i, essential, temps>>
    /\ UNCHANGED <<input, yes, no, disk, saved>>

-----------------------------------------------------------------------------
\* What the linear loop does with a verdict on `enabled \ {NextPoint}`.
LinearVerdict(interesting) ==
    /\ enabled' = IF interesting THEN enabled \ {NextPoint} ELSE enabled
    /\ essential' = IF interesting THEN essential ELSE essential \cup {NextPoint}
    /\ todo' = todo \ {NextPoint}
    /\ phase' = IF todo' = {} THEN "save" ELSE "linear"
    /\ UNCHANGED <<n, i>>

\* Phase 1 of ddmin: each chunk alone.
\* Mutant: no chunk alone triggers, so all the points are needed.
ChunkVerdictIsFinal(interesting) ==
    \/ /\ interesting
       /\ Ddmin(Candidate, 2)
    \/ /\ ~interesting
       /\ i' = IF i < NumChunks THEN i + 1 ELSE 1
       /\ phase' = IF i < NumChunks THEN "chunks" ELSE "save"
       /\ UNCHANGED <<enabled, n, todo, essential>>
ChunkVerdict(interesting) ==
    \/ /\ interesting
       /\ Ddmin(Candidate, 2)
    \/ /\ ~interesting
       /\ i' = IF i < NumChunks THEN i + 1 ELSE 1
       /\ phase' = IF i < NumChunks THEN "chunks" ELSE "complements"
       /\ UNCHANGED <<enabled, n, todo, essential>>

\* Phase 3 of ddmin: whether there is a finer granularity, and which.
\* Mutant: try the same granularity again.
CanRefine == n < Size
SameAgain == n
Finer == Min2(2 * n, Size)

\* Phases 2 and 3: each complement, then a finer granularity.
ComplementVerdict(interesting) ==
    \/ /\ interesting
       /\ Ddmin(Candidate, Max2(n - 1, 2))
    \/ /\ ~interesting /\ i < NumChunks
       /\ i' = i + 1
       /\ UNCHANGED <<phase, enabled, n, todo, essential>>
    \/ /\ ~interesting /\ i = NumChunks /\ CanRefine
       /\ Ddmin(enabled, Finer)
    \/ /\ ~interesting /\ i = NumChunks /\ ~CanRefine
       /\ phase' = "save"
       /\ UNCHANGED <<enabled, n, todo, i, essential>>

\* The vote goes on.
KeepVoting(y, x) ==
    /\ ~Decided(y, x)
    /\ yes' = y /\ no' = x
    /\ temps' = temps \cup {"candidate"}
    /\ UNCHANGED <<phase, enabled, n, todo, i, essential>>

\* The vote is decided: the candidate's file is removed and the search moves.
Decide(y, x) ==
    /\ Decided(y, x)
    /\ yes' = 0 /\ no' = 0
    /\ temps' = temps \ {"candidate"}
    /\ \/ phase = "linear" /\ LinearVerdict(Verdict(y))
       \/ phase = "chunks" /\ ChunkVerdict(Verdict(y))
       \/ phase = "complements" /\ ComplementVerdict(Verdict(y))

\* One replay of the candidate, whose file the first replay finds written.
RunCandidate ==
    /\ phase \in {"linear", "chunks", "complements"}
    /\ \/ /\ "interesting" \in Outcomes(Candidate)
          /\ KeepVoting(yes + 1, no) \/ Decide(yes + 1, no)
       \/ /\ "not_interesting" \in Outcomes(Candidate)
          /\ KeepVoting(yes, no + 1) \/ Decide(yes, no + 1)
    /\ UNCHANGED <<input, disk, saved>>

\* ReplayExecutionError leaves the reducer through every cleanup.
CandidateFails ==
    /\ phase \in {"linear", "chunks", "complements"}
    /\ Outcomes(Candidate) \ Answers # {}
    /\ phase' = "aborted"
    /\ temps' = {}
    /\ UNCHANGED <<input, enabled, n, todo, i, yes, no, essential, disk, saved>>

\* mutator.save() of a candidate (or of the initial configuration) fails half
\* way: the name of the new temporary file is lost with the exception.
TempWriteFails ==
    /\ disk = "ok"
    /\ \/ phase = "validate" /\ on # {}
       \/ phase \in {"linear", "chunks", "complements"} /\ yes + no = 0
    /\ disk' = "failed"
    /\ phase' = "aborted"
    /\ temps' = {IF phase = "validate" THEN "initial" ELSE "candidate"}
    /\ UNCHANGED <<input, enabled, n, todo, i, yes, no, essential, saved>>

\* The end of both strategies: the minimal configuration is written to
\* output_path, when one was given, before a linear pass drops its initial file.
\* A bisection makes the list it ended with essential_points.
Finish ==
    /\ phase = "save"
    /\ \E written \in {"no_path", "ok", "failed"} :
         /\ saved' = IF written = "ok" THEN [config |-> "set", enabled |-> enabled]
                                       ELSE saved
         /\ disk' = IF written = "failed" THEN "failed" ELSE disk
         /\ phase' = IF written = "failed" THEN "aborted" ELSE "done"
         /\ temps' = IF written = "failed" THEN temps ELSE {}
    /\ essential' = IF strategy = "bisect" THEN enabled ELSE essential
    /\ UNCHANGED <<input, enabled, n, todo, i, yes, no>>

Stopped == phase \in Ended /\ UNCHANGED vars

Next ==
    \/ RejectEmpty \/ ValidateInitial
    \/ RunCandidate \/ CandidateFails \/ TempWriteFails
    \/ Finish \/ Stopped

\* The reducer is one thread and every replay has a positive timeout.
Spec == Init /\ [][Next]_vars /\ WF_vars(Next)

-----------------------------------------------------------------------------
\* The reducer's state is well formed; the points it keeps are points the
\* input had enabled (reduce_delay_points, reduce_bisect).
TypeOK ==
    /\ strategy \in Strategies /\ oracle \in {"replay", "script"}
    /\ on \subseteq Points /\ race \subseteq SUBSET on
    /\ phase \in Ended \cup {"validate", "linear", "chunks", "complements", "save"}
    /\ enabled \subseteq on
    /\ n \in Nat /\ i \in Nat /\ yes \in Nat /\ no \in Nat
    /\ essential \subseteq on /\ todo \subseteq on
    /\ temps \subseteq {"initial", "candidate"}
    /\ disk \in {"ok", "failed"}
    /\ saved \in {NoConfig} \cup [config : {"set"}, enabled : SUBSET on]

\* From the validation of the input on, the points the reducer holds trigger
\* the race, whatever it tried in between; so does the configuration it writes
\* and the list it reports (reduce_delay_points, reduce_bisect).
ResultTriggers ==
    ~flaky =>
    /\ phase \in {"linear", "chunks", "complements", "save", "done"} => enabled \in race
    /\ saved # NoConfig => saved.enabled \in race

\* The essential points the report lists are exactly the points that the
\* configuration the reducer holds has on (linear: the points decided
\* essential and those not tried yet).
ReportMatchesConfig ==
    /\ phase = "done" => essential = enabled
    /\ saved # NoConfig => saved.enabled = essential
    /\ phase = "linear" => enabled = essential \cup todo

\* A bisection that ends with several points cannot do without any of them:
\* the finest granularity has tried every complement, for every oracle that
\* answers each candidate alike (_ddmin).
BisectOneMinimal ==
    (phase = "done" /\ ~flaky /\ strategy = "bisect" /\ oracle = "replay" /\ Cardinality(enabled) > 1)
        => \A p \in enabled : enabled \ {p} \notin race

Monotone == \A S \in race : \A T \in SUBSET on : S \subseteq T => T \in race

\* Where more delays never hide the race, the linear pass ends with a smallest
\* configuration: no proper subset of it triggers (reduce_delay_points).
LinearMinimal ==
    (phase = "done" /\ ~flaky /\ strategy = "linear" /\ oracle = "replay" /\ Monotone)
        => \A S \in SUBSET enabled : S \in race => S = enabled

\* Neither strategy searches for ever, whatever the oracle answers (_ddmin
\* recurses with a granularity that goes up and down): every step moves to a
\* later stage, drops a point, settles a point, refines the granularity, or
\* takes the next test or the next replay of it, each within its bound.
Stage == CASE phase = "validate" -> 0
           [] phase \in {"linear", "chunks", "complements"} -> 1
           [] phase = "save" -> 2
           [] phase \in Ended -> 3

Advance ==
    \/ Stage' > Stage
    \/ /\ Stage' = 1 /\ Stage = 1
       /\ \/ enabled' \subseteq enabled /\ enabled' # enabled
          \/ /\ enabled' = enabled
             /\ \/ todo' \subseteq todo /\ todo' # todo
                \/ todo' = todo /\ n < n' /\ n' <= Size
                \/ /\ UNCHANGED <<todo, n>>
                   /\ \/ phase = "chunks" /\ phase' = "complements"
                      \/ phase' = phase /\ i < i' /\ i' <= NumChunks
                      \/ /\ UNCHANGED <<phase, i>>
                         /\ yes + no < yes' + no' /\ yes' + no' < Max2(ConfidenceRuns, 1)

\* Every step of the reducer advances its search in this sense, so no search
\* repeats itself (reduce_delay_points, _ddmin, _run_test_with_confidence).
SearchAdvances == [][Advance]_vars
=============================================================================
