------------------------- MODULE DelayReducerProofs -------------------------
(***************************************************************************)
(* For every number of points, every race and every number of confidence   *)
(* runs: the reducer reports what it writes, and with an oracle that does  *)
(* not contradict itself what it writes triggers the race and, in the      *)
(* cases the code's algorithm covers, cannot be made smaller; its search   *)
(* advances with every step; and the service takes no failure of it for a  *)
(* verdict.                                                                *)
(***************************************************************************)
EXTENDS ReduceExperiment, FiniteSetTheorems, WellFoundedInduction, TLAPS

Searching == phase \in {"linear", "chunks", "complements"}

(* How the variables hang together, whatever the oracle answers.           *)
Shape ==
    /\ TypeOK
    /\ i >= 1
    /\ phase = "validate" => enabled = on /\ todo = on /\ essential = {}
    /\ phase = "linear" => strategy = "linear" /\ todo # {}
    /\ phase \in {"chunks", "complements"} => strategy = "bisect" /\ n >= 1 /\ n <= Size /\ Size > 1
    /\ (strategy = "linear" /\ phase \in {"linear", "save", "done"}) =>
          enabled = essential \cup todo /\ essential \cap todo = {}
    /\ (strategy = "linear" /\ phase \in {"save", "done"}) => todo = {}
    /\ saved # NoConfig => phase = "done" /\ saved.enabled = enabled
    /\ phase = "done" => essential = enabled

(* Subsets of the points are finite.                                       *)
LEMMA PointSets ==
    ASSUME NEW S, S \subseteq Points
    PROVE  IsFiniteSet(S) /\ Cardinality(S) \in Nat
<1>1. IsFiniteSet(Points)
  BY ReducerAssumption, FS_Interval DEF Points
<1> QED BY <1>1, FS_Subset, FS_CardinalityType

(* The linear loop takes one of the points it has not tried yet.           *)
LEMMA LeastPoint ==
    ASSUME TypeOK, todo # {}
    PROVE  NextPoint \in todo
<1>1. todo \subseteq Nat
  BY ReducerAssumption DEF TypeOK, Points
<1>2. \E x \in todo : \A y \in todo : ~(<<y, x>> \in OpToRel(<, Nat))
  BY <1>1, NatLessThanWellFounded, WFMin
<1>3. PICK x \in todo : \A y \in todo : ~(<<y, x>> \in OpToRel(<, Nat))
  BY <1>2
<1>4. \A y \in todo : x <= y
  <2> TAKE y \in todo
  <2>1. x \in Nat /\ y \in Nat
    BY <1>1
  <2>2. ~(y < x)
    BY <1>3, <2>1 DEF OpToRel
  <2> QED BY <2>1, <2>2
<1> QED BY <1>3, <1>4 DEF NextPoint

(* Entering ddmin on a set of points keeps the shape.                      *)
LEMMA DdminShape ==
    ASSUME Shape, NEW S, S \subseteq on, NEW m \in Nat, m >= 2, Ddmin(S, m),
           strategy = "bisect", saved = NoConfig,
           UNCHANGED <<strategy, oracle, race, on, saved, disk>>,
           yes' \in Nat, no' \in Nat,
           temps' \subseteq {"initial", "candidate"}
    PROVE  Shape'
<1>1. Cardinality(S) \in Nat
  BY PointSets DEF Shape, TypeOK
<1>2. n' \in Nat /\ (Cardinality(S) > 1 => n' >= 1 /\ n' <= Cardinality(S))
  BY <1>1 DEF Ddmin, Min2
<1>3. TypeOK'
  BY <1>2 DEF Ddmin, Shape, TypeOK, Ended
<1>4. i' >= 1
  BY DEF Ddmin
<1>5. Size' = Cardinality(S)
  BY DEF Ddmin, Size
<1>6. phase' \in {"save", "chunks"} /\ (phase' = "chunks" => Cardinality(S) > 1)
  BY <1>1 DEF Ddmin
<1> QED BY <1>2, <1>3, <1>4, <1>5, <1>6 DEF Shape

(* A vote keeps the counters natural.                                      *)
LEMMA VoteTypes ==
    ASSUME NEW y \in Nat, NEW x \in Nat
    PROVE  [yes |-> y, no |-> x, result |-> Verdict(y)] \in
              [yes : Nat, no : Nat, result : BOOLEAN]
BY ReducerAssumption DEF Verdict

(* What a decided vote does to the shape.                                  *)
LEMMA DecideShape ==
    ASSUME Shape, Searching, saved = NoConfig, NEW y \in Nat, NEW x \in Nat, Decide(y, x),
           UNCHANGED <<strategy, oracle, race, on, disk, saved>>
    PROVE  Shape'
<1>1. yes' \in Nat /\ no' \in Nat
      /\ temps' \subseteq {"initial", "candidate"}
  BY VoteTypes DEF Decide, Shape, TypeOK
<1>2. CASE phase = "linear" /\ LinearVerdict(Verdict(y))
  <2>1. NextPoint \in todo
    BY <1>2, LeastPoint DEF Shape
  <2>2. NextPoint \in on /\ enabled = essential \cup todo /\ essential \cap todo = {}
        /\ strategy = "linear"
    BY <2>1, <1>2 DEF Shape, TypeOK
  <2>3. TypeOK'
    BY <1>1, <1>2, <2>2 DEF LinearVerdict, Shape, TypeOK, Ended
  <2>4. enabled' = essential' \cup todo' /\ essential' \cap todo' = {}
    BY <1>2, <2>1, <2>2 DEF LinearVerdict
  <2>5. i' = i /\ phase' \in {"linear", "save"} /\ (phase' = "linear" <=> todo' # {})
    BY <1>2 DEF LinearVerdict
  <2> QED BY <2>2, <2>3, <2>4, <2>5 DEF Shape
<1>3. CASE phase = "chunks" /\ ChunkVerdict(Verdict(y))
  <2>1. Chunk(i) \subseteq on /\ Candidate = Chunk(i) /\ strategy = "bisect"
    BY <1>3 DEF Shape, TypeOK, Chunk, Candidate
  <2>2. CASE Verdict(y)
    BY <1>1, <1>3, <2>1, <2>2, DdminShape DEF ChunkVerdict
  <2>3. CASE ~Verdict(y)
    <3>1. /\ i' = IF i < NumChunks THEN i + 1 ELSE 1
          /\ phase' = IF i < NumChunks THEN "chunks" ELSE "complements"
          /\ UNCHANGED <<enabled, n, todo, essential>>
      BY <1>3, <2>3 DEF ChunkVerdict
    <3>2. i' \in Nat /\ i' >= 1
      BY <3>1 DEF Shape, TypeOK
    <3>3. TypeOK'
      BY <1>1, <3>1, <3>2 DEF Shape, TypeOK
    <3> QED BY <1>3, <2>1, <3>1, <3>2, <3>3 DEF Shape, Size
  <2> QED BY <2>2, <2>3
<1>4. CASE phase = "complements" /\ ComplementVerdict(Verdict(y))
  <2>1. /\ enabled \subseteq on /\ enabled \ Chunk(i) \subseteq on
        /\ Candidate = enabled \ Chunk(i) /\ strategy = "bisect"
    BY <1>4 DEF Shape, TypeOK, Candidate
  <2>2. n \in Nat /\ n >= 1 /\ n <= Size /\ Size > 1 /\ Size \in Nat
    BY <1>4, PointSets DEF Shape, TypeOK, Size
  <2>3. CASE Verdict(y)
    <3>1. Max2(n - 1, 2) \in Nat /\ Max2(n - 1, 2) >= 2
      BY <2>2 DEF Max2
    <3>2. Ddmin(enabled \ Chunk(i), Max2(n - 1, 2))
      BY <1>4, <2>1, <2>3 DEF ComplementVerdict
    <3> QED BY <1>1, <2>1, <3>1, <3>2, DdminShape
  <2>4. CASE ~Verdict(y) /\ Ddmin(enabled, Finer)
    <3>1. Finer \in Nat /\ Finer >= 2
      BY <2>2 DEF Finer, Min2
    <3> QED BY <1>1, <2>1, <2>4, <3>1, DdminShape
  <2>5. CASE i' = i + 1 /\ UNCHANGED <<phase, enabled, n, todo, essential>>
    <3>1. TypeOK' /\ i' >= 1
      BY <1>1, <2>5 DEF Shape, TypeOK
    <3> QED BY <1>4, <2>1, <2>5, <3>1 DEF Shape, Size
  <2>6. CASE phase' = "save" /\ UNCHANGED <<enabled, n, todo, i, essential>>
    <3>1. TypeOK'
      BY <1>1, <2>6 DEF Shape, TypeOK
    <3> QED BY <2>1, <2>6, <3>1 DEF Shape
  <2> QED BY <1>4, <2>3, <2>4, <2>5, <2>6 DEF ComplementVerdict
<1> QED BY <1>2, <1>3, <1>4 DEF Decide

-----------------------------------------------------------------------------
(* The reducer starts in shape.                                            *)
LEMMA InitShape == Init => Shape
<1> SUFFICES ASSUME Init PROVE Shape
  OBVIOUS
<1>1. PICK t \in Targets : oracle = t[1]
  BY DEF Init
<1>2. t \in {"replay", "script"} \X BOOLEAN
  BY ReducerAssumption
<1>3. oracle \in {"replay", "script"}
  BY <1>1, <1>2
<1>4. TypeOK
  BY <1>3 DEF Init, TypeOK, NoConfig, Ended
<1> QED BY <1>4 DEF Init, Shape

(* Every step of the reducer keeps the shape, whatever the oracle says.    *)
LEMMA StepShape == Shape /\ [Next]_vars => Shape'
<1> SUFFICES ASSUME Shape, [Next]_vars PROVE Shape'
  OBVIOUS
<1> USE DEF input
<1>1. CASE RejectEmpty
  BY <1>1 DEF RejectEmpty, Shape, TypeOK, Ended, Size
<1>2. CASE ValidateInitial
  <2>1. PICK reply \in Outcomes(on) :
            \/ /\ reply = "interesting"
               /\ \/ /\ strategy = "linear"
                     /\ phase' = "linear" /\ temps' = {"initial"}
                     /\ UNCHANGED <<enabled, n, todo, i, essential>>
                  \/ /\ strategy = "bisect"
                     /\ Ddmin(StartPoints, 2)
                     /\ UNCHANGED temps
            \/ /\ reply # "interesting"
               /\ phase' = IF reply \in Answers THEN "rejected" ELSE "aborted"
               /\ UNCHANGED <<enabled, n, todo, i, essential, temps>>
    BY <1>2 DEF ValidateInitial
  <2>2. saved = NoConfig /\ enabled = on /\ todo = on /\ on # {} /\ essential = {}
    BY <1>2 DEF ValidateInitial, Shape
  <2>3. UNCHANGED <<strategy, oracle, race, on, yes, no, disk, saved>>
    BY <1>2 DEF ValidateInitial
  <2>4. CASE strategy = "linear" /\ phase' = "linear" /\ temps' = {"initial"}
             /\ UNCHANGED <<enabled, n, todo, i, essential>>
    BY <2>2, <2>3, <2>4 DEF Shape, TypeOK, Ended
  <2>5. CASE strategy = "bisect" /\ Ddmin(StartPoints, 2) /\ UNCHANGED temps
    <3>1. yes' \in Nat /\ no' \in Nat
          /\ temps' \subseteq {"initial", "candidate"}
      BY <2>3, <2>5 DEF Shape, TypeOK
    <3> QED BY <2>2, <2>3, <2>5, <3>1, DdminShape DEF StartPoints
  <2>6. CASE phase' \in {"rejected", "aborted"}
             /\ UNCHANGED <<enabled, n, todo, i, essential, temps>>
    BY <2>2, <2>3, <2>6 DEF Shape, TypeOK, Ended
  <2> QED BY <2>1, <2>4, <2>5, <2>6
<1>3. CASE RunCandidate
  <2>1. Searching /\ saved = NoConfig /\ UNCHANGED <<strategy, oracle, race, on, disk, saved>>
    BY <1>3 DEF RunCandidate, Searching, Shape
  <2>2. PICK y \in Nat, x \in Nat : KeepVoting(y, x) \/ Decide(y, x)
    BY <1>3 DEF RunCandidate, Shape, TypeOK
  <2>3. CASE KeepVoting(y, x)
    <3>1. TypeOK'
      BY <2>1, <2>3 DEF KeepVoting, Shape, TypeOK
    <3> QED BY <2>1, <2>3, <3>1 DEF KeepVoting, Shape, Size
  <2>4. CASE Decide(y, x)
    BY <2>1, <2>4, DecideShape
  <2> QED BY <2>2, <2>3, <2>4
<1>4. CASE CandidateFails
  BY <1>4 DEF CandidateFails, Shape, TypeOK, Ended, Size
<1>5. CASE TempWriteFails
  BY <1>5 DEF TempWriteFails, Shape, TypeOK, Ended, Size
<1>6. CASE Finish
  <2>1. PICK written \in {"no_path", "ok", "failed"} :
         /\ saved' = IF written = "ok" THEN [config |-> "set", enabled |-> enabled]
                                       ELSE saved
         /\ disk' = IF written = "failed" THEN "failed" ELSE disk
         /\ phase' = IF written = "failed" THEN "aborted" ELSE "done"
         /\ temps' = IF written = "failed" THEN temps ELSE {}
    BY <1>6 DEF Finish
  <2>2. /\ phase = "save" /\ saved = NoConfig
        /\ essential' = IF strategy = "bisect" THEN enabled ELSE essential
        /\ UNCHANGED <<strategy, oracle, race, on, enabled, n, todo, i, yes, no>>
    BY <1>6 DEF Finish, Shape
  <2>3. saved' \in {NoConfig} \cup [config : {"set"}, enabled : SUBSET on]
    BY <2>1, <2>2 DEF Shape, TypeOK
  <2>4. TypeOK'
    BY <2>1, <2>2, <2>3 DEF Shape, TypeOK, Ended
  <2>5. strategy \in {"linear", "bisect"}
    BY ReducerAssumption DEF Shape, TypeOK
  <2>6. essential' = enabled /\ (strategy = "linear" => todo = {})
    BY <2>2, <2>5 DEF Shape
  <2>7. saved' # NoConfig => written = "ok" /\ saved'.enabled = enabled'
    BY <2>1, <2>2
  <2> QED BY <2>1, <2>2, <2>4, <2>5, <2>6, <2>7 DEF Shape, Size
<1>7. CASE Stopped
  BY <1>7 DEF Stopped, vars, Shape, TypeOK, Size
<1>8. CASE UNCHANGED vars
  BY <1>8 DEF vars, Shape, TypeOK, Size
<1> QED BY <1>1, <1>2, <1>3, <1>4, <1>5, <1>6, <1>7, <1>8 DEF Next

(* Every variable of the reducer keeps its type and its points stay among  *)
(* those the input had enabled, for every oracle.                          *)
THEOREM TypeCorrect == Spec => []TypeOK
<1>1. Shape => TypeOK
  BY DEF Shape
<1> QED BY <1>1, InitShape, StepShape, PTL DEF Spec

(* The essential points reported are the ones the written configuration    *)
(* has on, for every oracle and every strategy.                            *)
THEOREM ReportIsTheConfig == Spec => []ReportMatchesConfig
<1>1. Shape => ReportMatchesConfig
  BY DEF Shape, ReportMatchesConfig
<1> QED BY <1>1, InitShape, StepShape, PTL DEF Spec

-----------------------------------------------------------------------------
(* Below, the oracle does not contradict itself: ~flaky.                   *)

SomePhase == phase \in {"linear", "chunks", "complements", "save", "done"}

LinearTried ==
    (strategy = "linear" /\ oracle = "replay" /\ Monotone /\ SomePhase)
        => \A p \in essential : enabled \ {p} \notin race

ComplementsTried ==
    (oracle = "replay" /\ phase = "complements")
        => \A k \in 1..(i - 1) : enabled \ Chunk(k) \notin race

BisectTried ==
    (strategy = "bisect" /\ oracle = "replay" /\ phase \in {"save", "done"}
        /\ Cardinality(enabled) > 1)
        => \A p \in enabled : enabled \ {p} \notin race

(* What the answers so far have established.                               *)
Truth ==
    /\ Shape
    /\ phase = "validate" => yes = 0 /\ no = 0
    /\ SomePhase => enabled \in race
    /\ Searching /\ yes > 0 => Candidate \in race
    /\ Searching /\ no > 0 /\ oracle = "replay" => Candidate \notin race
    /\ LinearTried
    /\ ComplementsTried
    /\ BisectTried

(* An answer is the truth about the candidate: "interesting" always, "not  *)
(* interesting" if replays are classified (_run_replay_once).              *)
LEMMA AnswersAreTrue ==
    ASSUME ~flaky, NEW c
    PROVE  /\ "interesting" \in Outcomes(c) => c \in race
           /\ (oracle = "replay" /\ "not_interesting" \in Outcomes(c)) => c \notin race
<1>1. ASSUME NEW r \in Replays, Faithful(r, c)
      PROVE  /\ ReplayOutcome(r) = "interesting" => c \in race
             /\ ScriptOutcome(r) = "interesting" => c \in race
             /\ ReplayOutcome(r) = "not_interesting" => c \notin race
  <2>1. KernelIdentity(r) \in {"ok", "infra_error", "stale_input"}
    BY DEF KernelIdentity
  <2>2. r.end \in {"zero", "expected", "unexpected", "timeout", "not_started"}
    BY DEF Replays
  <2> QED BY <1>1, <2>1, <2>2 DEF Faithful, ReplayOutcome, ScriptOutcome
<1> QED BY <1>1 DEF Outcomes

(* A decided vote has a voter on its side (_run_test_with_confidence).     *)
LEMMA VoteHasVoter ==
    ASSUME NEW y \in Nat, NEW x \in Nat, y + x >= 1, Decided(y, x)
    PROVE  (Verdict(y) => y > 0) /\ (~Verdict(y) => x > 0)
BY ReducerAssumption DEF Decided, Verdict, Threshold

(* At the finest granularity the chunks are the single points (_ddmin).    *)
LEMMA RankGrows ==
    ASSUME NEW S, S \subseteq Points, NEW p \in S, NEW q \in S, p < q
    PROVE  Rank(S, p) < Rank(S, q)
<1> DEFINE A == {z \in S : z < p}  B == {z \in S : z < q}
<1>1. S \subseteq Nat
  BY ReducerAssumption DEF Points
<1>2. A \subseteq B /\ p \in B /\ p \notin A
  <2>1. p \in Nat /\ q \in Nat /\ ~(p < p)
    BY <1>1
  <2>2. \A z \in S : z < p => z < q
    BY <1>1, <2>1
  <2> QED BY <2>1, <2>2
<1>3. A \subseteq Points /\ B \subseteq Points
  OBVIOUS
<1>4. IsFiniteSet(B)
  BY <1>3, PointSets
<1>5. Cardinality(A) < Cardinality(B)
  BY <1>2, <1>4, FS_Subset, FS_CardinalityType
<1> QED BY <1>5 DEF Rank

(* The rank of a point is below the number of points.                      *)
LEMMA RankBound ==
    ASSUME NEW S, S \subseteq Points, NEW p \in S
    PROVE  Rank(S, p) \in Nat /\ Rank(S, p) < Cardinality(S)
<1> DEFINE A == {z \in S : z < p}
<1>1. S \subseteq Nat
  BY ReducerAssumption DEF Points
<1>2. A \subseteq S /\ p \notin A /\ A # S
  BY <1>1
<1>3. IsFiniteSet(S)
  BY PointSets
<1>4. IsFiniteSet(A) /\ Cardinality(A) \in Nat /\ Cardinality(A) < Cardinality(S)
  BY <1>2, <1>3, FS_Subset, FS_CardinalityType
<1> QED BY <1>4 DEF Rank

(* With a granularity of one point per chunk, every point has a chunk of   *)
(* its own (_ddmin at n = size).                                           *)
LEMMA SingleChunks ==
    ASSUME TypeOK, Size > 1, n = Size
    PROVE  \A p \in enabled : \E k \in 1..NumChunks : Chunk(k) = {p}
<1>1. enabled \subseteq Points /\ Size \in Nat
  BY PointSets DEF TypeOK, Size
<1>2. Size \div n = 1
  BY <1>1
<1>3. ChunkSize = 1
  BY <1>2 DEF ChunkSize, Max2
<1>4. NumChunks = Size
  BY <1>1, <1>3 DEF NumChunks
<1> SUFFICES ASSUME NEW p \in enabled PROVE \E k \in 1..NumChunks : Chunk(k) = {p}
  OBVIOUS
<1> DEFINE k == Rank(enabled, p) + 1
<1>5. Rank(enabled, p) \in Nat /\ Rank(enabled, p) < Size
  BY <1>1, RankBound DEF Size
<1>6. k \in 1..NumChunks
  BY <1>1, <1>4, <1>5
<1>7. ASSUME NEW q \in enabled
      PROVE  (Rank(enabled, q) \div ChunkSize = k - 1) <=> q = p
  <2>1. Rank(enabled, q) \in Nat
    BY <1>1, RankBound
  <2>2. Rank(enabled, q) \div ChunkSize = Rank(enabled, q)
    BY <1>3, <2>1
  <2>3. p \in Nat /\ q \in Nat
    BY <1>1, ReducerAssumption DEF Points
  <2>4. q < p => Rank(enabled, q) < Rank(enabled, p)
    BY <1>1, RankGrows
  <2>5. p < q => Rank(enabled, p) < Rank(enabled, q)
    BY <1>1, RankGrows
  <2>6. q # p => Rank(enabled, q) # Rank(enabled, p)
    BY <1>5, <2>1, <2>3, <2>4, <2>5
  <2> QED BY <1>5, <2>1, <2>2, <2>6
<1>8. Chunk(k) = {p}
  BY <1>7 DEF Chunk
<1> QED BY <1>6, <1>8

-----------------------------------------------------------------------------
(* Entering ddmin on a set that triggers the race.                         *)
LEMMA DdminTruth ==
    ASSUME Truth, NEW S, NEW m, Ddmin(S, m), Shape', S \in race, strategy = "bisect",
           UNCHANGED <<strategy, oracle, race, on>>, yes' = 0, no' = 0
    PROVE  Truth'
<1>1. phase' \in {"save", "chunks"} /\ enabled' = S
      /\ (phase' = "save" => ~(Cardinality(S) > 1))
  <2>1. Cardinality(S) \in Nat
    BY PointSets DEF Ddmin, Shape, TypeOK
  <2> QED BY <2>1 DEF Ddmin
<1> QED BY <1>1 DEF Truth, SomePhase, Searching, LinearTried, ComplementsTried, BisectTried

(* A verdict of the linear loop.  Where more delays never hide the race a  *)
(* point that was needed once is needed for good.                          *)
LEMMA LinearTruth ==
    ASSUME Truth, phase = "linear", NEW b \in BOOLEAN, LinearVerdict(b), Shape',
           b => Candidate \in race,
           (~b /\ oracle = "replay") => Candidate \notin race,
           UNCHANGED <<strategy, oracle, race, on>>, yes' = 0, no' = 0
    PROVE  Truth'
<1>1. Candidate = enabled \ {NextPoint} /\ strategy = "linear" /\ enabled \in race
  BY DEF Candidate, Truth, Shape, SomePhase
<1>2. phase' \in {"linear", "save"}
  BY DEF LinearVerdict
<1>3. enabled' \in race'
  BY <1>1 DEF LinearVerdict
<1>4. LinearTried'
  <2> SUFFICES ASSUME oracle = "replay", Monotone, NEW p \in essential',
                      enabled' \ {p} \in race
               PROVE  FALSE
    BY DEF LinearTried, Monotone
  <2>1. p \in essential => enabled \ {p} \notin race
    BY <1>1 DEF Truth, LinearTried, SomePhase
  <2>2. enabled' \subseteq enabled /\ enabled \subseteq on
    BY DEF LinearVerdict, Truth, Shape, TypeOK
  <2>3. p \in essential => enabled \ {p} \in race
    BY <2>2 DEF Monotone
  <2>4. CASE p \notin essential
    BY <1>1, <2>4 DEF LinearVerdict
  <2> QED BY <2>1, <2>3, <2>4
<1> QED BY <1>1, <1>2, <1>3, <1>4 DEF Truth, SomePhase, Searching, ComplementsTried, BisectTried

(* A verdict of ddmin.                                                     *)
LEMMA BisectTruth ==
    ASSUME Truth, NEW b \in BOOLEAN, Shape',
           \/ phase = "chunks" /\ ChunkVerdict(b)
           \/ phase = "complements" /\ ComplementVerdict(b),
           b => Candidate \in race,
           (~b /\ oracle = "replay") => Candidate \notin race,
           UNCHANGED <<strategy, oracle, race, on>>, yes' = 0, no' = 0
    PROVE  Truth'
<1>1. enabled \in race /\ strategy = "bisect" /\ TypeOK /\ i >= 1 /\ i \in Nat
      /\ n <= Size /\ Size > 1 /\ n \in Nat
  BY DEF Truth, Shape, TypeOK, SomePhase
<1>2. CASE phase = "chunks" /\ b
  BY <1>1, <1>2, DdminTruth DEF ChunkVerdict
<1>3. CASE phase = "chunks" /\ ~b
  <2>1. phase' \in {"chunks", "complements"} /\ enabled' = enabled
        /\ (phase' = "complements" => i' = 1)
    BY <1>3 DEF ChunkVerdict
  <2>2. ComplementsTried'
    BY <2>1 DEF ComplementsTried
  <2> QED BY <1>1, <2>1, <2>2 DEF Truth, SomePhase, Searching, LinearTried, BisectTried
<1>4. CASE phase = "complements" /\ b
  BY <1>1, <1>4, DdminTruth DEF ComplementVerdict
<1>5. CASE phase = "complements" /\ ~b
  <2>1. Candidate = enabled \ Chunk(i)
    BY <1>5 DEF Candidate
  <2>2. oracle = "replay" => \A k \in 1..i : enabled \ Chunk(k) \notin race
    <3> SUFFICES ASSUME oracle = "replay", NEW k \in 1..i PROVE enabled \ Chunk(k) \notin race
      OBVIOUS
    <3>1. CASE k = i
      BY <1>5, <2>1, <3>1
    <3>2. CASE k # i
      <4>1. k \in 1..(i - 1)
        BY <1>1, <3>2
      <4> QED BY <1>5, <4>1 DEF Truth, ComplementsTried
    <3> QED BY <3>1, <3>2
  <2>3. CASE i' = i + 1 /\ UNCHANGED <<phase, enabled, n>>
    <3>1. i' - 1 = i
      BY <1>1, <2>3
    <3>2. \A k : Chunk(k)' = Chunk(k)
      BY <2>3 DEF Chunk, ChunkSize, Size
    <3>3. ComplementsTried'
      BY <1>5, <2>2, <2>3, <3>1, <3>2 DEF ComplementsTried
    <3> QED BY <1>1, <1>5, <2>3, <3>3
            DEF Truth, SomePhase, Searching, LinearTried, BisectTried
  <2>4. CASE Ddmin(enabled, Finer)
    BY <1>1, <2>4, DdminTruth
  <2>5. CASE i = NumChunks /\ ~CanRefine /\ phase' = "save" /\ UNCHANGED enabled
    <3>1. Size \in Nat
      BY <1>1, PointSets DEF TypeOK, Size
    <3>2. n = Size
      BY <1>1, <2>5, <3>1 DEF CanRefine
    <3>3. \A p \in enabled : \E k \in 1..i : Chunk(k) = {p}
      BY <1>1, <2>5, <3>2, SingleChunks
    <3>4. BisectTried'
      BY <2>2, <2>5, <3>3 DEF BisectTried
    <3> QED BY <1>1, <2>5, <3>4
            DEF Truth, SomePhase, Searching, LinearTried, ComplementsTried
  <2> QED BY <1>5, <2>3, <2>4, <2>5 DEF ComplementVerdict
<1> QED BY <1>2, <1>3, <1>4, <1>5

(* Nothing is claimed of the race before the input is validated.           *)
LEMMA InitTruth == Init => Truth
<1> SUFFICES ASSUME Init PROVE Truth
  OBVIOUS
<1>1. Shape
  BY InitShape
<1> QED BY <1>1 DEF Init, Truth, SomePhase, Searching, LinearTried, ComplementsTried, BisectTried

(* One more vote, or the vote that decides.                                *)
LEMMA VoteTruth ==
    ASSUME Truth, Shape', Searching, NEW y \in Nat, NEW x \in Nat, y + x >= 1,
           y > 0 => Candidate \in race,
           (x > 0 /\ oracle = "replay") => Candidate \notin race,
           KeepVoting(y, x) \/ Decide(y, x),
           UNCHANGED <<strategy, oracle, race, on>>
    PROVE  Truth'
<1>1. CASE KeepVoting(y, x)
  <2>1. UNCHANGED <<phase, enabled, n, todo, i, essential>> /\ yes' = y /\ no' = x
    BY <1>1 DEF KeepVoting
  <2>2. \A k : Chunk(k)' = Chunk(k)
    BY <2>1 DEF Chunk, ChunkSize, Size
  <2>3. Candidate' = Candidate
    BY <2>1, <2>2 DEF Candidate, NextPoint
  <2>4. LinearTried' /\ BisectTried' /\ ComplementsTried'
    BY <2>1, <2>2 DEF Truth, LinearTried, BisectTried, ComplementsTried, SomePhase, Monotone
  <2> QED BY <2>1, <2>3, <2>4 DEF Truth, SomePhase, Searching
<1>2. CASE Decide(y, x)
  <2>1. Verdict(y) \in BOOLEAN
    BY DEF Verdict
  <2>2. (Verdict(y) => Candidate \in race)
        /\ ((~Verdict(y) /\ oracle = "replay") => Candidate \notin race)
    BY <1>2, VoteHasVoter DEF Decide
  <2>3. yes' = 0 /\ no' = 0
    BY <1>2 DEF Decide
  <2>4. CASE phase = "linear" /\ LinearVerdict(Verdict(y))
    BY <2>1, <2>2, <2>3, <2>4, LinearTruth
  <2>5. CASE \/ phase = "chunks" /\ ChunkVerdict(Verdict(y))
             \/ phase = "complements" /\ ComplementVerdict(Verdict(y))
    BY <2>1, <2>2, <2>3, <2>5, BisectTruth
  <2> QED BY <1>2, <2>4, <2>5 DEF Decide
<1> QED BY <1>1, <1>2

(* Every step keeps what the verdicts so far have established.             *)
LEMMA StepTruth ==
    ASSUME ~flaky, Truth, [Next]_vars
    PROVE  Truth'
<1>s. Shape'
  BY StepShape DEF Truth
<1>e. ASSUME phase' \in {"rejected", "aborted"} PROVE Truth'
  BY <1>s, <1>e DEF Truth, SomePhase, Searching, LinearTried, ComplementsTried, BisectTried
<1> USE DEF input
<1>1. CASE RejectEmpty
  BY <1>1, <1>e DEF RejectEmpty
<1>2. CASE ValidateInitial
  <2>1. PICK reply \in Outcomes(on) :
            \/ /\ reply = "interesting"
               /\ \/ /\ strategy = "linear"
                     /\ phase' = "linear" /\ temps' = {"initial"}
                     /\ UNCHANGED <<enabled, n, todo, i, essential>>
                  \/ /\ strategy = "bisect"
                     /\ Ddmin(StartPoints, 2)
                     /\ UNCHANGED temps
            \/ /\ reply # "interesting"
               /\ phase' = IF reply \in Answers THEN "rejected" ELSE "aborted"
               /\ UNCHANGED <<enabled, n, todo, i, essential, temps>>
    BY <1>2 DEF ValidateInitial
  <2>2. yes' = 0 /\ no' = 0 /\ enabled = on /\ essential = {}
        /\ UNCHANGED <<strategy, oracle, race, on>>
    BY <1>2 DEF ValidateInitial, Truth, Shape
  <2>3. reply = "interesting" => on \in race
    BY AnswersAreTrue
  <2>4. CASE reply = "interesting" /\ strategy = "linear" /\ phase' = "linear"
             /\ UNCHANGED <<enabled, n, todo, i, essential>>
    BY <1>s, <2>2, <2>3, <2>4
       DEF Truth, SomePhase, Searching, LinearTried, ComplementsTried, BisectTried
  <2>5. CASE reply = "interesting" /\ strategy = "bisect" /\ Ddmin(StartPoints, 2)
    BY <1>s, <2>2, <2>3, <2>5, DdminTruth DEF StartPoints
  <2> QED BY <1>e, <2>1, <2>4, <2>5
<1>3. CASE RunCandidate
  <2>1. Searching /\ UNCHANGED <<strategy, oracle, race, on>> /\ yes \in Nat /\ no \in Nat
    BY <1>3 DEF RunCandidate, Searching, Truth, Shape, TypeOK
  <2>2. /\ yes > 0 => Candidate \in race
        /\ (no > 0 /\ oracle = "replay") => Candidate \notin race
    BY <2>1 DEF Truth
  <2>3. CASE /\ "interesting" \in Outcomes(Candidate)
             /\ KeepVoting(yes + 1, no) \/ Decide(yes + 1, no)
    <3>1. Candidate \in race
      BY <2>3, AnswersAreTrue
    <3>2. yes + 1 \in Nat /\ (yes + 1) + no >= 1
      BY <2>1
    <3> QED BY <1>s, <2>1, <2>2, <2>3, <3>1, <3>2, VoteTruth
  <2>4. CASE /\ "not_interesting" \in Outcomes(Candidate)
             /\ KeepVoting(yes, no + 1) \/ Decide(yes, no + 1)
    <3>1. oracle = "replay" => Candidate \notin race
      BY <2>4, AnswersAreTrue
    <3>2. no + 1 \in Nat /\ yes + (no + 1) >= 1
      BY <2>1
    <3> QED BY <1>s, <2>1, <2>2, <2>4, <3>1, <3>2, VoteTruth
  <2> QED BY <1>3, <2>3, <2>4 DEF RunCandidate
<1>4. CASE CandidateFails
  BY <1>4, <1>e DEF CandidateFails
<1>5. CASE TempWriteFails
  BY <1>5, <1>e DEF TempWriteFails
<1>6. CASE Finish
  <2>1. phase' \in {"done", "aborted"} /\ phase = "save"
        /\ essential' = (IF strategy = "bisect" THEN enabled ELSE essential)
        /\ UNCHANGED <<strategy, oracle, race, on, enabled>>
    BY <1>6 DEF Finish
  <2>2. CASE phase' = "done"
    BY <1>s, <2>1, <2>2
       DEF Truth, SomePhase, Searching, LinearTried, ComplementsTried, BisectTried, Monotone
  <2> QED BY <1>e, <2>1, <2>2
<1>7. CASE UNCHANGED vars
  <2>1. \A k : Chunk(k)' = Chunk(k)
    BY <1>7 DEF vars, Chunk, ChunkSize, Size
  <2>2. Candidate' = Candidate
    BY <1>7, <2>1 DEF vars, Candidate, NextPoint
  <2>3. LinearTried' /\ ComplementsTried' /\ BisectTried'
    BY <1>7, <2>1 DEF vars, Truth, LinearTried, ComplementsTried, BisectTried, SomePhase, Monotone
  <2> QED BY <1>7, <1>s, <2>2, <2>3 DEF vars, Truth, SomePhase, Searching
<1>8. CASE Stopped
  BY <1>7, <1>8 DEF Stopped
<1> QED BY <1>1, <1>2, <1>3, <1>4, <1>5, <1>6, <1>7, <1>8 DEF Next

(* A target that does not contradict itself keeps not doing so, and what   *)
(* its answers have established stays established.                         *)
LEMMA HonestTruth == Spec => [](~flaky => Truth)
<1>1. Init => (~flaky => Truth)
  BY InitTruth
<1>2. (~flaky => Truth) /\ [Next]_vars => (~flaky => Truth)'
  <2> SUFFICES ASSUME ~flaky => Truth, [Next]_vars, ~flaky' PROVE Truth'
    OBVIOUS
  <2>1. flaky' = flaky
    BY DEF Next, vars, input, RejectEmpty, ValidateInitial, RunCandidate, CandidateFails,
           TempWriteFails, Finish, Stopped
  <2> QED BY <2>1, StepTruth
<1> QED BY <1>1, <1>2, PTL DEF Spec

(* With an oracle that does not contradict itself, what the reducer holds, *)
(* writes and reports triggers the race, for every race, every number of   *)
(* points and of confidence runs, and both strategies.                     *)
THEOREM ReductionTriggers ==
    Spec => []ResultTriggers
<1>1. (~flaky => Truth) => ResultTriggers
  <2> SUFFICES ASSUME ~flaky, Truth PROVE ResultTriggers
    BY DEF ResultTriggers
  <2> QED BY DEF Truth, Shape, SomePhase, ResultTriggers
<1> QED BY <1>1, HonestTruth, PTL

(* A bisection ends with a set from which no single point can be dropped,  *)
(* for every race (_ddmin).                                                *)
THEOREM BisectionIsOneMinimal ==
    Spec => []BisectOneMinimal
<1>1. (~flaky => Truth) => BisectOneMinimal
  BY DEF Truth, BisectTried, BisectOneMinimal
<1> QED BY <1>1, HonestTruth, PTL

(* The linear pass ends with a smallest configuration if the race is       *)
(* monotone (reduce_delay_points).                                         *)
THEOREM LinearIsMinimal ==
    Spec => []LinearMinimal
<1>1. (~flaky => Truth) => LinearMinimal
  <2> SUFFICES ASSUME Truth, phase = "done", strategy = "linear", oracle = "replay", Monotone,
                      NEW S \in SUBSET enabled, S \in race, S # enabled
               PROVE  FALSE
    BY DEF LinearMinimal
  <2>1. essential = enabled /\ enabled \subseteq on
    BY DEF Truth, Shape, TypeOK
  <2>2. PICK p \in enabled : p \notin S
    OBVIOUS
  <2>3. enabled \ {p} \notin race
    BY <2>1 DEF Truth, LinearTried, SomePhase
  <2>4. enabled \ {p} \in race
    BY <2>1, <2>2 DEF Monotone
  <2> QED BY <2>3, <2>4
<1> QED BY <1>1, HonestTruth, PTL


-----------------------------------------------------------------------------
(* Below, the search goes on: whatever the oracle answers, every step      *)
(* takes it further.                                                       *)

(* Of ddmin: there are two chunks or more, and the one under test exists.  *)
Granular ==
    /\ Shape
    /\ phase \in {"chunks", "complements"} => n >= 2 /\ i <= NumChunks

(* Division is what Python's // is on naturals.                            *)
LEMMA Quotient ==
    ASSUME NEW a \in Nat, NEW b \in Nat, b >= 1
    PROVE  a \div b \in Nat /\ b * (a \div b) <= a /\ a < b * (a \div b) + b
OBVIOUS

(* A quotient is known by its bounds.                                      *)
LEMMA QuotientOf ==
    ASSUME NEW a \in Nat, NEW b \in Nat, b >= 1, NEW k \in Nat, b * k <= a, a < b * k + b
    PROVE  a \div b = k
<1> DEFINE q == a \div b
<1>1. q \in Nat /\ b * q <= a /\ a < b * q + b
  BY Quotient
<1> HIDE DEF q
<1>2. ASSUME q >= k + 1 PROVE FALSE
  <2>1. b * q >= b * (k + 1) /\ b * (k + 1) = b * k + b
    BY <1>1, <1>2
  <2> QED BY <1>1, <2>1
<1>3. ASSUME k >= q + 1 PROVE FALSE
  <2>1. b * k >= b * (q + 1) /\ b * (q + 1) = b * q + b
    BY <1>1, <1>3
  <2> QED BY <1>1, <2>1
<1>4. q = k
  BY <1>1, <1>2, <1>3
<1> QED BY <1>4 DEF q

(* Every rank below the number of points is taken.                         *)
LEMMA RanksAreAll ==
    ASSUME NEW S, S \subseteq Points, NEW r \in Nat, r < Cardinality(S)
    PROVE  \E p \in S : Rank(S, p) = r
<1> DEFINE T == 0..(Cardinality(S) - 1)
           f == [p \in S |-> Rank(S, p)]
<1>1. Cardinality(S) \in Nat /\ S \subseteq Nat
  <2>1. Points \subseteq Nat
    BY ReducerAssumption DEF Points
  <2> QED BY <2>1, PointSets
<1>2. IsFiniteSet(T) /\ Cardinality(T) = Cardinality(S)
  <2>1. 0 \in Int /\ Cardinality(S) - 1 \in Int
    BY <1>1
  <2>2. /\ IsFiniteSet(T)
        /\ Cardinality(T) = IF 0 > Cardinality(S) - 1 THEN 0 ELSE (Cardinality(S) - 1) - 0 + 1
    BY <2>1, FS_Interval
  <2> QED BY <1>1, <2>2
<1>3. \A p \in S : Rank(S, p) \in T
  <2> TAKE p \in S
  <2>1. Rank(S, p) \in Nat /\ Rank(S, p) < Cardinality(S)
    BY RankBound
  <2> QED BY <1>1, <2>1
<1>4. \A p, q \in S : Rank(S, p) = Rank(S, q) => p = q
  <2> SUFFICES ASSUME NEW p \in S, NEW q \in S, p # q PROVE Rank(S, p) # Rank(S, q)
    OBVIOUS
  <2>1. Rank(S, p) \in Nat /\ Rank(S, q) \in Nat
    BY RankBound
  <2>2. p < q => Rank(S, p) < Rank(S, q)
    BY RankGrows
  <2>3. q < p => Rank(S, q) < Rank(S, p)
    BY RankGrows
  <2>4. p \in Nat /\ q \in Nat
    BY <1>1
  <2> QED BY <2>1, <2>2, <2>3, <2>4
<1>5. f \in Injection(S, T)
  BY <1>3, <1>4 DEF Injection, IsInjective
<1>6. f \in Surjection(S, T)
  <2> HIDE DEF f, T
  <2> QED BY <1>2, <1>5, FS_Injection
<1>7. r \in T
  BY <1>1
<1> QED BY <1>6, <1>7 DEF Surjection

(* Chunk sizes and counts of s points cut with granularity m (_ddmin).     *)
LEMMA ChunkArithmetic ==
    ASSUME NEW s \in Nat, NEW m \in Nat, 2 <= m, m <= s,
           NEW c, c = Max2(1, s \div m), NEW k, k = (s + c - 1) \div c
    PROVE  /\ c \in Nat /\ 1 <= c /\ c < s
           /\ k \in Nat /\ 1 <= k /\ c * (k - 1) < s
<1> DEFINE q == s \div m
<1>1. q \in Nat /\ m * q <= s
  BY Quotient
<1>2. m * q >= 2 * q
  <2> HIDE DEF q
  <2> QED BY <1>1
<1>3. q < s
  BY <1>1, <1>2
<1>4. c \in Nat /\ 1 <= c /\ c < s
  BY <1>1, <1>3 DEF Max2
<1>5. k \in Nat /\ c * k <= s + c - 1 /\ s + c - 1 < c * k + c
  <2>1. s + c - 1 \in Nat
    BY <1>4
  <2> QED BY <1>4, <2>1, Quotient
<1>6. c * (k - 1) = c * k - c
  BY <1>4, <1>5
<1>7. k # 0
  BY <1>4, <1>5
<1> QED BY <1>4, <1>5, <1>6, <1>7

(* A chunk under test is neither empty nor everything, so that ddmin goes  *)
(* on with fewer points when it, or its complement, triggers the race.     *)
LEMMA ChunkIsProper ==
    ASSUME Granular, phase \in {"chunks", "complements"}
    PROVE  Chunk(i) \subseteq enabled /\ Chunk(i) # {} /\ Chunk(i) # enabled
<1>1. /\ enabled \subseteq Points /\ Size \in Nat /\ n \in Nat /\ 2 <= n /\ n <= Size
      /\ i \in Nat /\ 1 <= i /\ i <= NumChunks
  BY PointSets DEF Granular, Shape, TypeOK, Size
<1>2. /\ ChunkSize \in Nat /\ 1 <= ChunkSize /\ ChunkSize < Size
      /\ NumChunks \in Nat /\ ChunkSize * (NumChunks - 1) < Size
  BY <1>1, ChunkArithmetic DEF ChunkSize, NumChunks
<1>3. ChunkSize * (i - 1) \in Nat /\ ChunkSize * (i - 1) < Size
  <2>1. ChunkSize * (i - 1) <= ChunkSize * (NumChunks - 1)
    BY <1>1, <1>2
  <2>2. ChunkSize * (i - 1) \in Nat /\ ChunkSize * (NumChunks - 1) \in Nat
    BY <1>1, <1>2
  <2> QED BY <1>1, <1>2, <2>1, <2>2
<1>4. PICK p \in enabled : Rank(enabled, p) = ChunkSize * (i - 1)
  BY <1>1, <1>3, RanksAreAll DEF Size
<1>5. p \in Chunk(i)
  <2>1. ChunkSize * (i - 1) < ChunkSize * (i - 1) + ChunkSize
    BY <1>2, <1>3
  <2>2. (ChunkSize * (i - 1)) \div ChunkSize = i - 1
    BY <1>1, <1>2, <1>3, <2>1, QuotientOf
  <2> QED BY <1>4, <2>2 DEF Chunk
<1>6. PICK a \in enabled : Rank(enabled, a) = 0
  <2>1. 0 < Size
    BY <1>1, <1>2
  <2> QED BY <1>1, <2>1, RanksAreAll DEF Size
<1>7. PICK b \in enabled : Rank(enabled, b) = ChunkSize
  BY <1>1, <1>2, RanksAreAll DEF Size
<1>8. 0 \div ChunkSize = 0 /\ ChunkSize \div ChunkSize = 1
  <2>1. ChunkSize * 0 = 0 /\ ChunkSize * 1 = ChunkSize
    BY <1>2
  <2>2. 0 \div ChunkSize = 0
    BY <1>2, <2>1, QuotientOf
  <2>3. ChunkSize \div ChunkSize = 1
    BY <1>2, <2>1, QuotientOf
  <2> QED BY <2>2, <2>3
<1>9. ~(a \in Chunk(i) /\ b \in Chunk(i))
  BY <1>1, <1>6, <1>7, <1>8 DEF Chunk
<1> QED BY <1>5, <1>6, <1>7, <1>9 DEF Chunk

(* Entering ddmin takes two chunks at least and starts with the first one. *)
LEMMA DdminGranular ==
    ASSUME Shape', NEW S, S \subseteq Points, NEW m \in Nat, 2 <= m, Ddmin(S, m)
    PROVE  Granular'
<1>1. Cardinality(S) \in Nat /\ Size' = Cardinality(S) /\ i' = 1
      /\ n' = Min2(m, Cardinality(S)) /\ phase' \in {"save", "chunks"}
  BY PointSets DEF Ddmin, Size
<1>2. ASSUME phase' = "chunks" PROVE n' >= 2 /\ i' <= NumChunks'
  <2>1. Cardinality(S) > 1
    BY <1>1, <1>2 DEF Ddmin
  <2>2. n' \in Nat /\ 2 <= n' /\ n' <= Size'
    BY <1>1, <2>1 DEF Min2
  <2>3. 1 <= NumChunks' /\ NumChunks' \in Nat
    BY <1>1, <2>2, ChunkArithmetic DEF NumChunks, ChunkSize
  <2> QED BY <1>1, <2>2, <2>3
<1> QED BY <1>1, <1>2 DEF Granular

(* A verdict takes the search further and leaves a chunk that exists.      *)
LEMMA DecideAdvances ==
    ASSUME Granular, Shape', Searching, NEW y \in Nat, NEW x \in Nat, Decide(y, x),
           UNCHANGED on
    PROVE  Granular' /\ Advance
<1>1. enabled \subseteq Points /\ on \subseteq Points /\ Size \in Nat /\ n \in Nat /\ i \in Nat
      /\ Shape /\ Stage = 1
  BY PointSets DEF Granular, Shape, TypeOK, Size, Searching, Stage, Ended
<1>s. ASSUME phase' = "save" PROVE Granular' /\ Advance
  <2>1. Stage' = 2
    BY <1>s DEF Stage, Ended
  <2>2. Stage' > Stage
    BY <1>1, <2>1
  <2> QED BY <1>s, <2>2 DEF Granular, Advance
<1>2. CASE phase = "linear" /\ LinearVerdict(Verdict(y))
  <2>1. NextPoint \in todo /\ enabled = essential \cup todo
    BY <1>1, <1>2, LeastPoint DEF Shape
  <2>2. phase' \in {"linear", "save"}
    BY <1>2 DEF LinearVerdict
  <2>3. CASE phase' = "save"
    BY <1>s, <2>3
  <2>4. CASE phase' = "linear"
    <3>1. Stage' = 1
      BY <2>4 DEF Stage, Ended
    <3>2. \/ enabled' \subseteq enabled /\ enabled' # enabled
          \/ enabled' = enabled /\ todo' \subseteq todo /\ todo' # todo
      BY <1>2, <2>1 DEF LinearVerdict
    <3> QED BY <1>1, <2>4, <3>1, <3>2 DEF Granular, Advance
  <2> QED BY <2>2, <2>3, <2>4
<1>3. ASSUME NEW S, S \subseteq enabled, S # enabled, NEW m \in Nat, 2 <= m, Ddmin(S, m)
      PROVE  Granular' /\ Advance
  <2>1. Granular'
    BY <1>1, <1>3, DdminGranular
  <2>2. enabled' = S /\ phase' \in {"save", "chunks"}
    BY <1>3 DEF Ddmin
  <2>3. Stage' \in {1, 2}
    BY <2>2 DEF Stage, Ended
  <2> QED BY <1>1, <1>3, <2>1, <2>2, <2>3 DEF Advance
<1>4. CASE phase = "chunks" /\ ChunkVerdict(Verdict(y))
  <2>1. Candidate = Chunk(i) /\ n >= 2 /\ i <= NumChunks
    BY <1>4 DEF Candidate, Granular
  <2>2. CASE Ddmin(Candidate, 2)
    BY <1>3, <1>4, <2>1, <2>2, ChunkIsProper
  <2>3. CASE /\ i' = IF i < NumChunks THEN i + 1 ELSE 1
             /\ phase' = IF i < NumChunks THEN "chunks" ELSE "complements"
             /\ UNCHANGED <<enabled, n, todo, essential>>
    <3>1. NumChunks' = NumChunks /\ NumChunks \in Nat /\ 1 <= NumChunks
      <4>1. n <= Size
        BY <1>1, <1>4 DEF Shape
      <4>2. NumChunks \in Nat /\ 1 <= NumChunks
        BY <1>1, <2>1, <4>1, ChunkArithmetic DEF NumChunks, ChunkSize
      <4> QED BY <2>3, <4>2 DEF NumChunks, ChunkSize, Size
    <3>2. n' >= 2 /\ i' <= NumChunks'
      BY <1>1, <2>1, <2>3, <3>1
    <3>3. Stage' = 1
      BY <2>3 DEF Stage, Ended
    <3>4. \/ phase' = "complements"
          \/ phase' = phase /\ i < i' /\ i' <= NumChunks
      BY <1>1, <1>4, <2>3, <3>1
    <3> QED BY <1>1, <1>4, <2>3, <3>2, <3>3, <3>4 DEF Granular, Advance
  <2> QED BY <1>4, <2>2, <2>3 DEF ChunkVerdict
<1>5. CASE phase = "complements" /\ ComplementVerdict(Verdict(y))
  <2>1. Candidate = enabled \ Chunk(i) /\ n >= 2 /\ n <= Size /\ i <= NumChunks
    BY <1>1, <1>5 DEF Candidate, Granular, Shape
  <2>2. NumChunks \in Nat
    BY <1>1, <2>1, ChunkArithmetic DEF NumChunks, ChunkSize
  <2>3. CASE Ddmin(Candidate, Max2(n - 1, 2))
    <3>1. Max2(n - 1, 2) \in Nat /\ 2 <= Max2(n - 1, 2)
      BY <1>1, <2>1 DEF Max2
    <3>2. Candidate \subseteq enabled /\ Candidate # enabled
      BY <1>5, <2>1, ChunkIsProper
    <3> QED BY <1>3, <2>3, <3>1, <3>2
  <2>4. CASE i < NumChunks /\ i' = i + 1 /\ UNCHANGED <<phase, enabled, n, todo, essential>>
    <3>1. NumChunks' = NumChunks /\ Stage' = 1
      BY <1>1, <2>4 DEF NumChunks, ChunkSize, Size, Stage, Ended
    <3>2. i < i' /\ i' <= NumChunks
      BY <1>1, <2>2, <2>4
    <3> QED BY <1>1, <2>1, <2>4, <3>1, <3>2 DEF Granular, Advance
  <2>5. CASE CanRefine /\ Ddmin(enabled, Finer)
    <3>1. Finer \in Nat /\ 2 <= Finer /\ n < Finer /\ Finer <= Size
      BY <1>1, <2>1, <2>5 DEF CanRefine, Finer, Min2
    <3>2. Granular'
      BY <1>1, <2>5, <3>1, DdminGranular
    <3>3. enabled' = enabled /\ todo' = todo /\ n' = Finer /\ phase' \in {"save", "chunks"}
      BY <1>1, <2>5, <3>1 DEF Ddmin, Size, Min2
    <3>4. Stage' \in {1, 2}
      BY <3>3 DEF Stage, Ended
    <3> QED BY <1>1, <3>1, <3>2, <3>3, <3>4 DEF Advance
  <2>6. CASE phase' = "save"
    BY <1>s, <2>6
  <2> QED BY <1>5, <2>3, <2>4, <2>5, <2>6 DEF ComplementVerdict
<1> QED BY <1>2, <1>4, <1>5 DEF Decide

(* Every step of the reducer advances.                                     *)
LEMMA StepAdvances ==
    ASSUME Granular, [Next]_vars
    PROVE  Granular' /\ [Advance]_vars
<1>s. Shape /\ Shape'
  BY StepShape DEF Granular
<1>e. ASSUME Stage' > Stage, phase' \notin {"chunks", "complements"}
      PROVE  Granular' /\ Advance
  BY <1>s, <1>e DEF Granular, Advance
<1>1. CASE RejectEmpty
  BY <1>1, <1>e DEF RejectEmpty, Stage, Ended
<1>2. CASE ValidateInitial
  <2>1. phase = "validate" /\ Stage = 0 /\ on \subseteq Points
    BY <1>2, <1>s DEF ValidateInitial, Stage, Ended, Shape, TypeOK
  <2>2. \/ phase' \in {"linear", "rejected", "aborted"}
        \/ Ddmin(on, 2)
    BY <1>2 DEF ValidateInitial, StartPoints
  <2>3. CASE phase' \in {"linear", "rejected", "aborted"}
    BY <1>e, <2>1, <2>3 DEF Stage, Ended
  <2>4. CASE Ddmin(on, 2)
    <3>1. Granular'
      BY <1>s, <2>1, <2>4, DdminGranular
    <3>2. phase' \in {"save", "chunks"}
      BY <2>4 DEF Ddmin
    <3>3. Stage' \in {1, 2}
      BY <3>2 DEF Stage, Ended
    <3> QED BY <2>1, <3>1, <3>3 DEF Advance
  <2> QED BY <2>2, <2>3, <2>4
<1>3. CASE RunCandidate
  <2>1. Searching /\ UNCHANGED on /\ yes \in Nat /\ no \in Nat
    BY <1>3, <1>s DEF RunCandidate, Searching, input, Shape, TypeOK
  <2>2. PICK y \in Nat, x \in Nat : y + x = yes + no + 1 /\ (KeepVoting(y, x) \/ Decide(y, x))
    BY <1>3, <2>1 DEF RunCandidate
  <2>3. CASE KeepVoting(y, x)
    <3>1. UNCHANGED <<phase, enabled, n, todo, i>> /\ yes' = y /\ no' = x
      BY <2>3 DEF KeepVoting
    <3>2. yes + no < yes' + no' /\ yes' + no' < Max2(ConfidenceRuns, 1)
      BY <2>1, <2>2, <2>3, <3>1, ReducerAssumption DEF KeepVoting, Decided, Max2
    <3>3. Stage = 1 /\ Stage' = 1
      BY <2>1, <3>1 DEF Searching, Stage, Ended
    <3>4. NumChunks' = NumChunks
      BY <3>1 DEF NumChunks, ChunkSize, Size
    <3> QED BY <1>s, <3>1, <3>2, <3>3, <3>4 DEF Granular, Advance
  <2>4. CASE Decide(y, x)
    BY <1>s, <2>1, <2>4, DecideAdvances
  <2> QED BY <2>2, <2>3, <2>4
<1>4. CASE CandidateFails
  BY <1>4, <1>e DEF CandidateFails, Stage, Ended
<1>5. CASE TempWriteFails
  BY <1>5, <1>e DEF TempWriteFails, Stage, Ended
<1>6. CASE Finish
  BY <1>6, <1>e DEF Finish, Stage, Ended
<1>7. CASE UNCHANGED vars
  BY <1>7, <1>s DEF vars, Granular, NumChunks, ChunkSize, Size
<1>8. CASE Stopped
  BY <1>7, <1>8 DEF Stopped
<1> QED BY <1>1, <1>2, <1>3, <1>4, <1>5, <1>6, <1>7, <1>8 DEF Next

(* Neither strategy repeats itself, for any number of points and whatever  *)
(* the oracle answers: every step of reduce_delay_points and of _ddmin     *)
(* descends in a ranking that is bounded for a given configuration.        *)
THEOREM SearchesAdvance == Spec => SearchAdvances
<1>1. Init => Granular
  BY InitShape DEF Init, Granular
<1>2. Granular /\ [Next]_vars => Granular' /\ [Advance]_vars
  BY StepAdvances
<1> QED BY <1>1, <1>2, PTL DEF Spec, SearchAdvances

-----------------------------------------------------------------------------
(* Below, the service's experiment around the reducer.                     *)

Reasons == Flaws \cup {"no enabled points", "OSError", "does not trigger",
                       "infra_error", "timed_out", "stale_input"}

(* The answers of the experiment: a failure with its reason, which is that *)
(* the race did not show only if a replay said so, or what was reduced.    *)
FailedFor(what) ==
    /\ answer = Failed(what)
    /\ what = "does not trigger" =>
         flaws = {} /\ phase = "rejected" /\ "not_interesting" \in Outcomes(on)

ReducedTo ==
    /\ answer = [outcome |-> "REDUCED", status |-> "SUCCEEDED", error |-> FALSE,
                 report |-> TRUE, minimized |-> saved, points |-> essential]
    /\ phase = "done" /\ saved # NoConfig /\ flaws = {}

(* An answer is one of these, and nothing follows it.                      *)
Answered ==
    /\ Shape /\ (~flaky => Truth)
    /\ flaws \subseteq Flaws
    /\ (Service /\ phase = "done") => saved # NoConfig /\ flaws = {}
    /\ answer # NoAnswer =>
         /\ Service
         /\ phase \in Ended \/ flaws # {} \/ on = {}
         /\ (\E what \in Reasons : FailedFor(what)) \/ ReducedTo

(* A replay or a script has no other outcome than these.                   *)
LEMMA OutcomesKnown ==
    ASSUME NEW c
    PROVE  Outcomes(c) \subseteq Answers \cup {"infra_error", "timed_out", "stale_input"}
<1>1. ASSUME NEW r \in Replays
      PROVE  /\ ReplayOutcome(r) \in Answers \cup {"infra_error", "timed_out", "stale_input"}
             /\ ScriptOutcome(r) \in Answers
  <2>1. KernelIdentity(r) \in {"ok", "infra_error", "stale_input"}
    BY DEF KernelIdentity
  <2>2. r.end \in {"zero", "expected", "unexpected", "timeout", "not_started"}
    BY DEF Replays
  <2> QED BY <2>1, <2>2 DEF ReplayOutcome, ScriptOutcome, Answers
<1> QED BY <1>1 DEF Outcomes

(* The input is refused for one of its flaws, the first one found.         *)
LEMMA FirstFlawIsOne ==
    ASSUME flaws \subseteq Flaws, flaws # {}
    PROVE  FirstFlaw \in flaws
<1> DEFINE K == {k \in DOMAIN Checks : Checks[k] \in flaws}
<1>1. DOMAIN Checks = 1..9
  BY DEF Checks
<1>2. K \subseteq Nat /\ K # {}
  BY <1>1 DEF Flaws
<1>3. \E x \in K : \A y \in K : ~(<<y, x>> \in OpToRel(<, Nat))
  BY <1>2, NatLessThanWellFounded, WFMin
<1>4. PICK x \in K : \A y \in K : ~(<<y, x>> \in OpToRel(<, Nat))
  BY <1>3
<1>5. \A y \in K : x <= y
  <2> TAKE y \in K
  <2>1. x \in Nat /\ y \in Nat
    BY <1>2
  <2>2. ~(y < x)
    BY <1>4, <2>1 DEF OpToRel
  <2> QED BY <2>1, <2>2
<1>6. \E k \in DOMAIN Checks :
         /\ Checks[k] \in flaws
         /\ \A j \in DOMAIN Checks : Checks[j] \in flaws => k <= j
  BY <1>5
<1> QED BY <1>6 DEF FirstFlaw

(* No flaw of the input is a verdict on the race.                          *)
LEMMA FlawsAreOther == "does not trigger" \notin Flaws
<1>1. DOMAIN Checks = 1..9
  BY DEF Checks
<1>2. ASSUME NEW k \in 1..9 PROVE Checks[k] # "does not trigger"
  <2>1. k = 1 \/ k = 2 \/ k = 3 \/ k = 4 \/ k = 5 \/ k = 6 \/ k = 7 \/ k = 8 \/ k = 9
    OBVIOUS
  <2>2. /\ Checks[1] = "identity" /\ Checks[2] = "materialization" /\ Checks[3] = "integrity"
        /\ Checks[4] = "active runtime" /\ Checks[5] = "trigger runtime"
        /\ Checks[6] = "other runtime" /\ Checks[7] = "other kernel"
        /\ Checks[8] = "no checksum" /\ Checks[9] = "malformed"
    BY DEF Checks
  <2> QED BY <2>1, <2>2
<1> QED BY <1>1, <1>2 DEF Flaws

(* A step of the experiment is one of the reducer, or none.                *)
LEMMA ExperimentStep ==
    ASSUME [ReduceNext]_rvars
    PROVE  [Next]_vars /\ UNCHANGED <<flaws, flaky, oracle, race, on>>
<1>1. [Next]_vars /\ UNCHANGED flaws
  BY DEF ReduceNext, rvars, RefuseInput, Reduce, PublishReduction, Over
<1> QED BY <1>1 DEF Next, vars, input, RejectEmpty, ValidateInitial, RunCandidate,
           CandidateFails, TempWriteFails, Finish, Stopped

(* The experiment starts without an answer.                                *)
LEMMA InitAnswered == ReduceInit => Answered
<1> SUFFICES ASSUME ReduceInit PROVE Answered
  OBVIOUS
<1>1. Shape /\ Truth /\ phase = "validate" /\ answer = NoAnswer
  BY InitShape, InitTruth DEF ReduceInit, Init
<1>2. flaws \subseteq Flaws
  BY DEF ReduceInit
<1> QED BY <1>1, <1>2 DEF Answered

(* Every step of the experiment keeps its answer one of the two.           *)
LEMMA StepAnswered ==
    ASSUME Answered, [ReduceNext]_rvars
    PROVE  Answered'
<1>0. [Next]_vars /\ UNCHANGED <<flaws, flaky, oracle, race, on>>
  BY ExperimentStep
<1>1. Shape' /\ (~flaky' => Truth')
  BY <1>0, StepShape, StepTruth DEF Answered
<1>2. Outcomes(on)' = Outcomes(on) /\ Service' = Service /\ (flaws \subseteq Flaws)'
  BY <1>0 DEF Outcomes, Service, Answered, Faithful
<1>3. CASE UNCHANGED rvars
  <2>1. UNCHANGED <<answer, flaws, on, phase, saved, essential>>
    BY <1>3 DEF rvars, vars
  <2>2. \A what : FailedFor(what) => FailedFor(what)'
    BY <1>2, <2>1 DEF FailedFor
  <2>3. ReducedTo => ReducedTo'
    BY <2>1 DEF ReducedTo
  <2> QED BY <1>1, <1>2, <2>1, <2>2, <2>3 DEF Answered
<1>4. CASE RefuseInput
  <2>1. /\ Service /\ phase = "validate" /\ UNCHANGED <<flaws, on, phase>>
        /\ flaws # {} \/ on = {}
    BY <1>4 DEF RefuseInput, vars
  <2>2. PICK what \in Reasons \ {"does not trigger"} : answer' = Failed(what)
    <3>1. CASE flaws # {}
      <4>1. FirstFlaw \in Flaws /\ answer' = Failed(FirstFlaw)
        BY <1>4, <3>1, FirstFlawIsOne DEF RefuseInput, Answered
      <4> QED BY <4>1, FlawsAreOther DEF Reasons
    <3>2. CASE flaws = {}
      <4>1. answer' = Failed("no enabled points")
        BY <1>4, <3>2 DEF RefuseInput
      <4>2. "no enabled points" \in Reasons \ {"does not trigger"}
        BY DEF Reasons
      <4> QED BY <4>1, <4>2
    <3> QED BY <3>1, <3>2
  <2>3. FailedFor(what)'
    BY <2>2 DEF FailedFor, Failed
  <2> QED BY <1>1, <1>2, <2>1, <2>2, <2>3 DEF Answered
<1>5. CASE Reduce
  <2>1. /\ phase \notin Ended /\ flaws = {} /\ (Service => on # {}) /\ Next
        /\ (Service /\ phase' = "done") => saved' # NoConfig
    BY <1>5 DEF Reduce
  <2>2. answer = NoAnswer
    BY <2>1 DEF Answered
  <2>3. CASE UNCHANGED answer
    BY <1>0, <1>1, <1>2, <2>1, <2>2, <2>3 DEF Answered
  <2>4. CASE Service /\ phase' \in {"aborted", "rejected"} /\ answer' # answer
    <3>1. PICK what \in Causes : answer' = Failed(what)
      BY <1>5, <2>4 DEF Reduce
    <3>2. CASE phase' = "rejected"
      <4>1. ValidateInitial
        <5>1. ~RunCandidate
          BY <3>2 DEF RunCandidate, Decide, KeepVoting, LinearVerdict, ChunkVerdict,
                      ComplementVerdict, Ddmin
        <5> QED BY <2>1, <2>4, <3>2, <5>1
                DEF Next, RejectEmpty, CandidateFails, TempWriteFails, Finish, Stopped
      <4>2. what = "does not trigger"
        BY <3>1, <3>2, <4>1 DEF Causes, ValidateInitial
      <4>3. "not_interesting" \in Outcomes(on)
        BY <3>2, <4>1 DEF ValidateInitial, Ddmin, Answers
      <4>4. FailedFor(what)'
        BY <1>0, <1>2, <2>1, <3>1, <3>2, <4>3 DEF FailedFor, Failed
      <4>5. what \in Reasons /\ phase' \in Ended
        BY <3>2, <4>2 DEF Reasons, Ended
      <4> QED BY <1>1, <1>2, <2>4, <3>2, <4>4, <4>5 DEF Answered
    <3>3. CASE phase' = "aborted"
      <4>1. what \in {"OSError", "infra_error", "timed_out", "stale_input"}
        <5>1. Causes \subseteq {"OSError"} \cup (Outcomes(on) \ Answers)
                             \cup (Outcomes(Candidate) \ Answers)
          BY <3>3 DEF Causes
        <5> QED BY <3>1, <5>1, OutcomesKnown
      <4>2. FailedFor(what)'
        BY <3>1, <4>1 DEF FailedFor, Failed
      <4>3. what \in Reasons /\ phase' \in Ended
        BY <3>3, <4>1 DEF Reasons, Ended
      <4> QED BY <1>1, <1>2, <2>4, <3>3, <4>2, <4>3 DEF Answered
    <3> QED BY <2>4, <3>2, <3>3
  <2> QED BY <1>5, <2>3, <2>4 DEF Reduce
<1>6. CASE PublishReduction
  <2>1. /\ Service /\ phase = "done" /\ answer = NoAnswer
        /\ UNCHANGED <<flaws, on, phase, saved, essential>>
    BY <1>6 DEF PublishReduction, vars
  <2>2. CASE answer' = Failed("OSError")
    <3>1. FailedFor("OSError")'
      BY <2>2 DEF FailedFor, Failed
    <3>2. "OSError" \in Reasons /\ phase' \in Ended
      BY <2>1 DEF Reasons, Ended
    <3> QED BY <1>1, <1>2, <2>1, <3>1, <3>2 DEF Answered
  <2>3. CASE answer' = [outcome |-> "REDUCED", status |-> "SUCCEEDED", error |-> FALSE,
                        report |-> TRUE, minimized |-> saved, points |-> essential]
    <3>1. saved # NoConfig /\ flaws = {}
      BY <2>1 DEF Answered
    <3>2. ReducedTo'
      BY <2>1, <2>3, <3>1 DEF ReducedTo
    <3>3. phase' \in Ended
      BY <2>1 DEF Ended
    <3> QED BY <1>1, <1>2, <2>1, <3>1, <3>2, <3>3 DEF Answered
  <2> QED BY <1>6, <2>2, <2>3 DEF PublishReduction
<1> QED BY <1>3, <1>4, <1>5, <1>6 DEF ReduceNext, Over

(* The session accepts every answer of a reduction, a configuration is     *)
(* called non-reproducible only after a replay of it that ran to its end   *)
(* without the race, and a reduced one is what was written and triggers    *)
(* the race (run_reduce_experiment, classify_reduction_failure,            *)
(* _validate_reduce_result); for every race, every input and every         *)
(* sequence of failures.                                                   *)
THEOREM VerdictsAreEarned == ReduceSpec => []ReductionVerdict
<1>1. Answered => ReductionVerdict
  <2> SUFFICES ASSUME Answered, answer # NoAnswer
               PROVE  /\ AcceptsReduction(answer)
                      /\ answer.outcome = "NON_REPRODUCIBLE" =>
                           /\ flaws = {} /\ phase = "rejected"
                           /\ "not_interesting" \in Outcomes(on)
                      /\ answer.outcome = "REDUCED" =>
                           /\ answer.minimized.enabled = answer.points
                           /\ ~flaky => answer.points \in race
                           /\ flaws = {}
    BY DEF ReductionVerdict
  <2>1. CASE \E what \in Reasons : FailedFor(what)
    <3>1. PICK what \in Reasons : FailedFor(what)
      BY <2>1
    <3>2. Classify(what) \in {<<"INFRA_ERROR", "INFRA_ERROR">>, <<"INFRA_ERROR", "TIMED_OUT">>,
                              <<"NON_REPRODUCIBLE", "FAILED">>, <<"STALE_INPUT", "FAILED">>}
          /\ (Classify(what)[1] = "NON_REPRODUCIBLE" => what = "does not trigger")
      BY DEF Classify
    <3>3. /\ answer.outcome = Classify(what)[1] /\ answer.status = Classify(what)[2]
          /\ answer.minimized = NoConfig /\ answer.points = {}
          /\ answer.report = FALSE
      BY <3>1 DEF FailedFor, Failed
    <3>4. /\ answer.outcome \in {"INFRA_ERROR", "NON_REPRODUCIBLE", "STALE_INPUT"}
          /\ answer.status \in IF answer.outcome = "INFRA_ERROR"
                               THEN {"INFRA_ERROR", "TIMED_OUT"} ELSE {"FAILED"}
      <4>1. ASSUME NEW a, NEW b, Classify(what) = <<a, b>>
            PROVE  answer.outcome = a /\ answer.status = b
        <5>1. Classify(what)[1] = a /\ Classify(what)[2] = b
          BY <4>1
        <5> QED BY <3>3, <5>1
      <4>2. \/ answer.outcome = "INFRA_ERROR" /\ answer.status \in {"INFRA_ERROR", "TIMED_OUT"}
            \/ answer.outcome \in {"NON_REPRODUCIBLE", "STALE_INPUT"} /\ answer.status = "FAILED"
        BY <3>2, <4>1
      <4> QED BY <4>2
    <3> QED BY <3>1, <3>2, <3>3, <3>4 DEF FailedFor, AcceptsReduction
  <2>2. CASE ReducedTo
    <3>1. saved.enabled = enabled /\ essential = enabled /\ (~flaky => enabled \in race)
      BY <2>2 DEF ReducedTo, Answered, Shape, Truth, SomePhase
    <3> QED BY <2>2, <3>1 DEF ReducedTo, AcceptsReduction
  <2> QED BY <2>1, <2>2 DEF Answered
<1>2. Answered /\ [ReduceNext]_rvars => Answered'
  BY StepAnswered
<1> QED BY <1>1, <1>2, InitAnswered, PTL DEF ReduceSpec
=============================================================================
