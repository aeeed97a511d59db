------------------------ MODULE StressCampaignProofs ------------------------
(***************************************************************************)
(* For any plan, any number of control runs, worker deaths and failing     *)
(* operations: the log explains the progress that was saved, a verdict     *)
(* rests on what was published, and the session accepts it.                *)
(***************************************************************************)
EXTENDS StressCampaign, FiniteSetTheorems, SequenceTheorems, TLAPS

Kinds == {"clean", "hit", "unattributed", "infra", "timeout"}
Trials == [pos : Nat, kind : Kinds]
Counters == [completed : Nat, repro : Nat, infra : Nat, timed : Nat, unattr : Nat]
Progress == [counts : Counters, log : Nat, trig : Nat, tally : Nat \X Nat]
Rounds == [log : Nat, trig : Nat, tally : Nat \X Nat, failed : BOOLEAN]
ControlRuns == {"repro", "timeout", "clean", "infra"}

\* Counters and a trigger a campaign may stand at.
Fits(c, t) ==
    /\ c \in Counters /\ t \in Nat
    /\ Attempted(c) <= Planned
    /\ c.repro + c.unattr <= c.completed
    /\ t # 0 <=> c.repro > 0

CountsOf(s) ==
    [completed |-> Shown(s, {"clean", "hit", "unattributed"}),
     repro |-> Shown(s, {"hit"}), infra |-> Shown(s, {"infra"}),
     timed |-> Shown(s, {"timeout"}), unattr |-> Shown(s, {"unattributed"})]

\* t is the position of the first hit of s, or 0.
FirstIs(s, t) ==
    /\ t = 0 => \A k \in DOMAIN s : s[k].kind # "hit"
    /\ t # 0 => /\ t \in DOMAIN s /\ s[t].kind = "hit"
                /\ \A k \in 1..t - 1 : s[k].kind # "hit"

\* The log s, of a campaign that stops at its first hit or not, accounts for
\* the counters and the trigger.
Accounts(stop, s, c, t) ==
    /\ s \in Seq(Trials)
    /\ \A k \in DOMAIN s : s[k].pos = k
    /\ stop => \A k \in DOMAIN s : s[k].kind = "hit" => k = Len(s)
    /\ c = CountsOf(s)
    /\ FirstIs(s, t)
    /\ Fits(c, t)
    /\ Attempted(c) = Len(s)

\* The first n trials of two logs are the same.
Agree(s, r, n) == n <= Len(s) /\ n <= Len(r) /\ \A k \in 1..n : s[k] = r[k]

-----------------------------------------------------------------------------
(* The inductive invariant.                                                *)

Busy == {"search", "log", "publish", "trigger", "adapt", "callback", "recover", "classify"}
Phases == Busy \cup {"idle", "control", "ended", "failed"}

CampaignType ==
    /\ service \in BOOLEAN /\ stopOnFirst \in BOOLEAN
    /\ phase \in Phases /\ hasLog \in BOOLEAN /\ closing \in BOOLEAN
    /\ counts \in Counters /\ trig \in Nat
    /\ log \in Seq(Trials) /\ pub \in Seq(Trials)
    /\ fresh \in Rounds
    /\ arm \in Seq(ControlRuns)
    /\ saved \in Progress \cup {None} /\ latest \in Progress \cup {None}

\* A progress that a worker can resume from.
Durable(stop, published, trigs, q) ==
    /\ q.log <= Len(published)
    /\ Accounts(stop, SubSeq(published, 1, q.log), q.counts, q.trig)
    /\ q.trig # 0 => q.trig \in trigs /\ q.tally = Tally(q.counts)

SavedIsDurable == saved # None => Durable(stopOnFirst, pub, pubTrigs, saved)

\* The command line has no progress; the service has no control arm.
WhoRuns ==
    /\ service => arm = <<>> /\ phase \notin {"control", "failed"}
    /\ ~service => /\ saved = None /\ latest = None
                   /\ phase \in {"idle", "control", "search", "log", "ended", "failed"}
                   /\ (phase \in {"search", "log", "ended"}) => Len(arm) = BaselineRuns
                   /\ phase = "control" => Len(arm) < BaselineRuns

\* What the worker counted, and the log that shows it.
WorkerCounts ==
    /\ phase \in Busy => Fits(counts, trig)
    /\ phase = "control" => counts = Zero /\ trig = 0 /\ log = <<>>
    /\ phase = "search" => Accounts(stopOnFirst, log, counts, trig)
    /\ phase = "log" => /\ trial \in Trials
                        /\ Accounts(stopOnFirst, Append(log, trial), counts, trig)
    /\ (phase \in {"publish", "trigger", "adapt", "classify"} /\ hasLog) =>
           Accounts(stopOnFirst, log, counts, trig)

\* The last report, while the worker goes on from it.
FromSaved ==
    /\ phase \in {"search", "log", "publish", "trigger", "adapt", "classify"} => latest = saved
    /\ (phase \in Busy /\ saved # None) =>
           /\ Agree(log, pub, saved.log)
           /\ saved.trig # 0 => trig = saved.trig
    /\ (service /\ (phase = "search" \/ (closing /\ phase \in Busy))) =>
           IF saved = None THEN counts = Zero
           ELSE counts = saved.counts /\ trig = saved.trig
    /\ (closing /\ service) => saved # None
    /\ (stopOnFirst /\ saved # None /\
        (phase = "log" \/ (~closing /\ phase \in {"publish", "trigger", "adapt"}))) =>
           saved.trig = 0

\* Where a round of publication is, and what it published.
RoundSoFar ==
    /\ phase \in {"control", "search", "log", "adapt", "callback", "recover"} => ~closing
    /\ phase = "classify" => closing
    /\ (phase \in {"trigger", "adapt", "callback", "recover"} /\ ~closing) => core = counts
    /\ phase = "trigger" => fresh.trig = 0 /\ fresh.tally = NoTally
    /\ phase \in {"trigger", "adapt", "classify"} =>
           /\ fresh.log # 0 \/ ~fresh.failed => hasLog /\ pub = log /\ fresh.log = Len(log)
           /\ fresh.trig \in {0, trig}
           /\ fresh.trig # 0 => trig \in pubTrigs /\ fresh.tally = Tally(counts)
    /\ (phase \in {"adapt", "classify"} /\ ~fresh.failed) => fresh.trig = trig
    /\ phase = "callback" => /\ latest # None /\ Durable(stopOnFirst, pub, pubTrigs, latest)
                             /\ latest.counts = counts /\ latest.trig = trig
                             /\ pub = log /\ latest.log = Len(log)
    /\ phase = "recover" =>
           /\ latest # None
           /\ latest.trig # 0 => latest.trig = trig /\ trig \in pubTrigs
           /\ (stopOnFirst /\ latest.trig # 0) => latest.tally = Tally(counts)
           /\ (saved # None /\ saved.trig # 0) => latest.trig = saved.trig

CampaignInv ==
    /\ CampaignType /\ SavedIsDurable /\ WhoRuns /\ WorkerCounts /\ FromSaved /\ RoundSoFar
    /\ result # None => phase = "ended"
    /\ VerdictIsEarned /\ StressAccepted

-----------------------------------------------------------------------------
(* What a log shows.                                                       *)

LEMMA KindsAre == \A r \in Runs : AttemptKind(r) \in Kinds
BY DEF Runs, AttemptKind, Kinds

LEMMA NoneIsNoRecord ==
    /\ \A q \in Progress : q # None
    /\ \A c \in Counters : c # None
<1>1. DOMAIN None = {"none"}
  BY DEF None
<1>2. \A q \in Progress : DOMAIN q = {"counts", "log", "trig", "tally"}
  BY DEF Progress
<1>3. \A c \in Counters : DOMAIN c = {"completed", "repro", "infra", "timed", "unattr"}
  BY DEF Counters
<1> QED BY <1>1, <1>2, <1>3

LEMMA ShownIsNat ==
    ASSUME NEW s \in Seq(Trials), NEW K
    PROVE  /\ IsFiniteSet({k \in DOMAIN s : s[k].kind \in K})
           /\ Shown(s, K) \in Nat
           /\ Shown(s, K) = 0 <=> \A k \in DOMAIN s : s[k].kind \notin K
<1> DEFINE S == {k \in DOMAIN s : s[k].kind \in K}
<1>1. DOMAIN s = 1..Len(s) /\ Len(s) \in Nat
  OBVIOUS
<1>2. IsFiniteSet(1..Len(s))
  BY <1>1, FS_Interval
<1>3. IsFiniteSet(S)
  BY <1>1, <1>2, FS_Subset
<1>4. Cardinality(S) \in Nat /\ (Cardinality(S) = 0 <=> S = {})
  BY <1>3, FS_CardinalityType, FS_EmptySet
<1> QED BY <1>3, <1>4 DEF Shown

LEMMA ShownOfEmpty == \A K : Shown(<<>>, K) = 0
<1> SUFFICES ASSUME NEW K PROVE Shown(<<>>, K) = 0
  OBVIOUS
<1>1. <<>> \in Seq(Trials) /\ \A k \in DOMAIN <<>> : <<>>[k].kind \notin K
  OBVIOUS
<1> QED BY <1>1, ShownIsNat

LEMMA ShownOfAppend ==
    ASSUME NEW s \in Seq(Trials), NEW e \in Trials, NEW K
    PROVE  Shown(Append(s, e), K) = Shown(s, K) + (IF e.kind \in K THEN 1 ELSE 0)
<1> DEFINE r == Append(s, e)
           S == {k \in DOMAIN s : s[k].kind \in K}
           R == {k \in DOMAIN r : r[k].kind \in K}
           n == Len(s) + 1
<1>1. /\ Len(s) \in Nat /\ DOMAIN s = 1..Len(s) /\ DOMAIN r = 1..n
      /\ r[n] = e /\ \A k \in 1..Len(s) : r[k] = s[k]
  OBVIOUS
<1>2. IsFiniteSet(S) /\ Cardinality(S) \in Nat
  BY ShownIsNat DEF Shown
<1>3. n \notin S
  BY <1>1
<1>6. Shown(r, K) = Cardinality(R) /\ Shown(s, K) = Cardinality(S)
  BY DEF Shown
<1>4. CASE e.kind \in K
  <2>1. R = S \cup {n}
    BY <1>1, <1>4
  <2>2. Cardinality(R) = Cardinality(S) + 1
    BY <2>1, <1>2, <1>3, FS_AddElement
  <2> QED BY <2>2, <1>4, <1>6
<1>5. CASE e.kind \notin K
  <2>1. R = S
    BY <1>1, <1>5
  <2> HIDE DEF R, S
  <2> QED BY <2>1, <1>5, <1>2, <1>6
<1> QED BY <1>4, <1>5

LEMMA CountsOfAppend ==
    ASSUME NEW s \in Seq(Trials), NEW e \in Trials
    PROVE  CountsOf(Append(s, e)) = Counted(CountsOf(s), e.kind)
<1>1. \A K : Shown(Append(s, e), K) = Shown(s, K) + (IF e.kind \in K THEN 1 ELSE 0)
  BY ShownOfAppend
<1>2. Shown(Append(s, e), {"clean", "hit", "unattributed"})
      = Shown(s, {"clean", "hit", "unattributed"})
        + (IF e.kind \in {"clean", "hit", "unattributed"} THEN 1 ELSE 0)
  BY <1>1
<1>3. \A x : Shown(Append(s, e), {x}) = Shown(s, {x}) + (IF e.kind = x THEN 1 ELSE 0)
  <2> SUFFICES ASSUME NEW x
               PROVE  Shown(Append(s, e), {x}) = Shown(s, {x}) + (IF e.kind = x THEN 1 ELSE 0)
    OBVIOUS
  <2>1. e.kind \in {x} <=> e.kind = x
    OBVIOUS
  <2> QED BY <1>1, <2>1
<1> HIDE DEF Shown
<1> QED BY <1>2, <1>3 DEF CountsOf, Counted

\* The empty log accounts for a campaign that has not begun.
LEMMA AccountsEmpty ==
    ASSUME NEW stop \in BOOLEAN
    PROVE  Accounts(stop, <<>>, Zero, 0)
<1>1. CountsOf(<<>>) = Zero
  BY ShownOfEmpty DEF CountsOf, Zero
<1>2. Fits(Zero, 0) /\ Attempted(Zero) = 0
  BY CampaignAssumption DEF Fits, Zero, Attempted, Counters
<1> QED BY <1>1, <1>2 DEF Accounts, FirstIs

\* The counters, the trigger and the log move together: _run_attempt counts
\* the trial that _write_stress_log then appends.
LEMMA AccountsAppend ==
    ASSUME NEW stop \in BOOLEAN, NEW s, NEW c, NEW t, NEW kind \in Kinds,
           Accounts(stop, s, c, t), Attempted(c) < Planned, stop => t = 0
    PROVE  LET e == [pos |-> Attempted(c) + 1, kind |-> kind]
               u == IF kind = "hit" /\ t = 0 THEN Attempted(c) + 1 ELSE t
           IN  /\ e \in Trials
               /\ Accounts(stop, Append(s, e), Counted(c, kind), u)
<1> DEFINE e == [pos |-> Attempted(c) + 1, kind |-> kind]
           u == IF kind = "hit" /\ t = 0 THEN Attempted(c) + 1 ELSE t
           r == Append(s, e)
           d == Counted(c, kind)
<1>1. s \in Seq(Trials) /\ Attempted(c) = Len(s) /\ Len(s) \in Nat /\ DOMAIN s = 1..Len(s)
  BY DEF Accounts
<1>2. e \in Trials /\ e.kind = kind /\ e.pos = Len(s) + 1
  BY <1>1 DEF Trials
<1>3. /\ r \in Seq(Trials) /\ Len(r) = Len(s) + 1 /\ DOMAIN r = 1..Len(s) + 1
      /\ r[Len(s) + 1] = e /\ \A k \in 1..Len(s) : r[k] = s[k]
  BY <1>1, <1>2
<1>4. d = CountsOf(r)
  BY <1>1, <1>2, CountsOfAppend DEF Accounts
<1>5. \A k \in DOMAIN r : r[k].pos = k
  BY <1>1, <1>2, <1>3 DEF Accounts
<1>6. FirstIs(s, t) /\ Fits(c, t)
  BY DEF Accounts
<1>7. stop => \A k \in DOMAIN r : r[k].kind = "hit" => k = Len(r)
  BY <1>1, <1>2, <1>3, <1>6 DEF FirstIs
<1>8. FirstIs(r, u)
  BY <1>1, <1>2, <1>3, <1>6 DEF FirstIs, Fits
<1>9. /\ d \in Counters /\ Attempted(d) = Attempted(c) + 1
      /\ d.repro + d.unattr <= d.completed
      /\ u \in Nat /\ u # 0 <=> d.repro > 0
  <2>1. c \in Counters /\ t \in Nat /\ c.repro + c.unattr <= c.completed /\ (t # 0 <=> c.repro > 0)
    BY <1>6 DEF Fits
  <2>2. d = [completed |-> c.completed + (IF kind \in {"clean", "hit", "unattributed"} THEN 1 ELSE 0),
             repro |-> c.repro + (IF kind = "hit" THEN 1 ELSE 0),
             infra |-> c.infra + (IF kind = "infra" THEN 1 ELSE 0),
             timed |-> c.timed + (IF kind = "timeout" THEN 1 ELSE 0),
             unattr |-> c.unattr + (IF kind = "unattributed" THEN 1 ELSE 0)]
    BY DEF Counted
  <2>3. /\ c.completed \in Nat /\ c.repro \in Nat /\ c.infra \in Nat /\ c.timed \in Nat
        /\ c.unattr \in Nat
    BY <2>1 DEF Counters
  <2> HIDE DEF d
  <2>4. d \in Counters
    BY <2>2, <2>3 DEF Counters
  <2>5. Attempted(d) = Attempted(c) + 1
    BY <2>2, <2>3 DEF Attempted, Kinds
  <2>6. d.repro + d.unattr <= d.completed
    BY <2>1, <2>2, <2>3
  <2>7. u \in Nat /\ (u # 0 <=> d.repro > 0)
    BY <2>1, <2>2, <2>3, <1>1
  <2> QED BY <2>4, <2>5, <2>6, <2>7
<1>10. Fits(d, u)
  BY <1>9, <1>6, CampaignAssumption, <1>1 DEF Fits
<1> QED BY <1>2, <1>3, <1>4, <1>5, <1>7, <1>8, <1>9, <1>10, <1>1 DEF Accounts

\* Two logs that agree on their first n trials have the same prefix.
LEMMA AgreeingPrefix ==
    ASSUME NEW s \in Seq(Trials), NEW r \in Seq(Trials), NEW n \in Nat, Agree(s, r, n)
    PROVE  SubSeq(s, 1, n) = SubSeq(r, 1, n)
<1>1. n <= Len(s) /\ n <= Len(r) /\ \A k \in 1..n : s[k] = r[k]
  BY DEF Agree
<1>2. /\ SubSeq(s, 1, n) = [k \in 1..n |-> s[k]]
      /\ SubSeq(r, 1, n) = [k \in 1..n |-> r[k]]
  BY <1>1
<1> QED BY <1>1, <1>2

LEMMA WholePrefix ==
    ASSUME NEW s \in Seq(Trials)
    PROVE  SubSeq(s, 1, Len(s)) = s
OBVIOUS

LEMMA PrefixFacts ==
    ASSUME NEW r \in Seq(Trials), NEW n \in Nat, n <= Len(r)
    PROVE  /\ SubSeq(r, 1, n) \in Seq(Trials) /\ Len(SubSeq(r, 1, n)) = n
           /\ Agree(SubSeq(r, 1, n), r, n)
<1>1. /\ SubSeq(r, 1, n) \in Seq(Trials) /\ Len(SubSeq(r, 1, n)) = n
      /\ \A k \in 1..n : SubSeq(r, 1, n)[k] = r[k]
  OBVIOUS
<1> QED BY <1>1 DEF Agree

LEMMA AgreeAfterAppend ==
    ASSUME NEW s \in Seq(Trials), NEW r \in Seq(Trials), NEW n \in Nat, NEW e \in Trials,
           Agree(s, r, n)
    PROVE  Agree(Append(s, e), r, n)
<1>1. n <= Len(s) /\ n <= Len(r) /\ \A k \in 1..n : s[k] = r[k]
  BY DEF Agree
<1>2. Len(Append(s, e)) = Len(s) + 1 /\ \A k \in 1..Len(s) : Append(s, e)[k] = s[k]
  OBVIOUS
<1> QED BY <1>1, <1>2 DEF Agree

\* A log that still has the saved prefix may take the place of the published
\* one.
LEMMA DurableAfterPublish ==
    ASSUME NEW stop \in BOOLEAN, NEW s \in Seq(Trials), NEW r \in Seq(Trials), NEW T, NEW U,
           NEW q \in Progress, Durable(stop, r, T, q), Agree(s, r, q.log), T \subseteq U
    PROVE  Durable(stop, s, U, q)
<1>1. q.log \in Nat
  BY DEF Progress
<1>2. SubSeq(s, 1, q.log) = SubSeq(r, 1, q.log) /\ q.log <= Len(s)
  BY <1>1, AgreeingPrefix DEF Agree
<1> QED BY <1>2 DEF Durable

LEMMA FirstHitIs ==
    ASSUME NEW s \in Seq(Trials), NEW t \in Nat, FirstIs(s, t)
    PROVE  t = FirstHit(s)
<1>1. Shown(s, {"hit"}) = 0 <=> \A k \in DOMAIN s : s[k].kind \notin {"hit"}
  BY ShownIsNat
<1>2. DOMAIN s = 1..Len(s) /\ Len(s) \in Nat
  OBVIOUS
<1>3. CASE t = 0
  BY <1>1, <1>3 DEF FirstIs, FirstHit
<1>4. CASE t # 0
  <2>1. /\ t \in DOMAIN s /\ s[t].kind = "hit"
        /\ \A k \in 1..t - 1 : s[k].kind # "hit"
    BY <1>4 DEF FirstIs
  <2>2. Shown(s, {"hit"}) # 0
    BY <1>1, <2>1
  <2>3. \A k \in DOMAIN s :
           (s[k].kind = "hit" /\ \A j \in 1..k - 1 : s[j].kind # "hit") => k = t
    BY <2>1, <1>2
  <2> DEFINE H(k) == s[k].kind = "hit" /\ \A j \in 1..k - 1 : s[j].kind # "hit"
  <2>4. H(CHOOSE k \in DOMAIN s : H(k)) /\ (CHOOSE k \in DOMAIN s : H(k)) \in DOMAIN s
    BY <2>1
  <2>5. (CHOOSE k \in DOMAIN s : H(k)) = t
    BY <2>3, <2>4
  <2> QED BY <2>5, <2>2 DEF FirstHit
<1> QED BY <1>3, <1>4

LEMMA AccountsExplains ==
    ASSUME NEW s, NEW c, NEW t, Accounts(stopOnFirst, s, c, t)
    PROVE  Explains(s, c, t)
<1>1. t = FirstHit(s)
  BY FirstHitIs DEF Accounts, Fits
<1> QED BY <1>1 DEF Accounts, Explains, CountsOf

\* The progress that is saved can always be resumed from.
LEMMA SavedIsResumable ==
    ASSUME CampaignInv, saved # None
    PROVE  Resumable(saved)
<1>1. saved \in Progress /\ Durable(stopOnFirst, pub, pubTrigs, saved) /\ pub \in Seq(Trials)
  BY DEF CampaignInv, CampaignType, SavedIsDurable
<1>2. /\ saved.log \in Nat /\ saved.log <= Len(pub)
      /\ Fits(saved.counts, saved.trig)
      /\ Attempted(saved.counts) = Len(SubSeq(pub, 1, saved.log))
      /\ saved.trig # 0 => saved.trig \in pubTrigs
  BY <1>1 DEF Progress, Durable, Accounts
<1>3. Attempted(saved.counts) = saved.log
  BY <1>1, <1>2, PrefixFacts
<1> QED BY <1>2, <1>3 DEF Resumable, Fits

-----------------------------------------------------------------------------
(* The invariant is kept.                                                  *)

LEMMA ZeroFits == Zero \in Counters /\ NoRound \in Rounds /\ Fits(Zero, 0)
BY CampaignAssumption DEF Zero, Counters, NoRound, Rounds, NoTally, Fits, Attempted

LEMMA CampaignInit == Init => CampaignInv
<1> SUFFICES ASSUME Init PROVE CampaignInv
  OBVIOUS
<1>1. service \in BOOLEAN
  BY CampaignAssumption DEF Init
<1>2. CampaignType
  <2>1. log \in Seq(Trials) /\ pub \in Seq(Trials) /\ arm \in Seq(ControlRuns)
    BY DEF Init
  <2>2. phase \in Phases /\ hasLog \in BOOLEAN /\ closing \in BOOLEAN /\ stopOnFirst \in BOOLEAN
    BY DEF Init, Phases
  <2>3. counts \in Counters /\ trig \in Nat /\ fresh \in Rounds
    BY ZeroFits DEF Init
  <2> QED BY <1>1, <2>1, <2>2, <2>3 DEF Init, CampaignType
<1>3. WhoRuns /\ SavedIsDurable /\ WorkerCounts /\ FromSaved /\ RoundSoFar
  BY DEF Init, WhoRuns, SavedIsDurable, WorkerCounts, FromSaved, RoundSoFar, Busy
<1> QED BY <1>2, <1>3 DEF CampaignInv, VerdictIsEarned, StressAccepted, Init

\* No verdict yet.
LEMMA NoVerdict ==
    ASSUME result' = None
    PROVE  VerdictIsEarned' /\ StressAccepted' /\ (result # None => phase = "ended")'
BY DEF VerdictIsEarned, StressAccepted

LEMMA StepStartFresh ==
    ASSUME CampaignInv, StartFresh, UNCHANGED input
    PROVE  CampaignInv'
<1> USE DEF CampaignInv, input, disk
<1>1. /\ saved' = None /\ latest' = None /\ result' = None /\ arm' = <<>> /\ counts' = Zero
      /\ trig' = 0 /\ log' = <<>> /\ closing' = FALSE /\ hasLog' = FALSE /\ fresh' = NoRound
      /\ service' = service /\ stopOnFirst' = stopOnFirst /\ pub' = pub /\ pubTrigs' = pubTrigs
      /\ phase' \in {"control", "search"}
      /\ phase' = "control" <=> Baseline > 0
  BY DEF StartFresh
<1>2. service \in BOOLEAN /\ stopOnFirst \in BOOLEAN /\ pub \in Seq(Trials)
      /\ BaselineRuns \in Nat
  BY CampaignAssumption DEF CampaignType
<1>3. CampaignType'
  <2>1. log' \in Seq(Trials) /\ arm' \in Seq(ControlRuns) /\ phase' \in Phases
    BY <1>1 DEF Phases, Busy
  <2> QED BY <1>1, <1>2, <2>1, ZeroFits DEF CampaignType
<1>4. Accounts(stopOnFirst', log', counts', trig')
  BY <1>1, <1>2, AccountsEmpty
<1>5. WhoRuns'
  <2>1. Len(arm') = 0
    BY <1>1
  <2> QED BY <1>1, <1>2, <2>1 DEF WhoRuns, Baseline
<1>6. SavedIsDurable' /\ WorkerCounts' /\ FromSaved' /\ RoundSoFar'
  BY <1>1, <1>4, ZeroFits DEF SavedIsDurable, WorkerCounts, FromSaved, RoundSoFar, Busy
<1> QED BY <1>1, <1>3, <1>5, <1>6, NoVerdict

LEMMA StepResume ==
    ASSUME CampaignInv, Resume, UNCHANGED input
    PROVE  CampaignInv'
<1> USE DEF CampaignInv, input, disk
<1>1. saved # None /\ Resumable(saved) /\ phase = "idle"
  BY SavedIsResumable DEF Resume
<1>2. /\ saved' = saved /\ latest' = saved /\ result' = result /\ arm' = <<>>
      /\ counts' = saved.counts /\ trig' = saved.trig /\ closing' = FALSE /\ fresh' = NoRound
      /\ log' = SubSeq(pub, 1, saved.log) /\ hasLog' = TRUE /\ phase' = "search"
      /\ service' = service /\ stopOnFirst' = stopOnFirst /\ pub' = pub /\ pubTrigs' = pubTrigs
  BY <1>1 DEF Resume, DurablePrefix
<1>3. /\ saved \in Progress /\ pub \in Seq(Trials) /\ service \in BOOLEAN
      /\ stopOnFirst \in BOOLEAN /\ Durable(stopOnFirst, pub, pubTrigs, saved) /\ service
  BY <1>1 DEF CampaignType, SavedIsDurable, WhoRuns
<1>4. /\ saved.log \in Nat /\ saved.counts \in Counters /\ saved.trig \in Nat
      /\ saved.log <= Len(pub) /\ Accounts(stopOnFirst, log', counts', trig')
  BY <1>2, <1>3 DEF Progress, Durable
<1>5. log' \in Seq(Trials) /\ Agree(log', pub', saved.log)
  BY <1>2, <1>3, <1>4, PrefixFacts
<1>6. CampaignType'
  <2>1. arm' \in Seq(ControlRuns) /\ phase' \in Phases
    BY <1>2 DEF Phases, Busy
  <2>2. hasLog' \in BOOLEAN /\ closing' \in BOOLEAN
    BY <1>2
  <2> QED BY <1>2, <1>3, <1>4, <1>5, <2>1, <2>2, ZeroFits DEF CampaignType
<1>7. result' = None
  BY <1>1, <1>2
<1>8. SavedIsDurable' /\ WhoRuns'
  BY <1>2, <1>3 DEF SavedIsDurable, WhoRuns
<1>9. WorkerCounts' /\ FromSaved' /\ RoundSoFar'
  BY <1>1, <1>2, <1>4, <1>5 DEF WorkerCounts, FromSaved, RoundSoFar, Busy, Accounts
<1> QED BY <1>6, <1>7, <1>8, <1>9, NoVerdict

LEMMA StepControlRun ==
    ASSUME CampaignInv, ControlRun, UNCHANGED input
    PROVE  CampaignInv'
<1> USE DEF CampaignInv, input, disk
<1>1. /\ phase = "control" /\ ~service /\ counts = Zero /\ trig = 0 /\ log = <<>>
      /\ Len(arm) < BaselineRuns /\ saved = None /\ latest = None
      /\ service \in BOOLEAN /\ stopOnFirst \in BOOLEAN /\ arm \in Seq(ControlRuns)
  BY DEF ControlRun, WhoRuns, WorkerCounts, CampaignType
<1>2. PICK r \in Runs : arm' = Append(arm, ControlKinds(r))
  BY DEF ControlRun
<1>3. ControlKinds(r) \in ControlRuns
  BY DEF ControlKinds, ControlRuns
<1>4. arm' \in Seq(ControlRuns) /\ Len(arm') = Len(arm) + 1 /\ Len(arm) \in Nat
  BY <1>1, <1>2, <1>3
<1>5. /\ phase' = IF Len(arm') = BaselineRuns THEN "search" ELSE "control"
      /\ hasLog' = (Len(arm') = BaselineRuns)
      /\ UNCHANGED <<service, stopOnFirst, counts, trig, log, fresh, closing, latest, pub,
                     pubTrigs, saved, result>>
  BY <1>1 DEF ControlRun, Baseline
<1>6. CampaignType'
  <2>1. phase' \in Phases /\ hasLog' \in BOOLEAN
    BY <1>5 DEF Phases, Busy
  <2> QED BY <1>4, <1>5, <2>1 DEF CampaignType
<1>7. Accounts(stopOnFirst', log', counts', trig') /\ result' = None
  BY <1>1, <1>5, AccountsEmpty
<1>8. ~closing
  BY <1>1 DEF RoundSoFar
<1>9. WhoRuns' /\ SavedIsDurable'
  BY <1>1, <1>4, <1>5, CampaignAssumption DEF WhoRuns, SavedIsDurable
<1>10. WorkerCounts' /\ FromSaved' /\ RoundSoFar'
  BY <1>1, <1>4, <1>5, <1>7, <1>8, ZeroFits DEF WorkerCounts, FromSaved, RoundSoFar, Busy
<1> QED BY <1>6, <1>7, <1>9, <1>10, NoVerdict

LEMMA StepRunTrial ==
    ASSUME CampaignInv, RunTrial, UNCHANGED input
    PROVE  CampaignInv'
<1> USE DEF CampaignInv, input, disk
<1>1. /\ phase = "search" /\ Attempted(counts) < Planned /\ ~(stopOnFirst /\ trig # 0)
      /\ Accounts(stopOnFirst, log, counts, trig) /\ ~closing /\ latest = saved
      /\ service \in BOOLEAN /\ stopOnFirst \in BOOLEAN /\ result = None
  BY DEF RunTrial, MoreTrials, WorkerCounts, RoundSoFar, FromSaved, CampaignType
<1>2. PICK kind \in {AttemptKind(r) : r \in Runs} :
         /\ trial' = [pos |-> Attempted(counts) + 1, kind |-> kind]
         /\ counts' = Counted(counts, kind)
         /\ trig' = IF kind = "hit" /\ trig = 0 THEN Attempted(counts) + 1 ELSE trig
  BY DEF RunTrial
<1>3. kind \in Kinds
  BY KindsAre
<1>4. /\ phase' = "log"
      /\ UNCHANGED <<service, stopOnFirst, arm, log, hasLog, fresh, closing, core, latest, pub,
                     pubTrigs, saved, result>>
  BY DEF RunTrial
<1>5. trial' \in Trials /\ Accounts(stopOnFirst', Append(log', trial'), counts', trig')
  <2>1. stopOnFirst => trig = 0
    BY <1>1
  <2> DEFINE e == [pos |-> Attempted(counts) + 1, kind |-> kind]
             u == IF kind = "hit" /\ trig = 0 THEN Attempted(counts) + 1 ELSE trig
  <2>2. e \in Trials /\ Accounts(stopOnFirst, Append(log, e), Counted(counts, kind), u)
    BY <1>1, <1>3, <2>1, AccountsAppend
  <2> QED BY <1>2, <1>4, <2>2
<1>6. Fits(counts', trig') /\ counts' \in Counters /\ trig' \in Nat
  BY <1>5 DEF Accounts, Fits
<1>7. CampaignType'
  <2>1. phase' \in Phases
    BY <1>4 DEF Phases, Busy
  <2> QED BY <1>4, <1>6, <2>1 DEF CampaignType
<1>8. WhoRuns' /\ SavedIsDurable'
  BY <1>1, <1>4 DEF WhoRuns, SavedIsDurable
<1>9. FromSaved'
  <2>1. saved # None => /\ Agree(log, pub, saved.log)
                        /\ saved.trig # 0 => trig = saved.trig
    BY <1>1 DEF FromSaved, Busy
  <2> QED BY <1>1, <1>2, <1>4, <2>1 DEF FromSaved, Busy
<1>10. WorkerCounts' /\ RoundSoFar'
  BY <1>1, <1>4, <1>5, <1>6 DEF WorkerCounts, RoundSoFar, Busy
<1> QED BY <1>1, <1>4, <1>7, <1>8, <1>9, <1>10, NoVerdict

LEMMA StepWriteLog ==
    ASSUME CampaignInv, WriteLog, UNCHANGED input
    PROVE  CampaignInv'
<1> USE DEF CampaignInv, input, disk
<1>1. /\ phase = "log" /\ trial \in Trials /\ ~closing /\ latest = saved
      /\ Accounts(stopOnFirst, Append(log, trial), counts, trig) /\ Fits(counts, trig)
      /\ service \in BOOLEAN /\ stopOnFirst \in BOOLEAN /\ result = None
      /\ log \in Seq(Trials) /\ pub \in Seq(Trials)
  BY DEF WriteLog, WorkerCounts, RoundSoFar, FromSaved, CampaignType, Busy
<1>2. /\ UNCHANGED <<service, stopOnFirst, arm, counts, trig, fresh, closing, core, latest, pub,
                     pubTrigs, saved, result>>
      /\ \/ /\ log' = Append(log, trial) /\ hasLog' = TRUE
            /\ phase' = IF service THEN "publish" ELSE "search"
         \/ /\ log' = log /\ hasLog' = FALSE
            /\ phase' = IF service THEN "publish" ELSE "failed"
  BY DEF WriteLog
<1>3. saved # None => /\ Agree(log, pub, saved.log) /\ saved.log \in Nat
                      /\ saved.trig # 0 => trig = saved.trig
                      /\ stopOnFirst => saved.trig = 0
  BY <1>1 DEF FromSaved, Busy, CampaignType, Progress
<1>4. saved # None => Agree(Append(log, trial), pub, saved.log)
  BY <1>1, <1>3, AgreeAfterAppend
<1>5. CampaignType'
  <2>1. phase' \in Phases
    BY <1>2 DEF Phases, Busy
  <2>2. log' \in Seq(Trials)
    BY <1>1, <1>2
  <2>3. hasLog' \in BOOLEAN
    BY <1>2
  <2> QED BY <1>2, <2>1, <2>2, <2>3 DEF CampaignType
<1>6. WhoRuns' /\ SavedIsDurable'
  BY <1>1, <1>2 DEF WhoRuns, SavedIsDurable
<1>7. WorkerCounts'
  BY <1>1, <1>2 DEF WorkerCounts, Busy
<1>8. FromSaved'
  <2>1. saved' = saved /\ latest' = saved /\ ~closing' /\ pub' = pub /\ trig' = trig
    BY <1>1, <1>2
  <2>2. ~(service' /\ (phase' = "search" \/ (closing' /\ phase' \in Busy)))
    BY <1>1, <1>2
  <2>3. saved # None => Agree(log', pub, saved.log)
    BY <1>2, <1>3, <1>4
  <2>4. stopOnFirst' = stopOnFirst
    BY <1>2
  <2> QED BY <2>1, <2>2, <2>3, <2>4, <1>3 DEF FromSaved
<1>9. RoundSoFar'
  BY <1>1, <1>2 DEF RoundSoFar, Busy
<1> QED BY <1>1, <1>2, <1>5, <1>6, <1>7, <1>8, <1>9, NoVerdict

\* The command line's report.
LEMMA ReportIsEarned ==
    ASSUME CampaignInv, ~service, phase = "search", UNCHANGED <<service, stopOnFirst, arm>>,
           saved' = None,
           result' = [outcome |-> "report", status |-> "succeeded",
                      completeness |-> "unknown", counts |-> counts, trig |-> trig,
                      tally |-> Tally(counts), log |-> Len(log), attribution |-> Attribution]
    PROVE  VerdictIsEarned' /\ StressAccepted'
<1> USE DEF CampaignInv
<1>1. /\ result'.outcome = "report" /\ result'.attribution = Attribution /\ result'.trig = trig
      /\ trig \in Nat /\ arm \in Seq(ControlRuns) /\ Len(arm) = BaselineRuns
      /\ BaselineRuns \in Nat /\ ~service' /\ Baseline = BaselineRuns /\ Baseline' = BaselineRuns
  BY CampaignAssumption DEF CampaignType, WhoRuns, Baseline
<1>2. ASSUME Attribution = "attributed"
      PROVE  trig # 0 /\ arm' = [k \in 1..Baseline' |-> "clean"]
  <2> DEFINE R == {k \in DOMAIN arm : arm[k] \in {"repro"}}
             C == {k \in DOMAIN arm : arm[k] \in {"clean", "repro"}}
  <2>1. DOMAIN arm = 1..BaselineRuns /\ IsFiniteSet(1..BaselineRuns)
        /\ Cardinality(1..BaselineRuns) = BaselineRuns
    BY <1>1, FS_Interval
  <2>2. /\ IsFiniteSet(R) /\ IsFiniteSet(C) /\ Cardinality(R) \in Nat /\ Cardinality(C) \in Nat
        /\ (Cardinality(R) = 0 <=> R = {})
    BY <2>1, FS_Subset, FS_CardinalityType, FS_EmptySet
  <2>3. ControlCount({"repro"}) = Cardinality(R) /\ ControlCount({"clean", "repro"}) = Cardinality(C)
    BY DEF ControlCount
  <2> HIDE DEF R, C
  <2>4. Baseline # 0 /\ Cardinality(R) = 0 /\ ~(Cardinality(C) < Baseline) /\ trig # 0
    BY <1>1, <1>2, <2>2, <2>3 DEF Attribution
  <2>5. C = 1..BaselineRuns
    <3>1. C \subseteq 1..BaselineRuns
      BY <2>1 DEF C
    <3>2. /\ Cardinality(C) <= Cardinality(1..BaselineRuns)
          /\ Cardinality(1..BaselineRuns) = Cardinality(C) => 1..BaselineRuns = C
      BY <3>1, <2>1, FS_Subset, Zenon
    <3>3. Cardinality(C) = BaselineRuns
      BY <3>2, <2>1, <2>2, <2>4, <1>1
    <3> QED BY <3>2, <3>3, <2>1
  <2>6. \A k \in 1..BaselineRuns : arm[k] = "clean"
    <3>1. R = {}
      BY <2>2, <2>4
    <3> QED BY <3>1, <2>1, <2>5 DEF R, C
  <2>7. arm = [k \in 1..BaselineRuns |-> "clean"]
    BY <2>1, <2>6, <1>1
  <2> QED BY <2>4, <2>7, <1>1
<1>3. VerdictIsEarned'
  BY <1>1, <1>2 DEF VerdictIsEarned
<1> QED BY <1>1, <1>3 DEF StressAccepted

LEMMA StepClose ==
    ASSUME CampaignInv, Close, UNCHANGED input
    PROVE  CampaignInv'
<1> USE DEF CampaignInv, input, disk
<1>1. /\ phase = "search" /\ ~(Attempted(counts) < Planned /\ ~(stopOnFirst /\ trig # 0))
      /\ Accounts(stopOnFirst, log, counts, trig) /\ Fits(counts, trig) /\ ~closing
      /\ latest = saved /\ service \in BOOLEAN /\ stopOnFirst \in BOOLEAN /\ result = None
  BY DEF Close, MoreTrials, WorkerCounts, RoundSoFar, FromSaved, CampaignType, Busy
<1>2. /\ UNCHANGED <<service, stopOnFirst, arm, counts, trig, trial, log, hasLog, fresh, core,
                     latest, pub, pubTrigs, saved>>
      /\ closing' = TRUE
      /\ \/ service /\ phase' = "publish" /\ result' = result
         \/ /\ ~service /\ phase' = "ended"
            /\ result' = [outcome |-> "report", status |-> "succeeded",
                          completeness |-> "unknown", counts |-> counts, trig |-> trig,
                          tally |-> Tally(counts), log |-> Len(log), attribution |-> Attribution]
  BY DEF Close
<1>3. CampaignType'
  <2>1. phase' \in Phases /\ closing' \in BOOLEAN
    BY <1>2 DEF Phases, Busy
  <2> QED BY <1>2, <2>1 DEF CampaignType
<1>4. WhoRuns' /\ SavedIsDurable'
  BY <1>1, <1>2 DEF WhoRuns, SavedIsDurable
<1>5. WorkerCounts'
  BY <1>1, <1>2 DEF WorkerCounts, Busy
<1>6. FromSaved'
  <2>1. service => IF saved = None THEN counts = Zero
                   ELSE counts = saved.counts /\ trig = saved.trig
    BY <1>1 DEF FromSaved
  <2>2. (service /\ saved = None) => Attempted(counts) = 0 /\ trig = 0
    BY <2>1, <1>1 DEF Zero, Attempted, Fits
  <2>3. service => saved # None
    BY <1>1, <2>2, CampaignAssumption
  <2>4. saved # None => /\ Agree(log, pub, saved.log)
                        /\ saved.trig # 0 => trig = saved.trig
    BY <1>1 DEF FromSaved, Busy
  <2>5. closing' /\ saved' = saved /\ latest' = saved /\ counts' = counts /\ trig' = trig
        /\ log' = log /\ pub' = pub /\ service' = service
    BY <1>1, <1>2
  <2> QED BY <1>2, <2>1, <2>3, <2>4, <2>5 DEF FromSaved
<1>7. RoundSoFar'
  BY <1>1, <1>2 DEF RoundSoFar
<1>8. (result # None => phase = "ended")' /\ VerdictIsEarned' /\ StressAccepted'
  <2>1. CASE service
    BY <1>1, <1>2, <2>1, NoVerdict
  <2>2. CASE ~service
    <3>1. saved' = None
      BY <1>2, <2>2 DEF WhoRuns
    <3> QED BY <1>1, <1>2, <2>2, <3>1, ReportIsEarned
  <2> QED BY <2>1, <2>2
<1> QED BY <1>3, <1>4, <1>5, <1>6, <1>7, <1>8

LEMMA StepPublishLog ==
    ASSUME CampaignInv, PublishLog, UNCHANGED input
    PROVE  CampaignInv'
<1> USE DEF CampaignInv, input, disk
<1>1. /\ phase = "publish" /\ service /\ Fits(counts, trig) /\ latest = saved
      /\ stopOnFirst \in BOOLEAN /\ result = None /\ hasLog \in BOOLEAN /\ closing \in BOOLEAN
      /\ log \in Seq(Trials) /\ pub \in Seq(Trials) /\ Len(log) \in Nat
      /\ hasLog => Accounts(stopOnFirst, log, counts, trig)
  BY DEF PublishLog, WorkerCounts, WhoRuns, FromSaved, CampaignType, Busy
<1>2. /\ UNCHANGED <<service, stopOnFirst, arm, counts, trig, trial, log, hasLog, closing,
                     latest, pubTrigs, saved, result>>
      /\ phase' = "trigger"
      /\ core' = IF closing THEN core ELSE counts
      /\ \/ hasLog /\ pub' = log /\ fresh' = [NoRound EXCEPT !.log = Len(log)]
         \/ pub' = pub /\ fresh' = [NoRound EXCEPT !.failed = TRUE]
  BY DEF PublishLog
<1>3. \/ /\ hasLog /\ pub' = log /\ fresh'.log = Len(log) /\ fresh'.failed = FALSE
      \/ /\ pub' = pub /\ fresh'.log = 0 /\ fresh'.failed = TRUE
  BY <1>2 DEF NoRound
<1>4. fresh' \in Rounds /\ fresh'.trig = 0 /\ fresh'.tally = NoTally
  <2>1. NoRound \in Rounds /\ NoRound.trig = 0 /\ NoRound.tally = NoTally
    BY ZeroFits DEF NoRound
  <2> QED BY <1>1, <1>2, <2>1 DEF Rounds
<1>5. saved # None => /\ Agree(log, pub, saved.log) /\ saved.log \in Nat /\ saved \in Progress
                      /\ saved.trig # 0 => trig = saved.trig
  BY <1>1 DEF FromSaved, Busy, CampaignType, Progress
<1>6. CampaignType'
  <2>1. phase' \in Phases
    BY <1>2 DEF Phases, Busy
  <2>2. pub' \in Seq(Trials)
    BY <1>1, <1>3
  <2> QED BY <1>2, <1>4, <2>1, <2>2 DEF CampaignType
<1>7. SavedIsDurable'
  <2>1. CASE pub' = pub
    BY <1>2, <2>1 DEF SavedIsDurable
  <2>2. CASE pub' = log /\ saved # None
    <3>1. Durable(stopOnFirst, pub, pubTrigs, saved)
      BY <2>2 DEF SavedIsDurable
    <3>2. Durable(stopOnFirst, log, pubTrigs, saved)
      BY <1>1, <1>5, <2>2, <3>1, DurableAfterPublish
    <3> QED BY <1>2, <2>2, <3>2 DEF SavedIsDurable
  <2> QED BY <1>2, <1>3, <2>1, <2>2 DEF SavedIsDurable
<1>8. WhoRuns' /\ WorkerCounts'
  BY <1>1, <1>2 DEF WhoRuns, WorkerCounts, Busy
<1>9. FromSaved'
  <2>1. saved # None => Agree(log, pub', saved.log)
    BY <1>1, <1>3, <1>5 DEF Agree
  <2>2. closing => IF saved = None THEN counts = Zero
                   ELSE counts = saved.counts /\ trig = saved.trig
    BY <1>1 DEF FromSaved, Busy
  <2>3. (closing /\ service) => saved # None
    BY DEF FromSaved
  <2>4. (stopOnFirst /\ saved # None /\ ~closing) => saved.trig = 0
    BY <1>1 DEF FromSaved
  <2> QED BY <1>1, <1>2, <1>5, <2>1, <2>2, <2>3, <2>4 DEF FromSaved
<1>10. RoundSoFar'
  BY <1>1, <1>2, <1>3, <1>4 DEF RoundSoFar
<1> QED BY <1>1, <1>2, <1>6, <1>7, <1>8, <1>9, <1>10, NoVerdict

LEMMA StepPublishTrigger ==
    ASSUME CampaignInv, PublishTrigger, UNCHANGED input
    PROVE  CampaignInv'
<1> USE DEF CampaignInv, input, disk
<1>1. /\ phase = "trigger" /\ service /\ Fits(counts, trig) /\ latest = saved
      /\ stopOnFirst \in BOOLEAN /\ result = None /\ hasLog \in BOOLEAN /\ closing \in BOOLEAN
      /\ log \in Seq(Trials) /\ pub \in Seq(Trials) /\ fresh \in Rounds
      /\ hasLog => Accounts(stopOnFirst, log, counts, trig)
      /\ fresh.trig = 0 /\ counts \in Counters /\ trig \in Nat
      /\ fresh.log # 0 \/ ~fresh.failed => hasLog /\ pub = log /\ fresh.log = Len(log)
  BY DEF PublishTrigger, WorkerCounts, WhoRuns, FromSaved, CampaignType, Busy, RoundSoFar
<1>2. /\ UNCHANGED <<service, stopOnFirst, arm, counts, trig, trial, log, hasLog, closing, core,
                     latest, pub, saved, result>>
      /\ phase' = IF closing THEN "classify" ELSE "adapt"
      /\ \/ trig = 0 /\ fresh' = fresh /\ pubTrigs' = pubTrigs
         \/ /\ trig # 0 /\ pubTrigs' = pubTrigs \cup {trig}
            /\ fresh' = [fresh EXCEPT !.trig = trig, !.tally = Tally(counts)]
         \/ trig # 0 /\ fresh' = [fresh EXCEPT !.failed = TRUE] /\ pubTrigs' = pubTrigs
  BY DEF PublishTrigger
<1>3. Tally(counts) \in Nat \X Nat
  BY <1>1 DEF Tally, Counters
<1>4. /\ fresh' \in Rounds /\ fresh'.log = fresh.log /\ fresh'.trig \in {0, trig}
      /\ fresh'.trig # 0 => trig \in pubTrigs' /\ fresh'.tally = Tally(counts)
      /\ ~fresh'.failed => ~fresh.failed /\ fresh'.trig = trig
      /\ pubTrigs \subseteq pubTrigs'
  BY <1>1, <1>2, <1>3 DEF Rounds
<1>5. CampaignType'
  <2>1. phase' \in Phases
    BY <1>2 DEF Phases, Busy
  <2> QED BY <1>2, <1>4, <2>1 DEF CampaignType
<1>6. SavedIsDurable'
  BY <1>2, <1>4 DEF SavedIsDurable, Durable
<1>7. WhoRuns' /\ WorkerCounts'
  BY <1>1, <1>2 DEF WhoRuns, WorkerCounts, Busy
<1>8. FromSaved'
  <2>1. saved # None => Agree(log, pub, saved.log) /\ (saved.trig # 0 => trig = saved.trig)
    BY <1>1 DEF FromSaved, Busy
  <2>2. closing => IF saved = None THEN counts = Zero
                   ELSE counts = saved.counts /\ trig = saved.trig
    BY <1>1 DEF FromSaved, Busy
  <2>3. (closing /\ service) => saved # None
    BY DEF FromSaved
  <2>4. (stopOnFirst /\ saved # None /\ ~closing) => saved.trig = 0
    BY <1>1 DEF FromSaved
  <2> QED BY <1>1, <1>2, <2>1, <2>2, <2>3, <2>4 DEF FromSaved
<1>9. RoundSoFar'
  <2>1. ~closing => core = counts
    BY <1>1 DEF RoundSoFar
  <2> QED BY <1>1, <1>2, <1>4, <2>1 DEF RoundSoFar
<1> QED BY <1>1, <1>2, <1>5, <1>6, <1>7, <1>8, <1>9, NoVerdict

LEMMA StepAdapt ==
    ASSUME CampaignInv, Adapt, UNCHANGED input
    PROVE  CampaignInv'
<1> USE DEF CampaignInv, input, disk
<1>1. /\ phase = "adapt" /\ service /\ Fits(counts, trig) /\ latest = saved /\ ~closing
      /\ stopOnFirst \in BOOLEAN /\ result = None /\ fresh \in Rounds
      /\ log \in Seq(Trials) /\ pub \in Seq(Trials) /\ core = counts
      /\ hasLog => Accounts(stopOnFirst, log, counts, trig)
      /\ counts \in Counters /\ trig \in Nat
  BY DEF Adapt, WorkerCounts, WhoRuns, FromSaved, CampaignType, Busy, RoundSoFar
<1>2. /\ fresh.log # 0 \/ ~fresh.failed => hasLog /\ pub = log /\ fresh.log = Len(log)
      /\ fresh.trig \in {0, trig}
      /\ fresh.trig # 0 => trig \in pubTrigs /\ fresh.tally = Tally(counts)
      /\ ~fresh.failed => fresh.trig = trig
  BY <1>1 DEF RoundSoFar
<1>3. /\ UNCHANGED <<service, stopOnFirst, arm, counts, trig, trial, log, hasLog, fresh, closing,
                     core, pub, pubTrigs, saved, result>>
      /\ latest' = [counts |-> counts, log |-> WithFallback.log, trig |-> WithFallback.trig,
                    tally |-> WithFallback.tally]
      /\ phase' = IF fresh.failed THEN "recover" ELSE "callback"
  BY DEF Adapt
<1>4. saved # None => /\ Agree(log, pub, saved.log) /\ saved \in Progress /\ saved.log \in Nat
                      /\ saved.trig \in Nat /\ saved.tally \in Nat \X Nat
                      /\ saved.trig # 0 => trig = saved.trig /\ trig \in pubTrigs
                      /\ stopOnFirst => saved.trig = 0
  <2>1. saved # None => /\ Agree(log, pub, saved.log) /\ (saved.trig # 0 => trig = saved.trig)
                        /\ stopOnFirst => saved.trig = 0
    BY <1>1 DEF FromSaved, Busy
  <2>2. saved # None => saved \in Progress
    BY DEF CampaignType
  <2> QED BY <2>1, <2>2 DEF Progress, SavedIsDurable, Durable
<1>5. /\ latest'.counts = counts
      /\ latest'.log = IF fresh.log # 0 \/ saved = None THEN fresh.log ELSE saved.log
      /\ latest'.trig = IF fresh.trig # 0 \/ saved = None THEN fresh.trig ELSE saved.trig
      /\ latest'.tally = IF fresh.trig # 0 \/ saved = None THEN fresh.tally ELSE saved.tally
  BY <1>1, <1>3 DEF WithFallback
<1>6. latest' \in Progress /\ latest' # None
  <2>1. latest'.log \in Nat /\ latest'.trig \in Nat /\ latest'.tally \in Nat \X Nat
    BY <1>1, <1>4, <1>5 DEF Rounds
  <2>2. latest' \in Progress
    BY <1>1, <1>3, <1>5, <2>1 DEF Progress
  <2> QED BY <2>2, NoneIsNoRecord
<1>7. CampaignType'
  <2>1. phase' \in Phases
    BY <1>3 DEF Phases, Busy
  <2> QED BY <1>3, <1>6, <2>1 DEF CampaignType
<1>8. SavedIsDurable'
  BY <1>3 DEF SavedIsDurable
<1>9. WhoRuns' /\ WorkerCounts'
  BY <1>1, <1>3 DEF WhoRuns, WorkerCounts, Busy
<1>10. FromSaved'
  BY <1>1, <1>3, <1>4 DEF FromSaved
<1>11. latest'.trig # 0 => latest'.trig = trig /\ trig \in pubTrigs
  BY <1>2, <1>4, <1>5
<1>12. (stopOnFirst /\ latest'.trig # 0) => latest'.tally = Tally(counts)
  BY <1>2, <1>4, <1>5
<1>13. (saved # None /\ saved.trig # 0) => latest'.trig = saved.trig
  BY <1>2, <1>4, <1>5
<1>14. ASSUME ~fresh.failed
       PROVE  /\ latest'.trig = trig /\ Durable(stopOnFirst, pub, pubTrigs, latest')
              /\ pub = log /\ latest'.log = Len(log)
  <2>1. hasLog /\ pub = log /\ fresh.log = Len(log) /\ fresh.trig = trig
    BY <1>2, <1>14
  <2>2. latest'.trig = trig
    BY <1>4, <1>5, <2>1
  <2>3. latest'.log = Len(log)
    <3>1. saved # None => saved.log <= Len(log) /\ saved.log \in Nat
      BY <1>4 DEF Agree
    <3>2. Len(log) \in Nat
      BY <1>1
    <3> QED BY <3>1, <3>2, <1>5, <2>1
  <2>4. SubSeq(pub, 1, latest'.log) = log
    BY <1>1, <2>1, <2>3, WholePrefix
  <2>5. trig # 0 => trig \in pubTrigs /\ latest'.tally = Tally(counts)
    BY <1>2, <1>5, <2>1
  <2>6. Len(log) \in Nat /\ Accounts(stopOnFirst, log, counts, trig)
    BY <1>1, <2>1
  <2>7. Durable(stopOnFirst, pub, pubTrigs, latest')
    <3>1. latest'.log <= Len(pub)
      BY <2>1, <2>3, <2>6
    <3>2. Accounts(stopOnFirst, SubSeq(pub, 1, latest'.log), latest'.counts, latest'.trig)
      BY <1>5, <2>2, <2>4, <2>6
    <3>3. latest'.trig # 0 => latest'.trig \in pubTrigs /\ latest'.tally = Tally(latest'.counts)
      BY <1>5, <2>2, <2>5
    <3> QED BY <3>1, <3>2, <3>3 DEF Durable
  <2> QED BY <2>1, <2>2, <2>3, <2>7
<1>15. RoundSoFar'
  BY <1>1, <1>3, <1>5, <1>6, <1>11, <1>12, <1>13, <1>14 DEF RoundSoFar
<1> QED BY <1>1, <1>3, <1>7, <1>8, <1>9, <1>10, <1>15, NoVerdict

LEMMA StepCallback ==
    ASSUME CampaignInv, Callback, UNCHANGED input
    PROVE  CampaignInv'
<1> USE DEF CampaignInv, input, disk, worker
<1>1. /\ phase = "callback" /\ service /\ Fits(counts, trig) /\ ~closing
      /\ stopOnFirst \in BOOLEAN /\ result = None /\ core = counts
      /\ log \in Seq(Trials) /\ pub \in Seq(Trials)
      /\ latest # None /\ latest \in Progress
      /\ Durable(stopOnFirst, pub, pubTrigs, latest)
      /\ latest.counts = counts /\ latest.trig = trig
  BY DEF Callback, WorkerCounts, WhoRuns, CampaignType, Busy, RoundSoFar
<1>2. /\ UNCHANGED <<service, stopOnFirst, arm, counts, trig, trial, log, hasLog, fresh, closing,
                     core, latest, pub, pubTrigs, result>>
      /\ \/ saved' = latest /\ phase' = "search"
         \/ saved' \in {saved, latest} /\ phase' = "recover"
  BY DEF Callback
<1>3. /\ latest.log = Len(log) /\ pub = log /\ Len(log) \in Nat /\ latest.log \in Nat
      /\ Agree(log, pub, latest.log)
  BY <1>1 DEF RoundSoFar, Agree
<1>4. Accounts(stopOnFirst, log, counts, trig)
  <2>1. SubSeq(pub, 1, latest.log) = log
    BY <1>1, <1>3, WholePrefix
  <2> QED BY <1>1, <2>1 DEF Durable
<1>5. /\ saved # None => Agree(log, pub, saved.log) /\ (saved.trig # 0 => trig = saved.trig)
      /\ saved \in Progress \cup {None}
  BY <1>1 DEF FromSaved, Busy, CampaignType
<1>6. CampaignType'
  <2>1. phase' \in Phases
    BY <1>2 DEF Phases, Busy
  <2>2. saved' \in Progress \cup {None}
    BY <1>1, <1>2, <1>5
  <2> QED BY <1>2, <2>1, <2>2 DEF CampaignType
<1>7. SavedIsDurable'
  BY <1>1, <1>2 DEF SavedIsDurable
<1>8. WhoRuns' /\ WorkerCounts'
  BY <1>1, <1>2, <1>4 DEF WhoRuns, WorkerCounts, Busy
<1>9. /\ saved' # None => Agree(log, pub, saved'.log) /\ (saved'.trig # 0 => trig = saved'.trig)
      /\ phase' = "search" => saved' = latest
  BY <1>1, <1>2, <1>3, <1>5
<1>10. FromSaved'
  BY <1>1, <1>2, <1>9 DEF FromSaved
<1>11. RoundSoFar'
  BY <1>1, <1>2, <1>9 DEF RoundSoFar, Durable
<1> QED BY <1>1, <1>2, <1>6, <1>7, <1>8, <1>10, <1>11, NoVerdict

\* _recover_stress_progress and the failed publication of the end: a result
\* that keeps what was counted and the trigger that was published.
LEMMA TerminalIsEarned ==
    ASSUME CampaignInv, service, UNCHANGED <<input, disk, worker>>, NEW e,
           result' = Terminal(counts, e), Fits(counts, trig),
           e.trig # 0 => e.trig = trig /\ trig \in pubTrigs,
           (stopOnFirst /\ e.trig # 0) => e.tally = Tally(counts),
           (saved # None /\ saved.trig # 0) => e.trig = saved.trig
    PROVE  VerdictIsEarned' /\ StressAccepted'
<1> USE DEF input, disk, worker
<1>1. /\ result'.outcome = PartialOutcome(e.trig, counts)
      /\ result'.status = "infra_error" /\ result'.completeness = "partial"
      /\ result'.counts = [counts EXCEPT !.infra = @ + 1] /\ result'.trig = e.trig
      /\ result'.tally = e.tally /\ result'.attribution = "no_baseline"
  BY DEF Terminal, Attribution, Baseline
<1>2. /\ counts \in Counters /\ trig \in Nat /\ Attempted(counts) <= Planned
      /\ counts.repro + counts.unattr <= counts.completed /\ (trig # 0 <=> counts.repro > 0)
      /\ counts.completed \in Nat /\ counts.repro \in Nat /\ counts.infra \in Nat
      /\ counts.timed \in Nat /\ counts.unattr \in Nat /\ Planned \in Nat
  BY CampaignAssumption DEF Fits, Counters
<1>3. /\ result'.counts.completed = counts.completed /\ result'.counts.repro = counts.repro
      /\ result'.counts.timed = counts.timed /\ result'.counts.unattr = counts.unattr
  BY <1>1, <1>2 DEF Counters
<1>4. /\ result'.outcome \in {"reproduced", "unattributed", "incomplete"}
      /\ result'.outcome = "reproduced" <=> e.trig # 0
      /\ result'.outcome = "unattributed" => e.trig = 0 /\ counts.repro = 0 /\ counts.unattr > 0
  BY <1>1 DEF PartialOutcome
<1>5. VerdictIsEarned'
  BY <1>1, <1>2, <1>3, <1>4 DEF VerdictIsEarned
<1>6. CountsInPlan(result')
  BY <1>2, <1>3 DEF CountsInPlan, Attempted
<1>7. OutcomeFits(result')
  BY <1>1, <1>2, <1>3, <1>4 DEF OutcomeFits
<1>8. CompletenessFits(result)'
  BY <1>1 DEF CompletenessFits
<1>9. stopOnFirst' => TriggerFits(result')
  BY <1>1, <1>3 DEF TriggerFits, Tally
<1> QED BY <1>5, <1>6, <1>7, <1>8, <1>9 DEF StressAccepted

LEMMA EndedKeepsRest ==
    ASSUME CampaignInv, phase \in Busy, service, UNCHANGED <<input, disk, worker>>,
           phase' = "ended", VerdictIsEarned', StressAccepted'
    PROVE  CampaignInv'
<1> USE DEF CampaignInv, input, disk, worker
<1>1. CampaignType'
  <2>1. phase' \in Phases
    BY DEF Phases, Busy
  <2> QED BY <2>1 DEF CampaignType
<1>2. SavedIsDurable' /\ WhoRuns' /\ WorkerCounts' /\ RoundSoFar'
  BY DEF SavedIsDurable, WhoRuns, WorkerCounts, RoundSoFar, Busy
<1>3. FromSaved'
  BY DEF FromSaved, Busy
<1> QED BY <1>1, <1>2, <1>3

LEMMA StepRecover ==
    ASSUME CampaignInv, Recover, UNCHANGED input
    PROVE  CampaignInv'
<1>1. /\ phase = "recover" /\ service /\ Fits(counts, trig) /\ core = counts /\ counts \in Counters
      /\ latest # None
      /\ latest.trig # 0 => latest.trig = trig /\ trig \in pubTrigs
      /\ (stopOnFirst /\ latest.trig # 0) => latest.tally = Tally(counts)
      /\ (saved # None /\ saved.trig # 0) => latest.trig = saved.trig
  BY DEF CampaignInv, Recover, WorkerCounts, WhoRuns, CampaignType, RoundSoFar, Busy
<1>2. core # None
  BY <1>1, NoneIsNoRecord
<1>3. result' = Terminal(counts, latest) /\ phase' = "ended" /\ UNCHANGED <<input, disk, worker>>
  BY <1>1, <1>2 DEF Recover
<1>4. VerdictIsEarned' /\ StressAccepted'
  BY <1>1, <1>3, TerminalIsEarned
<1> QED BY <1>1, <1>3, <1>4, EndedKeepsRest DEF Busy

\* The log of a complete campaign whose trials were all clean.
LEMMA AllClean ==
    ASSUME NEW stop, NEW s, NEW c, NEW t, Accounts(stop, s, c, t),
           c.completed = Planned, c.infra = 0, c.timed = 0, c.repro = 0, c.unattr = 0
    PROVE  /\ s = [k \in 1..Planned |-> [pos |-> k, kind |-> "clean"]]
           /\ c = [Zero EXCEPT !.completed = Planned]
<1>1. /\ s \in Seq(Trials) /\ c = CountsOf(s) /\ Attempted(c) = Len(s) /\ c \in Counters
      /\ \A k \in DOMAIN s : s[k].pos = k
  BY DEF Accounts, Fits
<1>2. Len(s) = Planned /\ DOMAIN s = 1..Planned
  BY <1>1, CampaignAssumption DEF Attempted
<1>3. /\ Shown(s, {"hit"}) = 0 /\ Shown(s, {"infra"}) = 0
      /\ Shown(s, {"timeout"}) = 0 /\ Shown(s, {"unattributed"}) = 0
  BY <1>1 DEF CountsOf
<1>4. \A k \in DOMAIN s : s[k].kind \notin {"hit"} /\ s[k].kind \notin {"infra"}
                          /\ s[k].kind \notin {"timeout"} /\ s[k].kind \notin {"unattributed"}
  BY <1>1, <1>3, ShownIsNat
<1>5. \A k \in 1..Planned : s[k] = [pos |-> k, kind |-> "clean"]
  <2> SUFFICES ASSUME NEW k \in 1..Planned PROVE s[k] = [pos |-> k, kind |-> "clean"]
    OBVIOUS
  <2>1. s[k] \in Trials /\ s[k].pos = k
    BY <1>1, <1>2
  <2>2. s[k].kind = "clean"
    BY <1>2, <1>4, <2>1 DEF Trials, Kinds
  <2> QED BY <2>1, <2>2 DEF Trials
<1>6. s = [k \in 1..Planned |-> [pos |-> k, kind |-> "clean"]]
  BY <1>1, <1>2, <1>5
<1>7. c = [Zero EXCEPT !.completed = Planned]
  <2>1. c = [completed |-> c.completed, repro |-> c.repro, infra |-> c.infra,
             timed |-> c.timed, unattr |-> c.unattr]
    BY <1>1 DEF CountsOf
  <2>2. c = [completed |-> Planned, repro |-> 0, infra |-> 0, timed |-> 0, unattr |-> 0]
    BY <2>1
  <2> QED BY <2>2 DEF Zero
<1> QED BY <1>6, <1>7

\* The verdict of a campaign whose last round was published whole.
LEMMA ClassifiedIsEarned ==
    ASSUME CampaignInv, service, UNCHANGED <<input, disk, worker>>, result' = Classified,
           phase = "classify", ~fresh.failed
    PROVE  VerdictIsEarned' /\ StressAccepted'
<1> USE DEF input, disk, worker
<1>1. /\ hasLog /\ pub = log /\ fresh.trig = trig /\ Fits(counts, trig)
      /\ fresh.trig # 0 => trig \in pubTrigs /\ fresh.tally = Tally(counts)
      /\ Accounts(stopOnFirst, log, counts, trig)
      /\ saved # None => trig = saved.trig
      /\ service' /\ stopOnFirst \in BOOLEAN
  BY DEF CampaignInv, WorkerCounts, RoundSoFar, FromSaved, Busy, CampaignType
<1>2. /\ counts \in Counters /\ trig \in Nat /\ Attempted(counts) <= Planned
      /\ counts.repro + counts.unattr <= counts.completed /\ (trig # 0 <=> counts.repro > 0)
      /\ counts.completed \in Nat /\ counts.repro \in Nat /\ counts.infra \in Nat
      /\ counts.timed \in Nat /\ counts.unattr \in Nat /\ Planned \in Nat
  BY <1>1, CampaignAssumption DEF Fits, Counters
<1>3. /\ result'.counts = counts /\ result'.trig = trig /\ result'.tally = fresh.tally
      /\ result'.attribution = Attribution
  BY <1>1, <1>2 DEF Classified
<1>4. Attribution = "no_baseline"
  BY DEF Attribution, Baseline
<1>5. CountsInPlan(result')
  BY <1>2, <1>3 DEF CountsInPlan, Attempted
<1>6. stopOnFirst' => TriggerFits(result')
  BY <1>1, <1>3 DEF TriggerFits
<1>7. CASE trig # 0
  <2>1. /\ result'.outcome = "reproduced" /\ result'.status = "succeeded"
        /\ result'.completeness = IF CampaignCompleted THEN "complete"
                                  ELSE IF stopOnFirst /\ Attempted(counts) < Planned
                                          /\ counts.infra = 0 /\ counts.timed = 0
                                       THEN "complete_early" ELSE "partial"
    BY <1>1, <1>7 DEF Classified
  <2>2. VerdictIsEarned'
    BY <1>1, <1>2, <1>3, <1>4, <1>7, <2>1 DEF VerdictIsEarned
  <2>3. OutcomeFits(result')
    BY <1>2, <1>3, <1>7, <2>1 DEF OutcomeFits
  <2>4. CompletenessFits(result)'
    <3>1. CASE CampaignCompleted
      BY <1>3, <2>1, <3>1 DEF CompletenessFits, CampaignCompleted
    <3>2. CASE ~CampaignCompleted /\ stopOnFirst /\ Attempted(counts) < Planned
               /\ counts.infra = 0 /\ counts.timed = 0
      <4>1. counts.completed < Planned
        BY <1>2, <3>2 DEF Attempted
      <4>2. result'.completeness = "complete_early"
        BY <2>1, <3>2
      <4> QED BY <1>3, <2>1, <3>2, <4>1, <4>2 DEF CompletenessFits
    <3>3. CASE ~CampaignCompleted /\ ~(stopOnFirst /\ Attempted(counts) < Planned
               /\ counts.infra = 0 /\ counts.timed = 0)
      <4>1. result'.completeness = "partial"
        BY <2>1, <3>3
      <4> QED BY <4>1 DEF CompletenessFits
    <3> QED BY <3>1, <3>2, <3>3
  <2> QED BY <1>5, <1>6, <2>2, <2>3, <2>4 DEF StressAccepted
<1>8. CASE trig = 0 /\ counts.unattr > 0
  <2>1. /\ result'.outcome = "unattributed" /\ result'.status = "succeeded"
        /\ result'.completeness = IF CampaignCompleted THEN "complete" ELSE "partial"
    BY <1>1, <1>8 DEF Classified
  <2>2. VerdictIsEarned'
    BY <1>1, <1>2, <1>3, <1>4, <1>8, <2>1 DEF VerdictIsEarned
  <2>3. OutcomeFits(result')
    BY <1>2, <1>3, <1>8, <2>1 DEF OutcomeFits
  <2>4. CompletenessFits(result)'
    BY <1>2, <1>3, <2>1 DEF CompletenessFits, CampaignCompleted, Attempted
  <2> QED BY <1>5, <1>6, <2>2, <2>3, <2>4 DEF StressAccepted
<1>9. CASE trig = 0 /\ counts.unattr = 0 /\ CampaignCompleted
  <2>0. counts.repro = 0
    BY <1>2, <1>9
  <2>1. /\ result'.outcome = "not_reproduced" /\ result'.status = "succeeded"
        /\ result'.completeness = "complete"
    BY <1>1, <1>2, <1>9, <2>0 DEF Classified
  <2>2. /\ pub = [k \in 1..Planned |-> [pos |-> k, kind |-> "clean"]]
        /\ counts = [Zero EXCEPT !.completed = Planned]
    BY <1>1, <1>9, <2>0, AllClean DEF CampaignCompleted
  <2>3. VerdictIsEarned'
    BY <1>1, <1>3, <1>4, <1>9, <2>1, <2>2 DEF VerdictIsEarned
  <2>4. OutcomeFits(result')
    BY <1>3, <1>9, <2>1, <2>2 DEF OutcomeFits
  <2>5. CompletenessFits(result)'
    BY <1>3, <1>9, <2>1 DEF CompletenessFits, CampaignCompleted
  <2> QED BY <1>5, <1>6, <2>3, <2>4, <2>5 DEF StressAccepted
<1>10. CASE trig = 0 /\ counts.unattr = 0 /\ ~CampaignCompleted
  <2>1. result'.outcome = "incomplete" /\ result'.completeness = "partial"
    BY <1>1, <1>2, <1>10 DEF Classified
  <2>2. VerdictIsEarned'
    BY <1>1, <1>3, <1>4, <1>10, <2>1 DEF VerdictIsEarned
  <2>3. OutcomeFits(result')
    BY <1>3, <1>10, <2>1 DEF OutcomeFits
  <2>4. CompletenessFits(result)'
    BY <2>1 DEF CompletenessFits
  <2> QED BY <1>5, <1>6, <2>2, <2>3, <2>4 DEF StressAccepted
<1> QED BY <1>2, <1>7, <1>8, <1>9, <1>10

LEMMA StepClassify ==
    ASSUME CampaignInv, Classify, UNCHANGED input
    PROVE  CampaignInv'
<1>1. /\ phase = "classify" /\ closing /\ service /\ Fits(counts, trig) /\ latest = saved
      /\ saved # None /\ counts = saved.counts /\ trig = saved.trig
      /\ fresh.trig \in {0, trig}
      /\ fresh.trig # 0 => trig \in pubTrigs /\ fresh.tally = Tally(counts)
      /\ trig # 0 => trig \in pubTrigs /\ saved.tally = Tally(counts)
  BY DEF CampaignInv, Classify, WorkerCounts, WhoRuns, FromSaved, RoundSoFar, Busy,
         SavedIsDurable, Durable
<1>2. phase' = "ended" /\ UNCHANGED <<input, disk, worker>>
  BY DEF Classify
<1>3. CASE fresh.failed
  <2>1. result' = Terminal(counts, WithFallback)
    BY <1>3 DEF Classify
  <2>2. /\ WithFallback.trig = IF fresh.trig # 0 THEN fresh.trig ELSE saved.trig
        /\ WithFallback.tally = IF fresh.trig # 0 THEN fresh.tally ELSE saved.tally
    BY <1>1 DEF WithFallback
  <2>3. WithFallback.trig = trig /\ (trig # 0 => WithFallback.tally = Tally(counts))
    BY <1>1, <2>2
  <2>4. VerdictIsEarned' /\ StressAccepted'
    BY <1>1, <1>2, <2>1, <2>3, TerminalIsEarned
  <2> QED BY <1>1, <1>2, <2>4, EndedKeepsRest DEF Busy
<1>4. CASE ~fresh.failed
  <2>1. result' = Classified
    BY <1>4 DEF Classify
  <2>2. VerdictIsEarned' /\ StressAccepted'
    BY <1>1, <1>2, <1>4, <2>1, ClassifiedIsEarned
  <2> QED BY <1>1, <1>2, <2>2, EndedKeepsRest DEF Busy
<1> QED BY <1>3, <1>4

LEMMA StepCrash ==
    ASSUME CampaignInv, Crash, UNCHANGED input
    PROVE  CampaignInv'
<1> USE DEF CampaignInv, input, disk
<1>1. /\ phase' = "idle" /\ arm' = <<>> /\ counts' = Zero /\ trig' = 0 /\ log' = <<>>
      /\ hasLog' = FALSE /\ fresh' = NoRound /\ closing' = FALSE /\ latest' = None
      /\ UNCHANGED <<service, stopOnFirst, pub, pubTrigs, saved, result>>
      /\ service /\ result = None
  BY DEF Crash
<1>2. CampaignType'
  <2>1. phase' \in Phases /\ arm' \in Seq(ControlRuns) /\ log' \in Seq(Trials)
    BY <1>1 DEF Phases, Busy
  <2>2. hasLog' \in BOOLEAN /\ closing' \in BOOLEAN
    BY <1>1
  <2> QED BY <1>1, <2>1, <2>2, ZeroFits DEF CampaignType
<1>3. SavedIsDurable' /\ WhoRuns' /\ WorkerCounts' /\ FromSaved' /\ RoundSoFar'
  BY <1>1 DEF SavedIsDurable, WhoRuns, WorkerCounts, FromSaved, RoundSoFar, Busy
<1> QED BY <1>1, <1>2, <1>3, NoVerdict

LEMMA StepControlFails ==
    ASSUME CampaignInv, ControlFails, UNCHANGED input
    PROVE  CampaignInv'
<1> USE DEF CampaignInv, input, disk, worker
<1>1. /\ phase = "control" /\ phase' = "failed" /\ ~service /\ ~closing
      /\ UNCHANGED <<service, stopOnFirst, arm, counts, trig, log, hasLog, fresh, closing, core,
                     latest, pub, pubTrigs, saved, result>>
      /\ result = None
  BY DEF ControlFails, WhoRuns, RoundSoFar
<1>2. CampaignType'
  <2>1. phase' \in Phases
    BY <1>1 DEF Phases
  <2> QED BY <1>1, <2>1 DEF CampaignType
<1>3. SavedIsDurable' /\ WhoRuns' /\ WorkerCounts' /\ FromSaved' /\ RoundSoFar'
  BY <1>1 DEF SavedIsDurable, WhoRuns, WorkerCounts, FromSaved, RoundSoFar, Busy
<1> QED BY <1>1, <1>2, <1>3, NoVerdict

LEMMA CampaignStutters ==
    ASSUME CampaignInv, UNCHANGED vars
    PROVE  CampaignInv'
<1> USE DEF CampaignInv, vars, input, disk, worker
<1>1. CampaignType' /\ SavedIsDurable' /\ WhoRuns'
  BY DEF CampaignType, SavedIsDurable, WhoRuns
<1>2. WorkerCounts' /\ FromSaved'
  BY DEF WorkerCounts, FromSaved
<1>3. RoundSoFar'
  BY DEF RoundSoFar
<1>4. VerdictIsEarned'
  BY DEF VerdictIsEarned, Baseline
<1>5. StressAccepted'
  BY DEF StressAccepted, OutcomeFits, CompletenessFits, CountsInPlan, TriggerFits
<1> QED BY <1>1, <1>2, <1>3, <1>4, <1>5

LEMMA CampaignStep == CampaignInv /\ [Next]_vars => CampaignInv'
<1> SUFFICES ASSUME CampaignInv, [Next]_vars PROVE CampaignInv'
  OBVIOUS
<1>1. ASSUME Next PROVE CampaignInv'
  <2>1. UNCHANGED input
    BY <1>1 DEF Next
  <2>2. CASE StartFresh
    BY <2>1, <2>2, StepStartFresh
  <2>3. CASE Resume
    BY <2>1, <2>3, StepResume
  <2>4. CASE ControlRun
    BY <2>1, <2>4, StepControlRun
  <2>5. CASE RunTrial
    BY <2>1, <2>5, StepRunTrial
  <2>6. CASE WriteLog
    BY <2>1, <2>6, StepWriteLog
  <2>7. CASE Close
    BY <2>1, <2>7, StepClose
  <2>8. CASE PublishLog
    BY <2>1, <2>8, StepPublishLog
  <2>9. CASE PublishTrigger
    BY <2>1, <2>9, StepPublishTrigger
  <2>10. CASE Adapt
    BY <2>1, <2>10, StepAdapt
  <2>11. CASE Callback
    BY <2>1, <2>11, StepCallback
  <2>12. CASE Recover
    BY <2>1, <2>12, StepRecover
  <2>13. CASE Classify
    BY <2>1, <2>13, StepClassify
  <2>14. CASE ControlFails
    BY <2>1, <2>14, StepControlFails
  <2>15. CASE Crash
    BY <2>1, <2>15, StepCrash
  <2>16. CASE Stopped
    BY <2>16, CampaignStutters DEF Stopped
  <2> QED BY <1>1, <2>2, <2>3, <2>4, <2>5, <2>6, <2>7, <2>8, <2>9, <2>10, <2>11, <2>12, <2>13,
             <2>14, <2>15, <2>16 DEF Next, Work
<1>2. CASE UNCHANGED vars
  BY <1>2, CampaignStutters
<1> QED BY <1>1, <1>2

-----------------------------------------------------------------------------
\* The campaign's state is well formed, and its log, its counters, its
\* reports and its publications agree at every step, in the service and on
\* the command line.
THEOREM CampaignInvariant == Spec => []CampaignInv
<1> QED BY CampaignInit, CampaignStep, PTL DEF Spec

\* Whatever a worker published after its last report, however many workers
\* died and whichever operation failed, the log prefix a persisted progress
\* names shows exactly the trials it counted, so a worker that resumes from it
\* repeats and skips none (_StressProgressAdapter, _prepare_stress_log).
THEOREM ProgressExplained == Spec => []ProgressIsExplained
<1>1. CampaignInv => ProgressIsExplained
  <2> SUFFICES ASSUME CampaignInv, saved # None
               PROVE  saved.log <= Len(pub)
                      /\ Explains(SubSeq(pub, 1, saved.log), saved.counts, saved.trig)
    BY DEF ProgressIsExplained
  <2>1. Durable(stopOnFirst, pub, pubTrigs, saved)
    BY DEF CampaignInv, SavedIsDurable
  <2> QED BY <2>1, AccountsExplains DEF Durable
<1> QED BY <1>1, CampaignInvariant, PTL

\* A resume never finds its progress unusable: the checks of
\* _resume_core_result and _prepare_stress_log pass for every progress that was
\* saved.
THEOREM ResumesAlways == Spec => [](saved # None => Resumable(saved))
<1>1. CampaignInv => (saved # None => Resumable(saved))
  BY SavedIsResumable
<1> QED BY <1>1, CampaignInvariant, PTL

\* A non-reproduction has the whole plan in its log, all of it clean; a
\* reproduction has a published configuration of a counted hit, and one that
\* was persisted is never lost (_classify_stress_result,
\* _recover_stress_progress, _attribution).
THEOREM VerdictsAreEarned == Spec => []VerdictIsEarned
<1>1. CampaignInv => VerdictIsEarned
  BY DEF CampaignInv
<1> QED BY <1>1, CampaignInvariant, PTL

\* The session accepts every terminal result of the adapter
\* (_validate_stress_result).
THEOREM ResultsAreAccepted == Spec => []StressAccepted
<1>1. CampaignInv => StressAccepted
  BY DEF CampaignInv
<1> QED BY <1>1, CampaignInvariant, PTL
=============================================================================
