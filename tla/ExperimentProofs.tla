-------------------------- MODULE ExperimentProofs --------------------------
(***************************************************************************)
(* For any dispatches, delay points, captures, faults, diagnostics and     *)
(* event files: what a worker's experiments hand to the session.           *)
(***************************************************************************)
EXTENDS ExperimentWorker, FiniteSetTheorems, SequenceTheorems, WellFoundedInduction, TLAPS

-----------------------------------------------------------------------------
(* The trace experiment.  While an attempt is under way there is no        *)
(* marker, so a marker is the end of the directory: what it commits is in  *)
(* the envelope for good.  A promoted set of files is that of one capture  *)
(* at every step of the promotion.                                         *)

CaptureRecord ==
    [exit : {"ok", "failed", "timeout"}, text : {"words", "blanks"}, limit : BOOLEAN,
     t1 : {"exact", "other"}, t2 : {"exact", "empty", "again", "foreign", "none"},
     cubin : BOOLEAN, targets : SUBSET Points]

Refs == [name : Trace!Names, sha : Nat]

Evidences == [status : {"SUCCEEDED", "INFRA_ERROR"}, error : {"none", "words"},
              artifact : BOOLEAN, files : SUBSET Trace!TraceNames]

TraceResults ==
    [binding : Bindings, status : {"SUCCEEDED", "FAILED", "TIMED_OUT", "INFRA_ERROR"},
     error : {"words", "blanks", "none"}, completeness : {"complete", "partial"},
     traces : Seq(Refs), cubins : Seq(Refs), log : Refs \cup {Trace!None},
     analysis : Evidences \cup {Trace!None}, read : Seq(Nat)]

Attempts ==
    [at : {"capture", "log", "select", "promote", "analyze", "seal", "envelope", "marker"},
     binding : Bindings, n : Nat, todo : Seq(Trace!Names), traces : Seq(Refs),
     cubins : Seq(Refs), log : Refs \cup {Trace!None}, read : Seq(Nat),
     analysis : Evidences \cup {Trace!None}, result : TraceResults \cup {Trace!None}]

PinnedOf(run) == {name \in Trace!TraceNames : run[name] \in {"exact", "empty", "again"}}

TraceSeq(P, n) ==
    IF P = {"t1"} THEN <<Trace!Ref("t1", n)>>
    ELSE IF P = {"t2"} THEN <<Trace!Ref("t2", n)>>
    ELSE <<Trace!Ref("t1", n), Trace!Ref("t2", n)>>

(* Traces, cubins and log are those of capture n, which ended well.        *)
OneCapture(caps, r, n) ==
    /\ n \in DOMAIN caps
    /\ caps[n].exit = "ok" /\ ~caps[n].limit
    /\ PinnedOf(caps[n]) # {}
    /\ PinnedOf(caps[n]) = {name \in Trace!TraceNames : caps[n][name] \in {"exact", "again"}}
    /\ r.traces = TraceSeq(PinnedOf(caps[n]), n)
    /\ r.cubins = <<Trace!Ref("cubin", n)>>
    /\ r.log = Trace!Ref("log", n)

ReadAs(r, n) == r.read = [i \in DOMAIN r.traces |-> n]

GoodResult(caps, r) ==
    /\ Trace!Accepts(Trace!Worded(r))
    /\ r.completeness = "complete" =>
           \E n \in DOMAIN caps : OneCapture(caps, r, n) /\ ReadAs(r, n)

(* How far the promotion of capture a.n is.                                *)
Promoted(a, P) ==
    \/ a.traces = <<>> /\ a.cubins = <<>> /\ a.todo = Trace!InOrder(P)
    \/ /\ P = {"t1", "t2"}
       /\ a.traces = <<Trace!Ref("t1", a.n)>> /\ a.cubins = <<>> /\ a.todo = <<"t2", "cubin">>
    \/ a.traces = TraceSeq(P, a.n) /\ a.cubins = <<>> /\ a.todo = <<"cubin">>
    \/ a.traces = TraceSeq(P, a.n) /\ a.cubins = <<Trace!Ref("cubin", a.n)>> /\ a.todo = <<>>

Untouched(a) == a.traces = <<>> /\ a.cubins = <<>>
Unfinished(a) == a.analysis = Trace!None /\ a.result = Trace!None

AttemptInv(a) ==
    /\ a \in Attempts
    /\ a.at = "capture" => Untouched(a) /\ Unfinished(a) /\ a.log = Trace!None
    /\ a.at \in {"log", "select"} =>
           Untouched(a) /\ Unfinished(a) /\ a.log = Trace!None /\ a.n \in DOMAIN captures
    /\ a.at = "promote" =>
           /\ Unfinished(a) /\ a.log = Trace!None /\ a.n \in DOMAIN captures
           /\ PinnedOf(captures[a.n]) # {}
           /\ Promoted(a, PinnedOf(captures[a.n]))
           /\ \A i \in DOMAIN a.traces : dir[a.traces[i].name] = a.n
    /\ a.at = "analyze" =>
           /\ Unfinished(a)
           /\ \E n \in DOMAIN captures : OneCapture(captures, a, n) /\ ReadAs(a, n)
    /\ a.at \in {"seal", "envelope", "marker"} =>
           /\ a.result \in TraceResults /\ a.result.binding = a.binding
           /\ GoodResult(captures, a.result)
    /\ a.at = "marker" => envelope = a.result

TraceType ==
    /\ captures \in Seq(CaptureRecord)
    /\ dir \in [Trace!Names -> Nat]
    /\ envelope \in TraceResults \cup {Trace!None}

ProgressIsOneCapture ==
    progress # Trace!None =>
        /\ progress \in TraceResults
        /\ \E n \in DOMAIN captures : OneCapture(captures, progress, n)

MarkerIsFinal ==
    /\ marker # Trace!None =>
           /\ att = Trace!Idle /\ envelope # Trace!None
           /\ marker = [key |-> envelope.binding, sha |-> envelope]
    /\ reader # Trace!Idle => /\ reader.at = "envelope" /\ marker # Trace!None
                              /\ reader.marker = marker
    /\ \A x \in loaded : /\ marker # Trace!None
                         /\ x.result = envelope /\ x.binding = envelope.binding

TraceInv ==
    /\ TraceType /\ ProgressIsOneCapture /\ MarkerIsFinal
    /\ att # Trace!Idle => AttemptInv(att)
    /\ envelope # Trace!None => GoodResult(captures, envelope)

TraceInvOfKind == kind = "reg_trace" => TraceInv

-----------------------------------------------------------------------------
LEMMA TraceNone ==
    /\ \A r \in TraceResults : r # Trace!None
    /\ \A e \in Evidences : e # Trace!None
    /\ \A r \in Refs : r # Trace!None
    /\ \A a \in Attempts : a # Trace!Idle
    /\ \A k, s : [key |-> k, sha |-> s] # Trace!None
<1>1. DOMAIN Trace!None = {"none"}
  BY DEF Trace!None
<1>2. \A r \in TraceResults : "binding" \in DOMAIN r
  BY DEF TraceResults
<1>3. \A e \in Evidences : "status" \in DOMAIN e
  BY DEF Evidences
<1>4. \A r \in Refs : "name" \in DOMAIN r
  BY DEF Refs
<1>5. \A a \in Attempts : a # Trace!Idle
  BY DEF Attempts, Trace!Idle
<1>6. \A k, s : "key" \in DOMAIN [key |-> k, sha |-> s]
  OBVIOUS
<1> QED BY <1>1, <1>2, <1>3, <1>4, <1>5, <1>6

LEMMA PinnedCases ==
    ASSUME NEW run
    PROVE  PinnedOf(run) \in {{}, {"t1"}, {"t2"}, {"t1", "t2"}}
BY DEF PinnedOf, Trace!TraceNames

LEMMA RefFacts ==
    /\ \A name, n : Trace!Ref(name, n).name = name /\ Trace!Ref(name, n).sha = n
    /\ \A name \in Trace!Names, n \in Nat : Trace!Ref(name, n) \in Refs
BY DEF Trace!Ref, Refs

LEMMA OneTuple ==
    ASSUME NEW S, NEW x \in S, NEW s, s = <<x>>
    PROVE  s \in Seq(S) /\ s # <<>> /\ DOMAIN s = {1} /\ s[1] = x /\ Len(s) = 1
<1>1. s \in Seq(S)
  OBVIOUS
<1>2. Len(s) = 1
  OBVIOUS
<1>3. s[1] = x
  OBVIOUS
<1>4. DOMAIN s = 1..1 /\ 1..1 = {1}
  BY <1>1, <1>2
<1> QED BY <1>1, <1>2, <1>3, <1>4

LEMMA TwoTuple ==
    ASSUME NEW S, NEW x \in S, NEW y \in S, NEW s, s = <<x, y>>
    PROVE  s \in Seq(S) /\ s # <<>> /\ DOMAIN s = {1, 2} /\ s[1] = x /\ s[2] = y /\ Len(s) = 2
<1>1. s \in Seq(S)
  OBVIOUS
<1>2. Len(s) = 2
  OBVIOUS
<1>3. s[1] = x /\ s[2] = y
  OBVIOUS
<1>4. DOMAIN s = 1..2 /\ 1..2 = {1, 2}
  BY <1>1, <1>2
<1> QED BY <1>1, <1>2, <1>3, <1>4

NamesOf(traces) == {traces[i].name : i \in DOMAIN traces}
Distinct(traces) == Cardinality(NamesOf(traces)) = Len(traces)

(* The traces of a capture, one by one.                                    *)
LEMMA TraceSeqFacts ==
    ASSUME NEW P \in {{"t1"}, {"t2"}, {"t1", "t2"}}, NEW n \in Nat, NEW s, s = TraceSeq(P, n)
    PROVE  /\ s \in Seq(Refs) /\ s # <<>> /\ NamesOf(s) = P /\ Distinct(s)
           /\ \A i \in DOMAIN s : s[i].sha = n /\ s[i].name \in Trace!TraceNames
<1> DEFINE r1 == Trace!Ref("t1", n)
           r2 == Trace!Ref("t2", n)
<1>1. r1 \in Refs /\ r2 \in Refs /\ r1.name = "t1" /\ r2.name = "t2" /\ r1.sha = n /\ r2.sha = n
  BY RefFacts DEF Trace!Names, Trace!TraceNames
<1>2. /\ P = {"t1"} => s = <<r1>>
      /\ P = {"t2"} => s = <<r2>>
      /\ P = {"t1", "t2"} => s = <<r1, r2>>
  <2>1. {"t1"} # {"t2"} /\ {"t1", "t2"} # {"t1"} /\ {"t1", "t2"} # {"t2"}
    OBVIOUS
  <2> QED BY <2>1 DEF TraceSeq
<1> HIDE DEF r1, r2
<1> SUFFICES /\ s \in Seq(Refs) /\ s # <<>>
             /\ \A i \in DOMAIN s : s[i].sha = n /\ s[i].name \in Trace!TraceNames
             /\ {s[i].name : i \in DOMAIN s} = P
             /\ Cardinality(P) = Len(s)
  BY DEF NamesOf, Distinct
<1>3. CASE P = {"t1"}
  <2>1. s \in Seq(Refs) /\ s # <<>> /\ DOMAIN s = {1} /\ s[1] = r1 /\ Len(s) = 1
    BY <1>1, <1>2, <1>3, OneTuple
  <2>2. Cardinality(P) = 1
    BY <1>3, FS_Singleton
  <2>3. {s[i].name : i \in DOMAIN s} = P
    BY <1>1, <1>3, <2>1
  <2> QED BY <1>1, <2>1, <2>2, <2>3 DEF Trace!TraceNames
<1>4. CASE P = {"t2"}
  <2>1. s \in Seq(Refs) /\ s # <<>> /\ DOMAIN s = {1} /\ s[1] = r2 /\ Len(s) = 1
    BY <1>1, <1>2, <1>4, OneTuple
  <2>2. Cardinality(P) = 1
    BY <1>4, FS_Singleton
  <2>3. {s[i].name : i \in DOMAIN s} = P
    BY <1>1, <1>4, <2>1
  <2> QED BY <1>1, <2>1, <2>2, <2>3 DEF Trace!TraceNames
<1>5. CASE P = {"t1", "t2"}
  <2>1. s \in Seq(Refs) /\ s # <<>> /\ DOMAIN s = {1, 2} /\ s[1] = r1 /\ s[2] = r2 /\ Len(s) = 2
    BY <1>1, <1>2, <1>5, TwoTuple
  <2>2. Cardinality(P) = 2
    <3>1. IsFiniteSet({"t1"}) /\ Cardinality({"t1"}) = 1
      BY FS_Singleton
    <3>2. P = {"t1"} \cup {"t2"} /\ "t2" \notin {"t1"}
      BY <1>5
    <3>3. Cardinality({"t1"} \cup {"t2"}) = Cardinality({"t1"}) + 1
      BY <3>1, <3>2, FS_AddElement
    <3> QED BY <3>1, <3>2, <3>3
  <2>3. {s[i].name : i \in DOMAIN s} = P
    BY <1>1, <1>5, <2>1
  <2> QED BY <1>1, <2>1, <2>2, <2>3 DEF Trace!TraceNames
<1> QED BY <1>3, <1>4, <1>5

LEMMA NoNames ==
    ASSUME NEW s, s = <<>>
    PROVE  NamesOf(s) = {} /\ Distinct(s)
<1>1. NamesOf(s) = {}
  BY DEF NamesOf
<1> QED BY <1>1, FS_EmptySet DEF Distinct

LEMMA CaptureIsKept ==
    ASSUME NEW caps \in Seq(CaptureRecord), NEW run, NEW r, NEW n, OneCapture(caps, r, n)
    PROVE  /\ n \in DOMAIN Append(caps, run)
           /\ OneCapture(Append(caps, run), r, n)
<1>1. n \in DOMAIN caps /\ n \in DOMAIN Append(caps, run) /\ Append(caps, run)[n] = caps[n]
  BY DEF OneCapture
<1> QED BY <1>1 DEF OneCapture

LEMMA GoodIsKept ==
    ASSUME NEW caps \in Seq(CaptureRecord), NEW run, NEW r, GoodResult(caps, r)
    PROVE  GoodResult(Append(caps, run), r)
BY CaptureIsKept DEF GoodResult

LEMMA OneCaptureFacts ==
    ASSUME NEW caps \in Seq(CaptureRecord), NEW r, NEW n, OneCapture(caps, r, n)
    PROVE  /\ n \in Nat /\ r.traces \in Seq(Refs) /\ r.traces # <<>> /\ Distinct(r.traces)
           /\ \A i \in DOMAIN r.traces : r.traces[i].sha = n /\ r.traces[i].name \in Trace!TraceNames
           /\ NamesOf(r.traces) = PinnedOf(caps[n])
           /\ r.cubins \in Seq(Refs) /\ r.cubins # <<>> /\ DOMAIN r.cubins = {1}
           /\ r.cubins[1].sha = n
           /\ r.log \in Refs /\ r.log # Trace!None /\ r.log.sha = n
<1>1. n \in Nat /\ PinnedOf(caps[n]) \in {{"t1"}, {"t2"}, {"t1", "t2"}}
  BY PinnedCases DEF OneCapture
<1>2. r.traces = TraceSeq(PinnedOf(caps[n]), n)
  BY DEF OneCapture
<1>3. /\ r.traces \in Seq(Refs) /\ r.traces # <<>> /\ Distinct(r.traces)
      /\ \A i \in DOMAIN r.traces : r.traces[i].sha = n /\ r.traces[i].name \in Trace!TraceNames
      /\ NamesOf(r.traces) = PinnedOf(caps[n])
  BY <1>1, <1>2, TraceSeqFacts
<1>4. Trace!Ref("cubin", n) \in Refs /\ Trace!Ref("log", n) \in Refs
  BY <1>1, RefFacts DEF Trace!Names
<1>5. r.cubins = <<Trace!Ref("cubin", n)>> /\ r.log = Trace!Ref("log", n)
  BY DEF OneCapture
<1>6. /\ r.cubins \in Seq(Refs) /\ r.cubins # <<>> /\ DOMAIN r.cubins = {1}
      /\ r.cubins[1] = Trace!Ref("cubin", n)
  BY <1>4, <1>5, OneTuple
<1> QED BY <1>1, <1>3, <1>4, <1>5, <1>6, RefFacts, TraceNone

LEMMA SameCardinality == \A S : Trace!Cardinality(S) = Cardinality(S)
BY Zenon DEF Trace!Cardinality, Cardinality

LEMMA FailureAccepted ==
    ASSUME NEW r, r.status # "SUCCEEDED", r.error = "words", r.completeness = "partial",
           r.analysis = Trace!None, Distinct(r.traces)
    PROVE  Trace!Accepts(r)
BY SameCardinality DEF Trace!Accepts, Trace!FailureShape, Distinct, NamesOf

(* Wording a result leaves everything else as it was.                      *)
LEMMA WordedFacts ==
    ASSUME NEW r \in TraceResults,
           r.error = "words" \/ (r.status = "FAILED" /\ r.error = "blanks")
    PROVE  LET w == Trace!Worded(r)
           IN  /\ w.error = "words" /\ w.status = r.status
               /\ w.completeness = r.completeness /\ w.analysis = r.analysis
               /\ w.traces = r.traces
<1>1. CASE Trace!HandsOnBlanks(r)
  <2>1. Trace!Worded(r) = [r EXCEPT !.error = "words"]
    BY <1>1 DEF Trace!Worded
  <2> QED BY <2>1 DEF TraceResults
<1>2. CASE ~Trace!HandsOnBlanks(r)
  <2>1. Trace!Worded(r) = r
    BY <1>2 DEF Trace!Worded
  <2> QED BY <1>2, <2>1 DEF Trace!HandsOnBlanks
<1> QED BY <1>1, <1>2

(* An attempt that ends without an analysis: _TraceRunState.result with an *)
(* error.                                                                  *)
LEMMA FailureIsGood ==
    ASSUME NEW a \in Attempts, a.analysis = Trace!None, Distinct(a.traces),
           NEW status \in {"FAILED", "TIMED_OUT", "INFRA_ERROR"},
           NEW error, error = "words" \/ (status = "FAILED" /\ error = "blanks"),
           Trace!Finish(a, status, error, FALSE)
    PROVE  att' # Trace!Idle /\ AttemptInv(att)'
<1> DEFINE r == Trace!ResultOf(a, status, error, FALSE)
<1>1. /\ r.binding = a.binding /\ r.status = status /\ r.error = error
      /\ r.completeness = "partial" /\ r.traces = a.traces /\ r.analysis = Trace!None
      /\ r.cubins = a.cubins /\ r.log = a.log /\ r.read = a.read
  BY DEF Trace!ResultOf
<1>2. r \in TraceResults
  BY DEF Trace!ResultOf, TraceResults, Attempts
<1>4. att' = [a EXCEPT !.at = "seal", !.result = r]
  BY DEF Trace!Finish
<1> HIDE DEF r
<1>3. Trace!Accepts(Trace!Worded(r))
  <2> DEFINE w == Trace!Worded(r)
  <2>1. /\ w.error = "words" /\ w.status = status /\ w.completeness = "partial"
        /\ w.analysis = Trace!None /\ w.traces = a.traces
    BY <1>1, <1>2, WordedFacts
  <2> HIDE DEF w
  <2>2. Trace!Accepts(w)
    BY <2>1, FailureAccepted
  <2> QED BY <2>2 DEF w
<1>5. att' \in Attempts /\ att'.at = "seal" /\ att'.result = r /\ att'.binding = a.binding
  BY <1>2, <1>4 DEF Attempts
<1>6. GoodResult(captures', r)
  BY <1>1, <1>3 DEF GoodResult
<1> QED BY <1>1, <1>2, <1>5, <1>6, TraceNone DEF AttemptInv

LEMMA NothingPromoted ==
    ASSUME NEW a, Untouched(a)
    PROVE  Distinct(a.traces)
BY NoNames DEF Untouched

LEMMA PromotedFacts ==
    ASSUME NEW a \in Attempts, NEW P \in {{"t1"}, {"t2"}, {"t1", "t2"}}, Promoted(a, P)
    PROVE  Distinct(a.traces)
<1>1. a.n \in Nat
  BY DEF Attempts
<1>2. CASE a.traces = <<>>
  BY <1>2, NoNames
<1>3. CASE a.traces = TraceSeq(P, a.n)
  BY <1>1, <1>3, TraceSeqFacts
<1>4. CASE a.traces = <<Trace!Ref("t1", a.n)>>
  <2>1. a.traces = TraceSeq({"t1"}, a.n)
    BY <1>4 DEF TraceSeq
  <2> QED BY <1>1, <2>1, TraceSeqFacts
<1> QED BY <1>2, <1>3, <1>4 DEF Promoted

(* A step of the attempt leaves the checkpoint alone.                      *)
LEMMA AttemptMoves ==
    ASSUME TraceInv, att # Trace!Idle, UNCHANGED <<progress, envelope, marker, reader, loaded>>,
           \/ captures' = captures
           \/ \E run \in CaptureRecord : captures' = Append(captures, run),
           dir' \in [Trace!Names -> Nat], att' # Trace!Idle => AttemptInv(att)'
    PROVE  TraceInv'
<1>0. captures \in Seq(CaptureRecord)
  BY DEF TraceInv, TraceType
<1>1. captures \in Seq(CaptureRecord) /\ captures' \in Seq(CaptureRecord)
  BY <1>0, AppendProperties
<1>2. marker = Trace!None /\ reader = Trace!Idle /\ loaded = {}
  BY DEF TraceInv, MarkerIsFinal
<1>3. TraceType' /\ MarkerIsFinal'
  BY <1>1, <1>2 DEF TraceInv, TraceType, MarkerIsFinal
<1>4. ProgressIsOneCapture'
  <2>1. CASE captures' = captures
    BY <2>1 DEF TraceInv, ProgressIsOneCapture
  <2>2. ASSUME NEW run, captures' = Append(captures, run) PROVE ProgressIsOneCapture'
    BY <1>1, <2>2, CaptureIsKept DEF TraceInv, ProgressIsOneCapture
  <2> QED BY <2>1, <2>2
<1>5. (envelope # Trace!None => GoodResult(captures, envelope))'
  <2>1. CASE captures' = captures
    BY <2>1 DEF TraceInv
  <2>2. ASSUME NEW run, captures' = Append(captures, run)
        PROVE  envelope' # Trace!None => GoodResult(captures', envelope')
    BY <1>1, <2>2, GoodIsKept DEF TraceInv
  <2> QED BY <2>1, <2>2
<1> QED BY <1>3, <1>4, <1>5 DEF TraceInv

-----------------------------------------------------------------------------
(* The checkpoint.                                                         *)

LEMMA TraceStarts == ASSUME Trace!Init PROVE TraceInv
<1>1. captures \in Seq(CaptureRecord)
  BY DEF Trace!Init
<1>2. dir \in [Trace!Names -> Nat]
  BY DEF Trace!Init
<1> QED BY <1>1, <1>2 DEF Trace!Init, TraceInv, TraceType, ProgressIsOneCapture, MarkerIsFinal

LEMMA NewAttemptFacts ==
    ASSUME NEW b \in Bindings, NEW a, a = Trace!NewAttempt(b)
    PROVE  /\ a \in Attempts /\ a.at = "capture" /\ a.traces = <<>> /\ a.cubins = <<>>
           /\ a.analysis = Trace!None /\ a.result = Trace!None /\ a.log = Trace!None
<1>1. <<>> \in Seq(Refs) /\ <<>> \in Seq(Nat) /\ <<>> \in Seq(Trace!Names)
  OBVIOUS
<1> QED BY <1>1 DEF Trace!NewAttempt, Attempts

LEMMA BeginStep == ASSUME TraceInv, Trace!Begin PROVE TraceInv'
<1>1. PICK b \in Bindings : Trace!Initialize(b)
  BY DEF Trace!Begin
<1>2. att = Trace!Idle /\ UNCHANGED <<captures, dir, progress, reader>>
  BY DEF Trace!Begin
<1>3. ProgressIsOneCapture'
  BY <1>2 DEF TraceInv, ProgressIsOneCapture
<1>4. CASE marker # Trace!None
  <2>1. /\ UNCHANGED <<att, envelope, marker>>
        /\ IF Trace!Loads(marker, envelope, b) THEN Trace!Loaded(b, envelope) ELSE loaded' = loaded
    BY <1>1, <1>4 DEF Trace!Initialize
  <2>2. \A x \in loaded' : x \in loaded \/ (x.result = envelope /\ x.binding = envelope.binding)
    BY <2>1 DEF Trace!Loads, Trace!Loaded
  <2>3. MarkerIsFinal'
    BY <1>2, <1>4, <2>1, <2>2 DEF TraceInv, MarkerIsFinal
  <2>4. TraceType' /\ (envelope # Trace!None => GoodResult(captures, envelope))'
    BY <1>2, <2>1 DEF TraceInv, TraceType
  <2> QED BY <1>2, <1>3, <2>1, <2>3, <2>4 DEF TraceInv
<1>5. CASE marker = Trace!None
  <2>1. envelope' = Trace!None /\ marker' = Trace!None /\ att' = Trace!NewAttempt(b) /\ loaded' = loaded
    BY <1>1, <1>5 DEF Trace!Initialize
  <2>2. reader = Trace!Idle /\ loaded = {}
    BY <1>5 DEF TraceInv, MarkerIsFinal
  <2>3. TraceType' /\ MarkerIsFinal'
    BY <1>2, <2>1, <2>2 DEF TraceInv, TraceType, MarkerIsFinal
  <2>4. AttemptInv(att)'
    BY <2>1, NewAttemptFacts DEF AttemptInv, Untouched, Unfinished
  <2> QED BY <1>3, <2>1, <2>3, <2>4 DEF TraceInv
<1> QED BY <1>4, <1>5

(* The fields of an attempt that moves on to the next step of the sealing. *)
LEMMA MovesOn ==
    ASSUME NEW a \in Attempts, NEW c,
           NEW there \in {"capture", "log", "select", "promote", "analyze", "seal", "envelope",
                          "marker"},
           c = [a EXCEPT !.at = there]
    PROVE  /\ c \in Attempts /\ c.at = there /\ c.binding = a.binding /\ c.n = a.n
           /\ c.todo = a.todo /\ c.traces = a.traces /\ c.cubins = a.cubins /\ c.log = a.log
           /\ c.read = a.read /\ c.analysis = a.analysis /\ c.result = a.result
BY DEF Attempts

(* A step of the sealing: no marker stands while it lasts.                 *)
LEMMA SealUnlinkStep == ASSUME TraceInv, Trace!SealUnlink PROVE TraceInv'
<1>1. /\ att.at = "seal" /\ att' = [att EXCEPT !.at = "envelope"] /\ marker' = Trace!None
      /\ UNCHANGED <<captures, dir, progress, envelope, reader, loaded>>
  BY DEF Trace!SealUnlink
<1>2. att # Trace!Idle /\ AttemptInv(att)
  BY <1>1 DEF TraceInv, Trace!Idle
<1>3. marker = Trace!None
  BY <1>2 DEF TraceInv, MarkerIsFinal
<1>4. /\ att' \in Attempts /\ att'.at = "envelope" /\ att'.binding = att.binding
      /\ att'.result = att.result
  BY <1>1, <1>2, MovesOn DEF AttemptInv
<1>5. AttemptInv(att)'
  BY <1>1, <1>2, <1>4 DEF AttemptInv
<1>6. dir' \in [Trace!Names -> Nat]
  BY <1>1 DEF TraceInv, TraceType
<1> QED BY <1>1, <1>2, <1>3, <1>5, <1>6, AttemptMoves

LEMMA SealEnvelopeStep == ASSUME TraceInv, Trace!SealEnvelope PROVE TraceInv'
<1>1. /\ att.at = "envelope" /\ att' = [att EXCEPT !.at = "marker"] /\ envelope' = att.result
      /\ UNCHANGED <<captures, dir, progress, marker, reader, loaded>>
  BY DEF Trace!SealEnvelope
<1>2. att # Trace!Idle /\ AttemptInv(att)
  BY <1>1 DEF TraceInv, Trace!Idle
<1>3. marker = Trace!None /\ reader = Trace!Idle /\ loaded = {}
  BY <1>2 DEF TraceInv, MarkerIsFinal
<1>4. /\ att' \in Attempts /\ att'.at = "marker" /\ att'.binding = att.binding
      /\ att'.result = att.result
  BY <1>1, <1>2, MovesOn DEF AttemptInv
<1>5. att.result \in TraceResults /\ att.result.binding = att.binding /\ GoodResult(captures, att.result)
  BY <1>1, <1>2 DEF AttemptInv
<1>6. AttemptInv(att)'
  BY <1>1, <1>4, <1>5 DEF AttemptInv
<1>7. TraceType' /\ MarkerIsFinal' /\ ProgressIsOneCapture'
  BY <1>1, <1>3, <1>5 DEF TraceInv, TraceType, MarkerIsFinal, ProgressIsOneCapture
<1> QED BY <1>1, <1>5, <1>6, <1>7 DEF TraceInv

LEMMA SealMarkerStep == ASSUME TraceInv, Trace!SealMarker PROVE TraceInv'
<1>1. /\ att.at = "marker" /\ att' = Trace!Idle
      /\ marker' = [key |-> att.binding, sha |-> envelope]
      /\ UNCHANGED <<captures, dir, progress, envelope, reader, loaded>>
  BY DEF Trace!SealMarker
<1>2. att # Trace!Idle /\ AttemptInv(att)
  BY <1>1 DEF TraceInv, Trace!Idle
<1>3. marker = Trace!None /\ reader = Trace!Idle /\ loaded = {}
  BY <1>2 DEF TraceInv, MarkerIsFinal
<1>4. envelope = att.result /\ envelope \in TraceResults /\ envelope.binding = att.binding
  BY <1>1, <1>2 DEF AttemptInv
<1>5. MarkerIsFinal'
  BY <1>1, <1>3, <1>4, TraceNone DEF MarkerIsFinal
<1>6. TraceType' /\ ProgressIsOneCapture'
  BY <1>1 DEF TraceInv, TraceType, ProgressIsOneCapture
<1> QED BY <1>1, <1>5, <1>6 DEF TraceInv

LEMMA ReadMarkerStep == ASSUME TraceInv, Trace!ReadMarker PROVE TraceInv'
<1>1. /\ marker # Trace!None
      /\ \E b : reader' = [at |-> "envelope", binding |-> b, marker |-> marker]
      /\ UNCHANGED <<captures, dir, progress, envelope, marker, att, loaded>>
  BY DEF Trace!ReadMarker, Trace!disk
<1>2. reader'.at = "envelope" /\ reader'.marker = marker
  BY <1>1
<1>3. MarkerIsFinal'
  BY <1>1, <1>2 DEF TraceInv, MarkerIsFinal
<1>4. TraceType' /\ ProgressIsOneCapture'
  BY <1>1 DEF TraceInv, TraceType, ProgressIsOneCapture
<1>5. att' = Trace!Idle
  BY <1>1 DEF TraceInv, MarkerIsFinal
<1> QED BY <1>1, <1>3, <1>4, <1>5 DEF TraceInv

LEMMA ReadEnvelopeStep == ASSUME TraceInv, Trace!ReadEnvelope PROVE TraceInv'
<1>1. /\ reader.at = "envelope" /\ reader' = Trace!Idle
      /\ IF Trace!Loads(reader.marker, envelope, reader.binding)
         THEN Trace!Loaded(reader.binding, envelope) ELSE loaded' = loaded
      /\ UNCHANGED <<captures, dir, progress, envelope, marker, att>>
  BY DEF Trace!ReadEnvelope, Trace!disk
<1>2. reader # Trace!Idle
  BY <1>1 DEF Trace!Idle
<1>3. marker # Trace!None /\ att = Trace!Idle
  BY <1>2 DEF TraceInv, MarkerIsFinal
<1>4. \A x \in loaded' : x \in loaded \/ (x.result = envelope /\ x.binding = envelope.binding)
  BY <1>1 DEF Trace!Loads, Trace!Loaded
<1>5. MarkerIsFinal'
  BY <1>1, <1>3, <1>4 DEF TraceInv, MarkerIsFinal
<1>6. TraceType' /\ ProgressIsOneCapture'
  BY <1>1 DEF TraceInv, TraceType, ProgressIsOneCapture
<1> QED BY <1>1, <1>3, <1>5, <1>6 DEF TraceInv

LEMMA CrashStep == ASSUME TraceInv, Trace!Crash PROVE TraceInv'
<1>1. att # Trace!Idle /\ att' = Trace!Idle
      /\ UNCHANGED <<captures, dir, progress, envelope, marker, reader, loaded>>
  BY DEF Trace!Crash, Trace!disk
<1>2. dir' \in [Trace!Names -> Nat]
  BY <1>1 DEF TraceInv, TraceType
<1> QED BY <1>1, <1>2, AttemptMoves

-----------------------------------------------------------------------------
(* A fresh capture.                                                        *)

LEMMA RunsAreRecords == \A run \in Trace!Runs : run \in CaptureRecord
<1>1. Trace!PcOffsets \in SUBSET Points
  BY DEF Trace!PcOffsets
<1> QED BY <1>1 DEF Trace!Runs, CaptureRecord

(* What an attempt under way has, for the steps up to the promotion.       *)
LEMMA UnderWay ==
    ASSUME TraceInv, att.at \in {"capture", "log", "select", "promote"}
    PROVE  /\ att # Trace!Idle /\ AttemptInv(att) /\ att \in Attempts
           /\ att.analysis = Trace!None /\ att.result = Trace!None /\ att.log = Trace!None
           /\ Distinct(att.traces)
           /\ captures \in Seq(CaptureRecord) /\ dir \in [Trace!Names -> Nat]
           /\ att.at # "capture" => att.n \in DOMAIN captures /\ captures[att.n] \in CaptureRecord
<1>1. att # Trace!Idle /\ AttemptInv(att)
  BY DEF TraceInv, Trace!Idle
<1>2. att \in Attempts
  BY <1>1 DEF AttemptInv
<1>3. captures \in Seq(CaptureRecord) /\ dir \in [Trace!Names -> Nat]
  BY DEF TraceInv, TraceType
<1>4. att.analysis = Trace!None /\ att.result = Trace!None /\ att.log = Trace!None
  BY <1>1 DEF AttemptInv, Unfinished
<1>5. att.at # "capture" => att.n \in DOMAIN captures
  BY <1>1 DEF AttemptInv
<1>6. \A n \in DOMAIN captures : captures[n] \in CaptureRecord
  BY <1>3
<1>7. Distinct(att.traces)
  <2>1. CASE att.at = "promote"
    <3>1. PinnedOf(captures[att.n]) \in {{"t1"}, {"t2"}, {"t1", "t2"}}
      BY <1>1, <2>1, PinnedCases DEF AttemptInv
    <3>2. Promoted(att, PinnedOf(captures[att.n]))
      BY <1>1, <2>1 DEF AttemptInv
    <3> QED BY <1>2, <3>1, <3>2, PromotedFacts
  <2>2. CASE att.at # "promote"
    BY <1>1, <2>2, NothingPromoted DEF AttemptInv
  <2> QED BY <2>1, <2>2
<1> QED BY <1>1, <1>2, <1>3, <1>4, <1>5, <1>6, <1>7

LEMMA WithLog ==
    ASSUME NEW a \in Attempts, NEW l \in Refs \cup {Trace!None}, NEW c, c = [a EXCEPT !.log = l]
    PROVE  /\ c \in Attempts /\ c.at = a.at /\ c.binding = a.binding /\ c.n = a.n
           /\ c.todo = a.todo /\ c.traces = a.traces /\ c.cubins = a.cubins /\ c.log = l
           /\ c.read = a.read /\ c.analysis = a.analysis /\ c.result = a.result
BY DEF Attempts

LEMMA SealFailsStep ==
    ASSUME TraceInv, att.at \in {"log", "select", "promote"}, Trace!SealFails(att)
    PROVE  att' # Trace!Idle /\ AttemptInv(att)'
<1> DEFINE c == [att EXCEPT !.log = Trace!SealedLog]
<1>1. Trace!SealedLog \in Refs \cup {Trace!None}
  BY UnderWay, RefFacts DEF Trace!SealedLog, Trace!Names
<1>2. c \in Attempts /\ c.analysis = Trace!None /\ Distinct(c.traces)
  BY <1>1, UnderWay, WithLog
<1>3. \/ Trace!Finish(c, "FAILED", "words", FALSE)
      \/ Trace!Finish(c, "TIMED_OUT", "words", FALSE)
      \/ Trace!Finish(c, "INFRA_ERROR", "words", FALSE)
  BY DEF Trace!SealFails, Trace!Fails
<1> HIDE DEF c
<1> QED BY <1>2, <1>3, FailureIsGood

LEMMA CaptureStep == ASSUME TraceInv, Trace!Capture PROVE TraceInv'
<1>1. att.at = "capture" /\ UNCHANGED <<dir, progress, envelope, marker, reader, loaded>>
  BY DEF Trace!Capture, Trace!disk
<1>2. /\ att # Trace!Idle /\ att \in Attempts /\ AttemptInv(att) /\ Distinct(att.traces)
      /\ captures \in Seq(CaptureRecord) /\ dir' \in [Trace!Names -> Nat]
  BY <1>1, UnderWay
<1>3. CASE Trace!Fails(att) /\ UNCHANGED captures
  <2>1. att' # Trace!Idle /\ AttemptInv(att)'
    BY <1>1, <1>2, <1>3, UnderWay, FailureIsGood DEF Trace!Fails
  <2> QED BY <1>1, <1>2, <1>3, <2>1, AttemptMoves
<1>4. ASSUME NEW run \in Trace!Runs, captures' = Append(captures, run),
             att' = [att EXCEPT !.at = "log", !.n = Len(captures) + 1]
      PROVE  TraceInv'
  <2>1. run \in CaptureRecord
    BY RunsAreRecords
  <2>2. Len(captures) + 1 \in Nat /\ Len(captures) + 1 \in DOMAIN captures'
    BY <1>2, <1>4
  <2>3. /\ att' \in Attempts /\ att'.at = "log" /\ att'.n = Len(captures) + 1
        /\ att'.traces = att.traces /\ att'.cubins = att.cubins
        /\ att'.log = att.log /\ att'.analysis = att.analysis /\ att'.result = att.result
    BY <1>2, <1>4, <2>2 DEF Attempts
  <2>4. AttemptInv(att)'
    BY <1>1, <1>2, <2>2, <2>3 DEF AttemptInv, Untouched, Unfinished
  <2> QED BY <1>1, <1>2, <1>4, <2>1, <2>4, AttemptMoves
<1> QED BY <1>3, <1>4 DEF Trace!Capture

LEMMA ConfigStep == ASSUME TraceInv, Trace!ConfigChanges PROVE TraceInv'
<1>1. att.at = "log" /\ UNCHANGED <<captures, dir, progress, envelope, marker, att, reader, loaded>>
  BY DEF Trace!ConfigChanges, Trace!disk
<1> QED BY <1>1 DEF TraceInv, TraceType, ProgressIsOneCapture, MarkerIsFinal, AttemptInv

LEMMA PromoteLogStep == ASSUME TraceInv, Trace!PromoteLog PROVE TraceInv'
<1>1. att.at = "log" /\ UNCHANGED <<captures, progress, envelope, marker, reader, loaded>>
  BY DEF Trace!PromoteLog
<1>2. /\ att # Trace!Idle /\ att \in Attempts /\ AttemptInv(att)
      /\ dir \in [Trace!Names -> Nat] /\ att.n \in Nat
  BY <1>1, UnderWay DEF Attempts
<1>3. CASE Trace!SealFails(att) /\ UNCHANGED dir
  BY <1>1, <1>2, <1>3, SealFailsStep, AttemptMoves
<1>4. CASE dir' = [dir EXCEPT !["log"] = att.n] /\ att' = [att EXCEPT !.at = "select"]
  <2>1. dir' \in [Trace!Names -> Nat]
    BY <1>2, <1>4
  <2>2. AttemptInv(att)'
    BY <1>1, <1>2, <1>4, MovesOn DEF AttemptInv, Untouched, Unfinished
  <2> QED BY <1>1, <1>2, <2>1, <2>2, AttemptMoves
<1> QED BY <1>3, <1>4 DEF Trace!PromoteLog

LEMMA InOrderIs ==
    /\ Trace!InOrder({"t1"}) = <<"t1", "cubin">>
    /\ Trace!InOrder({"t2"}) = <<"t2", "cubin">>
    /\ Trace!InOrder({"t1", "t2"}) = <<"t1", "t2", "cubin">>
<1>1. "t2" \notin {"t1"} /\ "t1" \notin {"t2"} /\ "t1" \in {"t1", "t2"} /\ "t2" \in {"t1", "t2"}
  OBVIOUS
<1>2. Trace!InOrder({"t1"}) = <<"t1">> \o <<>> \o <<"cubin">>
  BY <1>1 DEF Trace!InOrder
<1>3. Trace!InOrder({"t2"}) = <<>> \o <<"t2">> \o <<"cubin">>
  BY <1>1 DEF Trace!InOrder
<1>4. Trace!InOrder({"t1", "t2"}) = <<"t1">> \o <<"t2">> \o <<"cubin">>
  BY <1>1 DEF Trace!InOrder
<1> QED BY <1>2, <1>3, <1>4

LEMMA SelectStep == ASSUME TraceInv, Trace!Select PROVE TraceInv'
<1>1. att.at = "select" /\ UNCHANGED <<captures, dir, progress, envelope, marker, reader, loaded>>
  BY DEF Trace!Select, Trace!disk
<1>2. /\ att # Trace!Idle /\ att \in Attempts /\ AttemptInv(att)
      /\ dir' \in [Trace!Names -> Nat] /\ att.n \in Nat
  BY <1>1, UnderWay DEF Attempts
<1>3. CASE Trace!SelectionRaises
  <2>1. Trace!SealFails(att)
    BY <1>3 DEF Trace!Select
  <2> QED BY <1>1, <1>2, <2>1, SealFailsStep, AttemptMoves
<1>4. CASE ~Trace!SelectionRaises
  <2> DEFINE P == PinnedOf(captures[att.n])
  <2>1. Trace!Pinned = P
    BY DEF Trace!Pinned, Trace!This, PinnedOf
  <2>2. P # {} /\ att' = [att EXCEPT !.at = "promote", !.todo = Trace!InOrder(P)]
    BY <1>4, <2>1 DEF Trace!Select, Trace!SelectionRaises
  <2>3. P \in {{"t1"}, {"t2"}, {"t1", "t2"}}
    BY <2>2, PinnedCases
  <2> HIDE DEF P
  <2>4. Trace!InOrder(P) \in Seq(Trace!Names)
    <3>1. "t1" \in Trace!Names /\ "t2" \in Trace!Names /\ "cubin" \in Trace!Names
      BY DEF Trace!Names, Trace!TraceNames
    <3>2. <<"t1", "cubin">> \in Seq(Trace!Names) /\ <<"t2", "cubin">> \in Seq(Trace!Names)
          /\ <<"t1", "t2", "cubin">> \in Seq(Trace!Names)
      BY <3>1
    <3> QED BY <2>3, <3>2, InOrderIs, Zenon
  <2>5. /\ att' \in Attempts /\ att'.at = "promote" /\ att'.n = att.n
        /\ att'.todo = Trace!InOrder(P) /\ att'.traces = att.traces /\ att'.cubins = att.cubins
        /\ att'.log = att.log /\ att'.analysis = att.analysis /\ att'.result = att.result
    BY <1>2, <2>2, <2>4 DEF Attempts
  <2>6. Promoted(att', P) /\ att'.traces = <<>>
    BY <1>1, <1>2, <2>5 DEF Promoted, AttemptInv, Untouched
  <2>7. \A i \in DOMAIN att'.traces : dir'[att'.traces[i].name] = att'.n
    BY <2>6
  <2>8. P = PinnedOf(captures'[att'.n])
    BY <1>1, <2>5 DEF P
  <2>9. AttemptInv(att)'
    BY <1>1, <1>2, <2>2, <2>5, <2>6, <2>7, <2>8 DEF AttemptInv, Unfinished
  <2> QED BY <1>1, <1>2, <2>9, AttemptMoves
<1> QED BY <1>3, <1>4

LEMMA TraceSeqIs ==
    ASSUME NEW n
    PROVE  /\ TraceSeq({"t1"}, n) = <<Trace!Ref("t1", n)>>
           /\ TraceSeq({"t2"}, n) = <<Trace!Ref("t2", n)>>
           /\ TraceSeq({"t1", "t2"}, n) = <<Trace!Ref("t1", n), Trace!Ref("t2", n)>>
<1>1. {"t1"} # {"t2"} /\ {"t1", "t2"} # {"t1"} /\ {"t1", "t2"} # {"t2"}
  OBVIOUS
<1> QED BY <1>1 DEF TraceSeq

LEMMA AppendToOne ==
    ASSUME NEW x, NEW y, NEW s, s = <<x>>
    PROVE  Append(s, y) = <<x, y>>
<1> DEFINE two == <<x, y>>
           app == Append(s, y)
<1>1. two \in Seq({x, y}) /\ Len(two) = 2 /\ two[1] = x /\ two[2] = y
  BY TwoTuple
<1>2. s \in Seq({x, y}) /\ Len(s) = 1 /\ s[1] = x
  BY OneTuple
<1>3. app \in Seq({x, y}) /\ Len(app) = 2 /\ app[1] = x /\ app[2] = y
  BY <1>2
<1> HIDE DEF two, app
<1>4. app = two
  <2>1. \A i \in 1..Len(app) : app[i] = two[i]
    BY <1>1, <1>3
  <2> QED BY <1>1, <1>3, <2>1, SeqEqual
<1> QED BY <1>4 DEF two, app

(* The promotion of one more file.                                         *)
LEMMA OneMore ==
    ASSUME NEW a \in Attempts, NEW P \in {{"t1"}, {"t2"}, {"t1", "t2"}}, Promoted(a, P),
           a.todo # <<>>, NEW c, c.n = a.n, c.todo = Tail(a.todo),
           NEW name, name = Head(a.todo),
           c.traces = IF name \in Trace!TraceNames
                      THEN Append(a.traces, Trace!Ref(name, a.n)) ELSE a.traces,
           c.cubins = IF name = "cubin" THEN Append(a.cubins, Trace!Ref(name, a.n)) ELSE a.cubins
    PROVE  /\ Promoted(c, P)
           /\ \/ c.traces = a.traces
              \/ name \in Trace!TraceNames /\ c.traces = Append(a.traces, Trace!Ref(name, a.n))
<1> DEFINE r1 == Trace!Ref("t1", a.n)
           r2 == Trace!Ref("t2", a.n)
           rc == Trace!Ref("cubin", a.n)
<1>6. "t1" \in Trace!TraceNames /\ "t2" \in Trace!TraceNames /\ "cubin" \notin Trace!TraceNames
  BY DEF Trace!TraceNames
<1>7. /\ TraceSeq({"t1"}, a.n) = <<r1>> /\ TraceSeq({"t2"}, a.n) = <<r2>>
      /\ TraceSeq({"t1", "t2"}, a.n) = <<r1, r2>>
  BY TraceSeqIs
<1> HIDE DEF r1, r2, rc
<1>8. CASE a.traces = <<>> /\ a.cubins = <<>> /\ a.todo = Trace!InOrder(P)
  <2>1. CASE P = {"t1"}
    <3>1. a.todo = <<"t1", "cubin">>
      BY <1>8, <2>1, InOrderIs
    <3>2. name = "t1" /\ c.todo = <<"cubin">>
      BY <3>1
    <3>3. c.traces = <<r1>> /\ c.cubins = <<>>
      BY <1>6, <1>8, <3>2 DEF r1
    <3> QED BY <1>6, <1>7, <2>1, <3>2, <3>3 DEF Promoted
  <2>2. CASE P = {"t2"}
    <3>1. a.todo = <<"t2", "cubin">>
      BY <1>8, <2>2, InOrderIs
    <3>2. name = "t2" /\ c.todo = <<"cubin">>
      BY <3>1
    <3>3. c.traces = <<r2>> /\ c.cubins = <<>>
      BY <1>6, <1>8, <3>2 DEF r2
    <3> QED BY <1>6, <1>7, <2>2, <3>2, <3>3 DEF Promoted
  <2>3. CASE P = {"t1", "t2"}
    <3>1. a.todo = <<"t1", "t2", "cubin">>
      BY <1>8, <2>3, InOrderIs
    <3>2. name = "t1" /\ c.todo = <<"t2", "cubin">>
      BY <3>1
    <3>3. c.traces = <<r1>> /\ c.cubins = <<>>
      BY <1>6, <1>8, <3>2 DEF r1
    <3> QED BY <1>6, <2>3, <3>2, <3>3 DEF Promoted, r1
  <2> QED BY <2>1, <2>2, <2>3
<1>9. CASE P = {"t1", "t2"} /\ a.traces = <<r1>> /\ a.cubins = <<>> /\ a.todo = <<"t2", "cubin">>
  <2>1. name = "t2" /\ c.todo = <<"cubin">>
    BY <1>9
  <2>2. c.traces = <<r1, r2>> /\ c.cubins = <<>>
    BY <1>6, <1>9, <2>1, AppendToOne DEF r2
  <2> QED BY <1>6, <1>7, <1>9, <2>1, <2>2 DEF Promoted
<1>10. CASE a.traces = TraceSeq(P, a.n) /\ a.cubins = <<>> /\ a.todo = <<"cubin">>
  <2>1. name = "cubin" /\ c.todo = <<>>
    BY <1>10
  <2>2. c.traces = TraceSeq(P, a.n) /\ c.cubins = <<rc>>
    BY <1>6, <1>10, <2>1 DEF rc
  <2> QED BY <1>6, <1>10, <2>1, <2>2 DEF Promoted, rc
<1> QED BY <1>8, <1>9, <1>10 DEF Promoted, r1

LEMMA PromoteStep == ASSUME TraceInv, Trace!Promote PROVE TraceInv'
<1>1. /\ att.at = "promote" /\ att.todo # <<>>
      /\ UNCHANGED <<captures, progress, envelope, marker, reader, loaded>>
  BY DEF Trace!Promote
<1>2. /\ att # Trace!Idle /\ att \in Attempts /\ AttemptInv(att)
      /\ dir \in [Trace!Names -> Nat] /\ att.n \in Nat
  BY <1>1, UnderWay DEF Attempts
<1> DEFINE P == PinnedOf(captures[att.n])
           name == Head(att.todo)
<1>3. P \in {{"t1"}, {"t2"}, {"t1", "t2"}} /\ Promoted(att, P) /\ att.n \in DOMAIN captures
  BY <1>1, <1>2, PinnedCases DEF AttemptInv
<1>4. CASE Trace!SealFails(att) /\ UNCHANGED dir
  BY <1>1, <1>2, <1>4, SealFailsStep, AttemptMoves
<1>5. CASE /\ dir' = [dir EXCEPT ![name] = att.n]
           /\ att' = [att EXCEPT !.todo = Tail(@),
                         !.traces = IF name \in Trace!TraceNames
                                    THEN Append(@, Trace!Ref(name, att.n)) ELSE @,
                         !.cubins = IF name = "cubin" THEN Append(@, Trace!Ref(name, att.n)) ELSE @]
  <2> HIDE DEF P, name
  <2> DEFINE ts == IF name \in Trace!TraceNames
                   THEN Append(att.traces, Trace!Ref(name, att.n)) ELSE att.traces
             cs == IF name = "cubin" THEN Append(att.cubins, Trace!Ref(name, att.n)) ELSE att.cubins
             td == Tail(att.todo)
  <2>a. name \in Trace!Names /\ td \in Seq(Trace!Names)
    BY <1>1, <1>2 DEF Attempts, name
  <2>b. ts \in Seq(Refs) /\ cs \in Seq(Refs)
    <3>1. Trace!Ref(name, att.n) \in Refs
      BY <1>2, <2>a, RefFacts
    <3>2. att.traces \in Seq(Refs) /\ att.cubins \in Seq(Refs)
      BY <1>2 DEF Attempts
    <3> QED BY <3>1, <3>2
  <2>c. att' = [att EXCEPT !.todo = td, !.traces = ts, !.cubins = cs]
    BY <1>2, <1>5 DEF Attempts
  <2> HIDE DEF ts, cs, td
  <2>d. /\ att' \in Attempts /\ att'.todo = td /\ att'.traces = ts /\ att'.cubins = cs
        /\ att'.n = att.n
    BY <1>2, <2>a, <2>b, <2>c DEF Attempts
  <2>2. /\ att'.at = "promote" /\ att'.n = att.n /\ att'.log = att.log
        /\ att'.analysis = att.analysis /\ att'.result = att.result
    BY <1>1, <1>2, <2>c DEF Attempts
  <2>1. /\ att' \in Attempts /\ Promoted(att', P) /\ name \in Trace!Names
        /\ \/ att'.traces = att.traces
           \/ /\ name \in Trace!TraceNames
              /\ att'.traces = Append(att.traces, Trace!Ref(name, att.n))
    BY <1>1, <1>2, <1>3, <2>a, <2>d, OneMore DEF name, ts, cs, td
  <2>3. dir' \in [Trace!Names -> Nat] /\ dir'[name] = att.n
    BY <1>2, <1>5, <2>1
  <2>4. \A m \in Trace!Names : dir[m] = att.n => dir'[m] = att.n
    BY <1>2, <1>5, <2>1
  <2>5. /\ \A i \in DOMAIN att.traces : dir[att.traces[i].name] = att.n
        /\ att.traces \in Seq(Refs)
    BY <1>1, <1>2 DEF AttemptInv, Attempts
  <2>6. \A i \in DOMAIN att.traces : dir'[att.traces[i].name] = att.n
    <3>1. \A i \in DOMAIN att.traces : att.traces[i] \in Refs
      BY <2>5
    <3>2. \A r \in Refs : r.name \in Trace!Names
      BY DEF Refs
    <3> QED BY <2>4, <2>5, <3>1, <3>2
  <2>7. ASSUME NEW i \in DOMAIN att'.traces PROVE dir'[att'.traces[i].name] = att'.n
    <3>1. CASE att'.traces = att.traces
      BY <2>2, <2>6, <2>7, <3>1
    <3>2. CASE att'.traces = Append(att.traces, Trace!Ref(name, att.n))
      <4>1. att'.traces[i] = Trace!Ref(name, att.n) \/ (i \in DOMAIN att.traces /\ att'.traces[i] = att.traces[i])
        BY <2>5, <2>7, <3>2
      <4> QED BY <2>2, <2>3, <2>6, <4>1, RefFacts
    <3> QED BY <2>1, <3>1, <3>2
  <2>8. P = PinnedOf(captures'[att'.n]) /\ P # {} /\ att'.n \in DOMAIN captures'
    BY <1>1, <1>3, <2>2 DEF P
  <2>9. AttemptInv(att)'
    BY <1>1, <1>2, <2>1, <2>2, <2>7, <2>8 DEF AttemptInv, Unfinished
  <2> QED BY <1>1, <1>2, <2>3, <2>9, AttemptMoves
<1> QED BY <1>4, <1>5 DEF Trace!Promote

(* Nothing is left to promote: the files are those of the capture.         *)
LEMMA AllPromoted ==
    ASSUME NEW a \in Attempts, NEW P \in {{"t1"}, {"t2"}, {"t1", "t2"}}, Promoted(a, P),
           a.todo = <<>>
    PROVE  a.traces = TraceSeq(P, a.n) /\ a.cubins = <<Trace!Ref("cubin", a.n)>>
<1>1. /\ <<"t1", "cubin">> # <<>> /\ <<"t2", "cubin">> # <<>> /\ <<"t1", "t2", "cubin">> # <<>>
      /\ <<"cubin">> # <<>>
  OBVIOUS
<1>2. Trace!InOrder(P) # <<>>
  BY <1>1, InOrderIs
<1> QED BY <1>1, <1>2 DEF Promoted

LEMMA ConstantSeq ==
    ASSUME NEW S, NEW s \in Seq(S), NEW n \in Nat
    PROVE  [i \in DOMAIN s |-> n] \in Seq(Nat)
<1>1. DOMAIN s = 1..Len(s) /\ Len(s) \in Nat
  OBVIOUS
<1> QED BY <1>1

LEMMA CaptureErrorIs ==
    ASSUME NEW e, e = Trace!CaptureError, Trace!This \in CaptureRecord, e # <<>>
    PROVE  /\ e[1] \in {"FAILED", "TIMED_OUT", "INFRA_ERROR"}
           /\ e[2] = "words" \/ (e[1] = "FAILED" /\ e[2] = "blanks")
<1>1. Trace!This.exit \in {"ok", "failed", "timeout"} /\ Trace!This.text \in {"words", "blanks"}
  BY DEF CaptureRecord
<1>2. CASE Trace!This.exit = "failed"
  <2>1. e = <<"FAILED", Trace!This.text>>
    BY <1>2 DEF Trace!CaptureError
  <2>2. e[1] = "FAILED" /\ e[2] = Trace!This.text
    BY <2>1
  <2> QED BY <1>1, <2>2
<1>3. CASE Trace!This.exit = "timeout"
  <2>1. e = <<"TIMED_OUT", "words">>
    BY <1>3 DEF Trace!CaptureError
  <2>2. e[1] = "TIMED_OUT" /\ e[2] = "words"
    BY <2>1
  <2> QED BY <2>2
<1>4. CASE Trace!This.exit = "ok"
  <2>1. e = <<"INFRA_ERROR", "words">>
    BY <1>4 DEF Trace!CaptureError
  <2>2. e[1] = "INFRA_ERROR" /\ e[2] = "words"
    BY <2>1
  <2> QED BY <2>2
<1> QED BY <1>1, <1>2, <1>3, <1>4

LEMMA NoCaptureError ==
    ASSUME Trace!CaptureError = <<>>, Trace!This \in CaptureRecord
    PROVE  /\ Trace!This.exit = "ok" /\ ~Trace!This.limit
           /\ PinnedOf(Trace!This)
                = {name \in Trace!TraceNames : Trace!This[name] \in {"exact", "again"}}
<1>1. Trace!This.exit \in {"ok", "failed", "timeout"} /\ Trace!This.limit \in BOOLEAN
  BY DEF CaptureRecord
<1>2. \A x, y : <<x, y>> # <<>>
  OBVIOUS
<1>3. Trace!This.exit # "failed" /\ Trace!This.exit # "timeout"
  BY <1>2 DEF Trace!CaptureError
<1>4. ~(Trace!This.limit \/ ~Trace!AllHaveRecords)
  BY <1>1, <1>2, <1>3 DEF Trace!CaptureError
<1>5. \A name \in PinnedOf(Trace!This) : Trace!This[name] # "empty"
  BY <1>4 DEF Trace!AllHaveRecords, Trace!Pinned, PinnedOf
<1> HIDE DEF Trace!This
<1> QED BY <1>1, <1>3, <1>4, <1>5 DEF PinnedOf

LEMMA ResultFacts ==
    ASSUME NEW a \in Attempts, NEW status \in {"SUCCEEDED", "FAILED", "TIMED_OUT", "INFRA_ERROR"},
           NEW error \in {"words", "blanks", "none"}, NEW complete \in BOOLEAN,
           NEW r, r = Trace!ResultOf(a, status, error, complete)
    PROVE  /\ r \in TraceResults /\ r.binding = a.binding /\ r.status = status /\ r.error = error
           /\ r.completeness = (IF complete THEN "complete" ELSE "partial")
           /\ r.traces = a.traces /\ r.cubins = a.cubins /\ r.log = a.log
           /\ r.analysis = a.analysis /\ r.read = a.read
BY DEF Trace!ResultOf, TraceResults, Attempts

LEMMA JudgeStep == ASSUME TraceInv, Trace!Judge PROVE TraceInv'
<1>1. /\ att.at = "promote" /\ att.todo = <<>>
      /\ UNCHANGED <<captures, dir, envelope, marker, reader, loaded>>
  BY DEF Trace!Judge
<1>2. /\ att # Trace!Idle /\ att \in Attempts /\ AttemptInv(att)
      /\ dir \in [Trace!Names -> Nat] /\ att.n \in Nat /\ captures \in Seq(CaptureRecord)
      /\ att.n \in DOMAIN captures /\ Trace!This \in CaptureRecord
      /\ att.analysis = Trace!None /\ att.result = Trace!None /\ Distinct(att.traces)
  BY <1>1, UnderWay DEF Attempts, Trace!This
<1> DEFINE a == [att EXCEPT !.log = Trace!Ref("log", att.n)]
           P == PinnedOf(captures[att.n])
<1>3. P \in {{"t1"}, {"t2"}, {"t1", "t2"}} /\ Promoted(att, P)
  BY <1>1, <1>2, PinnedCases DEF AttemptInv
<1>4. att.traces = TraceSeq(P, att.n) /\ att.cubins = <<Trace!Ref("cubin", att.n)>>
  BY <1>1, <1>2, <1>3, AllPromoted
<1>5. Trace!Ref("log", att.n) \in Refs
  BY <1>2, RefFacts DEF Trace!Names
<1>6. /\ a \in Attempts /\ a.binding = att.binding /\ a.n = att.n /\ a.traces = att.traces
      /\ a.cubins = att.cubins /\ a.log = Trace!Ref("log", att.n) /\ a.analysis = Trace!None
      /\ a.result = Trace!None
  BY <1>2, <1>5, WithLog
<1>7. CASE Trace!CaptureError # <<>>
  <2>1. Trace!Finish(a, Trace!CaptureError[1], Trace!CaptureError[2], FALSE) /\ progress' = progress
    BY <1>7 DEF Trace!Judge
  <2>2. att' # Trace!Idle /\ AttemptInv(att)'
    BY <1>2, <1>6, <1>7, <2>1, CaptureErrorIs, FailureIsGood
  <2> QED BY <1>1, <1>2, <2>1, <2>2, AttemptMoves
<1>8. CASE Trace!CaptureError = <<>>
  <2> DEFINE rd == [i \in DOMAIN a.traces |-> dir[a.traces[i].name]]
  <2>1. /\ progress' = Trace!ResultOf(a, "SUCCEEDED", "none", FALSE)
        /\ att' = [a EXCEPT !.at = "analyze", !.read = rd]
    BY <1>8 DEF Trace!Judge
  <2>2. \A i \in DOMAIN a.traces : dir[a.traces[i].name] = att.n
    BY <1>1, <1>2, <1>6 DEF AttemptInv
  <2>3. rd = [i \in DOMAIN a.traces |-> att.n]
    BY <2>2
  <2>4. a.traces \in Seq(Refs)
    BY <1>6 DEF Attempts
  <2>5. rd \in Seq(Nat)
    BY <1>2, <2>3, <2>4, ConstantSeq
  <2>6. OneCapture(captures, a, att.n)
    <3>1. Trace!This = captures[att.n]
      BY DEF Trace!This
    <3>2. /\ captures[att.n].exit = "ok" /\ ~captures[att.n].limit
          /\ PinnedOf(captures[att.n])
               = {name \in Trace!TraceNames : captures[att.n][name] \in {"exact", "again"}}
      BY <1>2, <1>8, NoCaptureError DEF Trace!This
    <3>3. PinnedOf(captures[att.n]) # {}
      BY <1>3
    <3> QED BY <1>2, <1>4, <1>6, <3>2, <3>3 DEF OneCapture
  <2> HIDE DEF rd, a, P
  <2>7. /\ att' \in Attempts /\ att'.at = "analyze" /\ att'.read = rd /\ att'.traces = a.traces
        /\ att'.cubins = a.cubins /\ att'.log = a.log /\ att'.analysis = a.analysis
        /\ att'.result = a.result
    BY <1>6, <2>1, <2>5 DEF Attempts
  <2>8. OneCapture(captures, att', att.n) /\ ReadAs(att', att.n)
    BY <2>3, <2>6, <2>7 DEF OneCapture, ReadAs
  <2>9. AttemptInv(att)'
    BY <1>1, <1>2, <1>6, <2>7, <2>8 DEF AttemptInv, Unfinished
  <2>10. progress' \in TraceResults /\ OneCapture(captures, progress', att.n)
    <3>1. /\ progress' \in TraceResults /\ progress'.traces = a.traces /\ progress'.cubins = a.cubins
          /\ progress'.log = a.log
      BY <1>6, <2>1 DEF Trace!ResultOf, TraceResults, Attempts
    <3> QED BY <2>6, <3>1 DEF OneCapture
  <2>11. ProgressIsOneCapture'
    BY <1>1, <1>2, <2>10 DEF ProgressIsOneCapture
  <2>12. marker = Trace!None /\ reader = Trace!Idle /\ loaded = {}
    BY <1>2 DEF TraceInv, MarkerIsFinal
  <2>13. TraceType' /\ MarkerIsFinal'
    BY <1>1, <2>12 DEF TraceInv, TraceType, MarkerIsFinal
  <2> QED BY <1>1, <2>9, <2>11, <2>13 DEF TraceInv
<1> QED BY <1>7, <1>8

-----------------------------------------------------------------------------
(* A resumed capture, and the analysis.                                    *)

LEMMA ResumeStep == ASSUME TraceInv, Trace!Resume PROVE TraceInv'
<1>1. /\ att.at = "capture" /\ progress # Trace!None
      /\ UNCHANGED <<captures, dir, progress, envelope, marker, reader, loaded>>
  BY DEF Trace!Resume, Trace!disk
<1>2. /\ att # Trace!Idle /\ att \in Attempts /\ AttemptInv(att) /\ Distinct(att.traces)
      /\ captures \in Seq(CaptureRecord) /\ dir' \in [Trace!Names -> Nat]
      /\ att.analysis = Trace!None /\ att.result = Trace!None
  BY <1>1, UnderWay
<1>3. progress \in TraceResults
  BY <1>1 DEF TraceInv, ProgressIsOneCapture
<1>4. PICK n \in DOMAIN captures : OneCapture(captures, progress, n)
  BY <1>1 DEF TraceInv, ProgressIsOneCapture
<1> DEFINE a == [att EXCEPT !.traces = progress.traces, !.cubins = progress.cubins,
                            !.log = progress.log]
           rd == [i \in DOMAIN a.traces |-> dir[a.traces[i].name]]
<1>5. /\ progress.traces \in Seq(Refs) /\ progress.cubins \in Seq(Refs)
      /\ progress.log \in Refs /\ Distinct(progress.traces) /\ n \in Nat
      /\ \A i \in DOMAIN progress.traces : progress.traces[i].sha = n
  BY <1>2, <1>4, OneCaptureFacts
<1>6. /\ a \in Attempts /\ a.traces = progress.traces /\ a.cubins = progress.cubins
      /\ a.log = progress.log /\ a.analysis = Trace!None /\ a.result = Trace!None
  BY <1>2, <1>5 DEF Attempts
<1>7. \/ Trace!Fails(att)
      \/ Trace!Fails(a)
      \/ Trace!Stages(progress) /\ att' = [a EXCEPT !.at = "analyze", !.read = rd]
  BY DEF Trace!Resume
<1> HIDE DEF a
<1>8. CASE Trace!Fails(att)
  <2>1. att' # Trace!Idle /\ AttemptInv(att)'
    BY <1>2, <1>8, FailureIsGood DEF Trace!Fails
  <2> QED BY <1>1, <1>2, <2>1, AttemptMoves
<1>9. CASE Trace!Fails(a)
  <2>1. att' # Trace!Idle /\ AttemptInv(att)'
    BY <1>5, <1>6, <1>9, FailureIsGood DEF Trace!Fails
  <2> QED BY <1>1, <1>2, <2>1, AttemptMoves
<1>10. CASE Trace!Stages(progress) /\ att' = [a EXCEPT !.at = "analyze", !.read = rd]
  <2>1. \A i \in DOMAIN a.traces : dir[a.traces[i].name] = n
    BY <1>5, <1>6, <1>10 DEF Trace!Stages, Trace!Sealed
  <2>2. rd = [i \in DOMAIN a.traces |-> n]
    BY <2>1
  <2>3. rd \in Seq(Nat)
    BY <1>5, <1>6, <2>2, ConstantSeq
  <2> HIDE DEF rd
  <2>4. /\ att' \in Attempts /\ att'.at = "analyze" /\ att'.read = rd /\ att'.traces = a.traces
        /\ att'.cubins = a.cubins /\ att'.log = a.log /\ att'.analysis = a.analysis
        /\ att'.result = a.result
    BY <1>6, <1>10, <2>3 DEF Attempts
  <2>5. OneCapture(captures, att', n) /\ ReadAs(att', n)
    BY <1>4, <1>6, <2>2, <2>4 DEF OneCapture, ReadAs
  <2>6. AttemptInv(att)'
    BY <1>1, <1>2, <1>6, <2>4, <2>5 DEF AttemptInv, Unfinished
  <2> QED BY <1>1, <1>2, <2>6, AttemptMoves
<1> QED BY <1>7, <1>8, <1>9, <1>10

LEMMA EvidenceIs ==
    ASSUME NEW names \in SUBSET Trace!TraceNames, NEW outcome, NEW written \in BOOLEAN,
           NEW e, e = Trace!Evidence(names, outcome, written)
    PROVE  /\ e \in Evidences /\ e.files \subseteq names
           /\ e.status = "SUCCEEDED" => e.artifact /\ e.error = "none"
           /\ e.status # "SUCCEEDED" => e.error = "words"
BY DEF Trace!Evidence, Evidences

LEMMA AnalysisAccepted ==
    ASSUME NEW r, Distinct(r.traces), r.traces # <<>>, r.analysis \in Evidences,
           r.analysis.files \subseteq NamesOf(r.traces),
           r.analysis.status = "SUCCEEDED" => r.analysis.artifact /\ r.analysis.error = "none",
           r.analysis.status # "SUCCEEDED" => r.analysis.error = "words",
           \/ /\ r.status = "SUCCEEDED" /\ r.analysis.status = "SUCCEEDED" /\ r.error = "none"
              /\ r.completeness = "complete" /\ r.cubins # <<>> /\ r.log # Trace!None
           \/ r.status = "INFRA_ERROR" /\ r.error = "words" /\ r.completeness = "partial"
    PROVE  Trace!Accepts(r)
<1>1. r.analysis # Trace!None
  BY TraceNone
<1>2. Trace!AnalysisShape(r)
  BY DEF Trace!AnalysisShape, NamesOf
<1>3. IF r.status = "SUCCEEDED" THEN Trace!SuccessShape(r) ELSE Trace!FailureShape(r)
  BY DEF Trace!SuccessShape, Trace!FailureShape
<1> QED BY <1>1, <1>2, <1>3, SameCardinality DEF Trace!Accepts, Distinct, NamesOf

LEMMA AnalyzeStep == ASSUME TraceInv, Trace!Analyze PROVE TraceInv'
<1>1. /\ att.at = "analyze"
      /\ UNCHANGED <<captures, dir, progress, envelope, marker, reader, loaded>>
  BY DEF Trace!Analyze, Trace!disk
<1>2. att # Trace!Idle /\ AttemptInv(att)
  BY <1>1 DEF TraceInv, Trace!Idle
<1>3. /\ att \in Attempts /\ captures \in Seq(CaptureRecord) /\ dir' \in [Trace!Names -> Nat]
  BY <1>1, <1>2 DEF TraceInv, TraceType, AttemptInv
<1>4. PICK n \in DOMAIN captures : OneCapture(captures, att, n) /\ ReadAs(att, n)
  BY <1>1, <1>2 DEF AttemptInv
<1>5. /\ att.traces \in Seq(Refs) /\ att.traces # <<>> /\ Distinct(att.traces)
      /\ att.cubins # <<>> /\ att.log # Trace!None
      /\ NamesOf(att.traces) = PinnedOf(captures[n])
  BY <1>3, <1>4, OneCaptureFacts
<1>6. NamesOf(att.traces) \in SUBSET Trace!TraceNames
  BY <1>5 DEF PinnedOf
<1> DEFINE names == {att.traces[i].name : i \in DOMAIN att.traces}
<1>7. PICK outcome \in [names -> Trace!FileOutcomes], written \in BOOLEAN :
        LET e == Trace!Evidence(names, outcome, written)
            a == [att EXCEPT !.analysis = e]
        IN  IF e.status = "SUCCEEDED" THEN Trace!Finish(a, "SUCCEEDED", "none", TRUE)
            ELSE Trace!Fails(a)
  BY Zenon DEF Trace!Analyze
<1>a. names = NamesOf(att.traces)
  BY DEF NamesOf
<1> HIDE DEF names
<1> DEFINE e == Trace!Evidence(names, outcome, written)
           a == [att EXCEPT !.analysis = e]
<1>8. /\ e \in Evidences /\ e.files \subseteq NamesOf(att.traces)
      /\ e.status = "SUCCEEDED" => e.artifact /\ e.error = "none"
      /\ e.status # "SUCCEEDED" => e.error = "words"
  BY <1>6, <1>a, EvidenceIs
<1>9. IF e.status = "SUCCEEDED" THEN Trace!Finish(a, "SUCCEEDED", "none", TRUE)
      ELSE Trace!Finish(a, "INFRA_ERROR", "words", FALSE)
  BY <1>7 DEF Trace!Fails
<1> HIDE DEF e
<1>10. /\ a \in Attempts /\ a.analysis = e /\ a.traces = att.traces /\ a.cubins = att.cubins
       /\ a.log = att.log /\ a.read = att.read
  BY <1>3, <1>8 DEF Attempts
<1> HIDE DEF a
<1>11. PICK r : /\ att' = [a EXCEPT !.at = "seal", !.result = r] /\ r \in TraceResults
               /\ r.binding = a.binding /\ r.traces = a.traces /\ r.cubins = a.cubins
               /\ r.log = a.log /\ r.analysis = a.analysis /\ r.read = a.read
               /\ \/ /\ e.status = "SUCCEEDED" /\ r.status = "SUCCEEDED" /\ r.error = "none"
                     /\ r.completeness = "complete"
                  \/ r.status = "INFRA_ERROR" /\ r.error = "words" /\ r.completeness = "partial"
  <2>1. CASE e.status = "SUCCEEDED"
    <3> DEFINE r == Trace!ResultOf(a, "SUCCEEDED", "none", TRUE)
    <3>1. att' = [a EXCEPT !.at = "seal", !.result = r]
      BY <1>9, <2>1 DEF Trace!Finish
    <3>2. /\ r \in TraceResults /\ r.binding = a.binding /\ r.traces = a.traces
          /\ r.cubins = a.cubins /\ r.log = a.log /\ r.analysis = a.analysis /\ r.read = a.read
          /\ r.status = "SUCCEEDED" /\ r.error = "none" /\ r.completeness = "complete"
      BY <1>10 DEF Trace!ResultOf, TraceResults, Attempts
    <3> HIDE DEF r
    <3> QED BY <2>1, <3>1, <3>2
  <2>2. CASE e.status # "SUCCEEDED"
    <3> DEFINE r == Trace!ResultOf(a, "INFRA_ERROR", "words", FALSE)
    <3>1. att' = [a EXCEPT !.at = "seal", !.result = r]
      BY <1>9, <2>2 DEF Trace!Finish
    <3>2. /\ r \in TraceResults /\ r.binding = a.binding /\ r.traces = a.traces
          /\ r.cubins = a.cubins /\ r.log = a.log /\ r.analysis = a.analysis /\ r.read = a.read
          /\ r.status = "INFRA_ERROR" /\ r.error = "words" /\ r.completeness = "partial"
      BY <1>10 DEF Trace!ResultOf, TraceResults, Attempts
    <3> HIDE DEF r
    <3> QED BY <3>1, <3>2
  <2> QED BY <2>1, <2>2
<1>12. Trace!Accepts(r)
  BY <1>5, <1>8, <1>10, <1>11, AnalysisAccepted
<1>13. OneCapture(captures, r, n) /\ ReadAs(r, n)
  BY <1>4, <1>10, <1>11 DEF OneCapture, ReadAs
<1>14. GoodResult(captures', r)
  <2>1. ~Trace!HandsOnBlanks(r)
    BY <1>11 DEF Trace!HandsOnBlanks
  <2>2. Trace!Worded(r) = r
    BY <2>1 DEF Trace!Worded
  <2> QED BY <1>1, <1>12, <1>13, <2>2 DEF GoodResult
<1>15. att' \in Attempts /\ att'.at = "seal" /\ att'.result = r /\ att'.binding = a.binding
  BY <1>10, <1>11 DEF Attempts
<1>16. AttemptInv(att)'
  BY <1>11, <1>14, <1>15 DEF AttemptInv
<1> QED BY <1>1, <1>2, <1>3, <1>16, AttemptMoves

-----------------------------------------------------------------------------
LEMMA TraceUnchanged == ASSUME TraceInv, UNCHANGED trace PROVE TraceInv'
<1>1. UNCHANGED <<captures, dir, att, progress, envelope, marker, reader, loaded>>
  BY DEF trace
<1> QED BY <1>1 DEF TraceInv, TraceType, ProgressIsOneCapture, MarkerIsFinal, AttemptInv

LEMMA TraceNext == ASSUME TraceInv, Trace!Next PROVE TraceInv'
BY BeginStep, SealUnlinkStep, SealEnvelopeStep, SealMarkerStep, ReadMarkerStep, ReadEnvelopeStep,
   CaptureStep, ConfigStep, PromoteLogStep, SelectStep, PromoteStep, JudgeStep, ResumeStep,
   AnalyzeStep, CrashStep DEF Trace!Next

(* The trace experiment's invariant holds in every state of a worker.      *)
THEOREM TraceInvariant == Spec => []TraceInvOfKind
<1>1. Init => TraceInvOfKind
  BY TraceStarts DEF Init, TraceInvOfKind
<1>2. TraceInvOfKind /\ [Next]_<<kind, sweep, trace, discovery, wvars>> => TraceInvOfKind'
  <2> SUFFICES ASSUME TraceInvOfKind, [Next]_<<kind, sweep, trace, discovery, wvars>>,
                      kind' = "reg_trace"
               PROVE  TraceInv'
    BY DEF TraceInvOfKind
  <2>1. CASE RunTrace
    BY <2>1, TraceNext DEF RunTrace, TraceInvOfKind
  <2>2. CASE RunSanitizer \/ DiscoverWorkUnits \/ Exchange
    BY <2>2, TraceUnchanged DEF RunSanitizer, DiscoverWorkUnits, Exchange, TraceInvOfKind
  <2>3. CASE UNCHANGED <<kind, sweep, trace, discovery, wvars>>
    BY <2>3, TraceUnchanged DEF TraceInvOfKind
  <2> QED BY <2>1, <2>2, <2>3 DEF Next
<1> QED BY <1>1, <1>2, PTL DEF Spec

(* A checkpoint that was loaded is the one its dispatch sealed, and every  *)
(* later load of the directory finds the same: load_terminal_checkpoint    *)
(* and initialize_terminal_checkpoint, with crashes, readers and retries   *)
(* of other dispatches at any point.                                       *)
THEOREM CheckpointsAreFinal == Spec => []CommittedIsFinal
<1>1. TraceInvOfKind => CommittedIsFinal
  BY DEF TraceInvOfKind, TraceInv, MarkerIsFinal, CommittedIsFinal, Trace!CommittedIsFinal
<1> QED BY <1>1, TraceInvariant, PTL

LEMMA ProducedIsGood ==
    ASSUME TraceInv, NEW r \in Trace!Produced
    PROVE  r \in TraceResults /\ GoodResult(captures, r)
<1>1. CASE r \in {x.result : x \in loaded}
  <2>1. r = envelope /\ envelope # Trace!None
    BY <1>1 DEF TraceInv, MarkerIsFinal
  <2> QED BY <2>1 DEF TraceInv, TraceType
<1>2. CASE att # Trace!Idle /\ att.result # Trace!None /\ r = att.result
  <2>1. AttemptInv(att) /\ att.at \in {"seal", "envelope", "marker"}
    <3>1. AttemptInv(att) /\ att \in Attempts
      BY <1>2 DEF TraceInv, AttemptInv
    <3> QED BY <1>2, <3>1 DEF AttemptInv, Unfinished, Attempts
  <2> QED BY <1>2, <2>1 DEF AttemptInv
<1> QED BY <1>1, <1>2 DEF Trace!Produced

(* A complete trace is one capture: log, cubin and traces are of one run   *)
(* of the target that ended well, and the analysis read those very bytes,  *)
(* whatever earlier attempts left in the directory (run_trace_experiment). *)
THEOREM CompleteTracesAreOneCapture == Spec => []CompleteIsOneCapture
<1>1. TraceInvOfKind => CompleteIsOneCapture
  <2> SUFFICES ASSUME TraceInv, NEW r \in Trace!Produced, r.completeness = "complete"
               PROVE  LET n == r.log.sha
                      IN  /\ \A i \in DOMAIN r.traces : r.traces[i].sha = n /\ r.read[i] = n
                          /\ \A i \in DOMAIN r.cubins : r.cubins[i].sha = n
                          /\ captures[n].exit = "ok" /\ ~captures[n].limit
                          /\ {r.traces[i].name : i \in DOMAIN r.traces} =
                               {name \in Trace!TraceNames :
                                  captures[n][name] \in {"exact", "again"}}
    BY DEF TraceInvOfKind, CompleteIsOneCapture, Trace!CompleteIsOneCapture
  <2>1. PICK n \in DOMAIN captures : OneCapture(captures, r, n) /\ ReadAs(r, n)
    BY ProducedIsGood DEF GoodResult
  <2>2. captures \in Seq(CaptureRecord)
    BY DEF TraceInv, TraceType
  <2>3. /\ r.log.sha = n /\ \A i \in DOMAIN r.traces : r.traces[i].sha = n
        /\ NamesOf(r.traces) = PinnedOf(captures[n])
        /\ DOMAIN r.cubins = {1} /\ r.cubins[1].sha = n
    BY <2>1, <2>2, OneCaptureFacts
  <2>4. \A i \in DOMAIN r.traces : r.read[i] = n
    BY <2>1 DEF ReadAs
  <2>5. /\ captures[n].exit = "ok" /\ ~captures[n].limit
        /\ NamesOf(r.traces)
             = {name \in Trace!TraceNames : captures[n][name] \in {"exact", "again"}}
    BY <2>1, <2>3 DEF OneCapture
  <2> QED BY <2>3, <2>4, <2>5 DEF NamesOf
<1> QED BY <1>1, TraceInvariant, PTL

-----------------------------------------------------------------------------
(* The sanitizer experiment.  Unless the parser has a diagnostic of its    *)
(* own, what it holds (the issues it kept and the block it is reading) is  *)
(* one for one what the tool printed.                                      *)

Severities == {"error", "warning"}

IssueRecord == [kind : {"race", "invalid", "issue"}, severity : Severities, site : Sweep!Sites]

Summaries == [errors : Nat, warnings : Nat, total : Nat]

DiagnosticKinds ==
    {"incomplete_finding", "unparsed_finding", "internal_tool_error", "malformed_summary",
     "missing_summary", "multiple_summaries", "summary_finding_mismatch",
     "summary_count_mismatch"}

OpenRace == [kind : {"race"}, severity : Severities, site : Sweep!Sites, conflicts : {0, 1}]
OpenInvalid == [kind : {"invalid"}, seen : Nat]
OpenIssue == [kind : {"issue"}, site : Sweep!Sites, host : BOOLEAN, seen : Nat]
OpenBlocks == OpenRace \cup OpenInvalid \cup OpenIssue \cup {Sweep!Closed}

Parsers == [issues : Seq(IssueRecord), diagnostics : SUBSET DiagnosticKinds,
            summary : Summaries \cup {Sweep!None}, markers : Nat, truncated : BOOLEAN,
            notPrinted : Nat, open : OpenBlocks]

BlockRecord == [kind : {"race", "garbled", "invalid", "issue", "unknown"},
                severity : Severities, site : Sweep!Sites, whole : BOOLEAN]

LineKinds == {"start", "header", "garbled header", "invalid", "message", "noise", "conflict",
              "garbled conflict", "site", "internal error", "truncation", "summary",
              "not printed"}

Worlds == [state : {"running", "exit 0", "exit 1", "killed", "never ran"},
           blocks : Seq(BlockRecord), hidden : {0, 1}, noise : Nat, last : LineKinds,
           summed : BOOLEAN]

(* The issues a parser has, with the block that it is reading.             *)
Held(q) == Len(q.issues) + (IF q.open.kind = "closed" THEN 0 ELSE 1)
SiteOf(q, i) == IF i <= Len(q.issues) THEN q.issues[i].site ELSE q.open.site

(* The parser will have an issue, whatever comes next.                     *)
Promising(q) ==
    \/ q.issues # <<>>
    \/ q.open.kind \in {"invalid", "issue"}
    \/ q.open.kind = "race" /\ q.open.conflicts > 0

(* The header of a garbled block that a pending invalid access takes.      *)
SwallowedIn(blocks, i) ==
    \E j \in 1..(i - 1) :
       /\ blocks[j].kind = "invalid"
       /\ \A k \in (j + 1)..i : blocks[k].kind = "garbled"

Readable(blocks) ==
    {i \in DOMAIN blocks : blocks[i].kind # "unknown" /\ ~SwallowedIn(blocks, i)}

(* Only unreadable headers came after a potential invalid access.          *)
InvalidLast(blocks) ==
    \E j \in DOMAIN blocks :
       blocks[j].kind = "invalid" /\ \A k \in (j + 1)..Len(blocks) : blocks[k].kind = "garbled"

SweepType ==
    /\ tool \in Sweep!Tools /\ pinned \in BOOLEAN /\ world \in Worlds /\ p \in Parsers
    /\ p.open.kind \in IF tool = "racecheck" THEN {"closed", "race", "invalid"}
                       ELSE {"closed", "issue"}

SummaryIsTrue == p.summary # Sweep!None => world.summed /\ p.summary = Sweep!Counts

RaceAccount ==
    tool = "racecheck" =>
        /\ p.diagnostics = {} => Held(p) = Cardinality(Readable(world.blocks))
        /\ p.open.kind = "invalid" => InvalidLast(world.blocks)

IssueAccount ==
    tool # "racecheck" =>
        /\ \A i \in DOMAIN world.blocks :
              /\ world.blocks[i].severity = "error"
              /\ world.blocks[i].kind \in {"issue", "unknown"}
        /\ Held(p) = Cardinality(Readable(world.blocks))
        /\ Held(p) <= Len(world.blocks)
        /\ Held(p) = Len(world.blocks) =>
              \A i \in 1..Held(p) : SiteOf(p, i) \in {Sweep!NoSite, world.blocks[i].site}

(* Where the parser is after the line that makes a block whole.            *)
WholeIsHeld ==
    /\ Sweep!Running /\ world.last \in {"header", "conflict"} => p.open.kind = "race"
    /\ Sweep!Running /\ world.last = "message" =>
          p.open.kind = "issue" /\ p.open.seen = 0 /\ p.open.site = Sweep!NoSite
    /\ (\E i \in DOMAIN world.blocks : world.blocks[i].whole) => Promising(p)
    /\ tool \in Sweep!TargetScoped =>
          ((\E i \in DOMAIN world.blocks :
               world.blocks[i].whole /\ world.blocks[i].site = "own kernel")
             => \E i \in 1..Held(p) : SiteOf(p, i) = "own kernel")

ResultIsCollected ==
    result # Sweep!None =>
        /\ ~Sweep!Running
        /\ \E read, published \in BOOLEAN : result = Sweep!Collected(read, published)

SweepInv ==
    /\ SweepType /\ SummaryIsTrue /\ RaceAccount /\ IssueAccount /\ WholeIsHeld
    /\ ResultIsCollected

SweepInvOfKind == kind = "compute_sanitizer" => SweepInv

-----------------------------------------------------------------------------
(* What a line does to the parser.                                         *)

LEMMA OpenFacts ==
    /\ \A b \in OpenBlocks : b.kind \in {"race", "invalid", "issue", "closed"}
    /\ \A b \in OpenBlocks : b.kind = "race" => b \in OpenRace
    /\ \A b \in OpenBlocks : b.kind = "invalid" => b \in OpenInvalid
    /\ \A b \in OpenBlocks : b.kind = "issue" => b \in OpenIssue
    /\ \A b \in OpenBlocks : b.kind = "closed" => b = Sweep!Closed
    /\ Sweep!Closed \in OpenBlocks /\ Sweep!Closed.kind = "closed"
<1>1. Sweep!Closed.kind = "closed" /\ Sweep!Closed \in OpenBlocks
  BY DEF Sweep!Closed, OpenBlocks
<1>2. /\ \A b \in OpenRace : b.kind = "race"
      /\ \A b \in OpenInvalid : b.kind = "invalid"
      /\ \A b \in OpenIssue : b.kind = "issue"
  BY DEF OpenRace, OpenInvalid, OpenIssue
<1> QED BY <1>1, <1>2 DEF OpenBlocks

LEMMA NoSummary == \A s \in Summaries : s # Sweep!None
<1>1. DOMAIN Sweep!None = {"none"}
  BY DEF Sweep!None
<1>2. \A s \in Summaries : "errors" \in DOMAIN s
  BY DEF Summaries
<1> QED BY <1>1, <1>2

LEMMA HeldFacts ==
    ASSUME NEW q \in Parsers
    PROVE  /\ Held(q) \in Nat /\ Len(q.issues) \in Nat /\ q.issues \in Seq(IssueRecord)
           /\ q.open \in OpenBlocks
           /\ q.open.kind = "closed" => Held(q) = Len(q.issues)
           /\ q.open.kind # "closed" => Held(q) = Len(q.issues) + 1
           /\ q.issues # <<>> => Len(q.issues) > 0
<1>1. q.issues \in Seq(IssueRecord) /\ q.open \in OpenBlocks
  BY DEF Parsers
<1>2. Len(q.issues) \in Nat /\ (q.issues # <<>> => Len(q.issues) > 0)
  BY <1>1
<1>3. q.open.kind = "closed" => Held(q) = Len(q.issues)
  BY <1>2 DEF Held
<1>4. q.open.kind # "closed" => Held(q) = Len(q.issues) + 1
  BY <1>2 DEF Held
<1> QED BY <1>1, <1>2, <1>3, <1>4

(* What a line that opens no block may do.                                 *)
FollowsTo(q, c, summary) ==
    /\ c \in Parsers
    /\ q.diagnostics \subseteq c.diagnostics
    /\ c.diagnostics = {} => Held(c) = Held(q)
    /\ c.open.kind = "invalid" => q.open.kind = "invalid"
    /\ Promising(q) => Promising(c)
    /\ c.summary = summary

Follows(q, c) == FollowsTo(q, c, q.summary)

LEMMA FollowsSelf == ASSUME NEW q \in Parsers PROVE Follows(q, q)
BY DEF Follows, FollowsTo

LEMMA FollowsOn ==
    ASSUME NEW a, NEW b, NEW c, Follows(a, b), Follows(b, c)
    PROVE  Follows(a, c)
<1>1. c.diagnostics = {} => b.diagnostics = {}
  BY DEF Follows, FollowsTo
<1> QED BY <1>1 DEF Follows, FollowsTo

LEMMA DiagnoseFacts ==
    ASSUME NEW q \in Parsers, NEW d \in DiagnosticKinds, NEW c, c = Sweep!Diagnose(q, d)
    PROVE  /\ Follows(q, c) /\ c \in Parsers
           /\ c.diagnostics # {} /\ c.open = q.open /\ c.issues = q.issues
           /\ Held(c) = Held(q) /\ c.truncated = q.truncated /\ c.markers = q.markers
<1>1. /\ c \in Parsers /\ c.diagnostics = q.diagnostics \cup {d} /\ c.open = q.open
      /\ c.issues = q.issues /\ c.summary = q.summary
      /\ c.truncated = q.truncated /\ c.markers = q.markers
  BY DEF Sweep!Diagnose, Parsers
<1> QED BY <1>1 DEF Follows, FollowsTo, Held, Promising

LEMMA KeepFacts ==
    ASSUME NEW q \in Parsers, q.open.kind # "closed", NEW severity \in Severities,
           NEW site \in Sweep!Sites, NEW c, c = Sweep!Keep(q, severity, site)
    PROVE  /\ Follows(q, c) /\ c.open = Sweep!Closed /\ c.diagnostics = q.diagnostics
           /\ c.issues = Append(q.issues, [kind |-> q.open.kind, severity |-> severity,
                                           site |-> site])
           /\ Held(c) = Held(q) /\ c.truncated = q.truncated /\ c.markers = q.markers
           /\ c.issues # <<>>
<1> DEFINE x == [kind |-> q.open.kind, severity |-> severity, site |-> site]
           s == Append(q.issues, x)
<1>1. q.open \in OpenBlocks /\ q.issues \in Seq(IssueRecord)
  BY DEF Parsers
<1>2. x \in IssueRecord
  BY <1>1, OpenFacts DEF IssueRecord
<1>3. s \in Seq(IssueRecord) /\ Len(s) = Len(q.issues) + 1 /\ s # <<>>
  BY <1>1, <1>2, AppendProperties
<1>4. c = [q EXCEPT !.issues = s, !.open = Sweep!Closed]
  BY DEF Sweep!Keep, Parsers
<1> HIDE DEF x, s
<1>5. /\ c \in Parsers /\ c.issues = s /\ c.open = Sweep!Closed
      /\ c.diagnostics = q.diagnostics /\ c.summary = q.summary
      /\ c.truncated = q.truncated /\ c.markers = q.markers
  BY <1>3, <1>4, OpenFacts DEF Parsers
<1>6. Held(c) = Held(q)
  BY <1>3, <1>5, OpenFacts, HeldFacts
<1> QED BY <1>3, <1>5, <1>6, OpenFacts DEF Follows, FollowsTo, Promising, s, x

LEMMA FlushAll ==
    ASSUME NEW q \in Parsers, NEW c, c = Sweep!Flush(q)
    PROVE  /\ Follows(q, c) /\ c.open = Sweep!Closed
           /\ c.truncated = q.truncated /\ c.markers = q.markers
           /\ Promising(q) => c.issues # <<>>
           /\ q.open.kind \in {"closed", "issue"} => Held(c) = Held(q)
           /\ q.open.kind = "closed" => c = q
           /\ q.open.kind = "issue" =>
                 c.issues = Append(q.issues, [kind |-> "issue", severity |-> "error",
                                              site |-> q.open.site])
<1>1. q.open \in OpenBlocks
  BY DEF Parsers
<1>2. CASE q.open.kind = "closed"
  <2>1. c = q
    BY <1>2 DEF Sweep!Flush
  <2>2. q.open = Sweep!Closed
    BY <1>1, <1>2, OpenFacts
  <2> QED BY <1>2, <2>1, <2>2, FollowsSelf DEF Promising
<1>3. CASE q.open.kind = "race"
  <2>1. q.open \in OpenRace
    BY <1>1, <1>3, OpenFacts
  <2>2. /\ q.open.severity \in Severities /\ q.open.site \in Sweep!Sites
        /\ q.open.conflicts \in {0, 1}
    BY <2>1 DEF OpenRace
  <2>3. CASE q.open.conflicts > 0
    <3>1. c = Sweep!Keep(q, q.open.severity, q.open.site)
      BY <1>3, <2>3 DEF Sweep!Flush
    <3> QED BY <1>3, <2>2, <3>1, KeepFacts
  <2>4. CASE ~(q.open.conflicts > 0)
    <3> DEFINE b == [q EXCEPT !.open = Sweep!Closed]
    <3>1. c = Sweep!Diagnose(b, "incomplete_finding")
      BY <1>3, <2>4 DEF Sweep!Flush
    <3>2. /\ b \in Parsers /\ b.open = Sweep!Closed /\ b.issues = q.issues
          /\ b.diagnostics = q.diagnostics /\ b.summary = q.summary
          /\ b.truncated = q.truncated /\ b.markers = q.markers
      BY OpenFacts DEF Parsers
    <3> HIDE DEF b
    <3>3. /\ Follows(b, c) /\ c.diagnostics # {} /\ c.open = b.open /\ c.issues = b.issues
          /\ c.truncated = b.truncated /\ c.markers = b.markers
      BY <3>1, <3>2, DiagnoseFacts DEF DiagnosticKinds
    <3>4. Follows(q, c)
      BY <1>3, <2>4, <3>2, <3>3, OpenFacts DEF Follows, FollowsTo, Promising
    <3> QED BY <1>3, <2>4, <3>2, <3>3, <3>4 DEF Promising
  <2> QED BY <2>3, <2>4
<1>4. CASE q.open.kind = "invalid"
  <2>1. c = Sweep!Keep(q, "error", Sweep!NoSite)
    BY <1>4 DEF Sweep!Flush
  <2>2. Sweep!NoSite \in Sweep!Sites /\ "error" \in Severities
    BY DEF Sweep!Sites, Severities
  <2>0. q.open.kind # "closed"
    BY <1>4
  <2>3. /\ Follows(q, c) /\ c.open = Sweep!Closed /\ c.issues # <<>>
        /\ c.truncated = q.truncated /\ c.markers = q.markers
    <3> DEFINE b == Sweep!Keep(q, "error", Sweep!NoSite)
    <3>1. /\ Follows(q, b) /\ b.open = Sweep!Closed /\ Held(b) = Held(q)
          /\ b.issues = Append(q.issues, [kind |-> q.open.kind, severity |-> "error",
                                          site |-> Sweep!NoSite])
          /\ b.truncated = q.truncated /\ b.markers = q.markers /\ b.issues # <<>>
      BY <2>0, <2>2, KeepFacts
    <3> QED BY <2>1, <3>1
  <2> QED BY <1>4, <2>3
<1>5. CASE q.open.kind = "issue"
  <2>1. q.open.site \in Sweep!Sites /\ q.open.host \in BOOLEAN
    BY <1>1, <1>5, OpenFacts DEF OpenIssue
  <2>2. "error" \in Severities
    BY DEF Severities
  <2>3. CASE q.open.site # Sweep!NoSite \/ q.open.host
    <3>1. c = Sweep!Keep(q, "error", q.open.site)
      BY <1>5, <2>3 DEF Sweep!Flush
    <3> QED BY <1>5, <2>1, <2>2, <3>1, KeepFacts
  <2>4. CASE ~(q.open.site # Sweep!NoSite \/ q.open.host)
    <3> DEFINE b == Sweep!Keep(q, "error", Sweep!NoSite)
    <3>1. c = Sweep!Diagnose(b, "incomplete_finding")
      BY <1>5, <2>4 DEF Sweep!Flush
    <3>2. q.open.site = Sweep!NoSite
      BY <2>4
    <3>3. /\ Follows(q, b) /\ b.open = Sweep!Closed /\ Held(b) = Held(q)
          /\ b.issues = Append(q.issues, [kind |-> "issue", severity |-> "error",
                                          site |-> q.open.site])
          /\ b.truncated = q.truncated /\ b.markers = q.markers /\ b.issues # <<>>
      BY <1>5, <2>1, <2>2, <3>2, KeepFacts
    <3> HIDE DEF b
    <3>4. b \in Parsers
      BY <3>3 DEF Follows, FollowsTo
    <3>5. /\ Follows(b, c) /\ c.open = b.open /\ c.issues = b.issues /\ Held(c) = Held(b)
          /\ c.truncated = b.truncated /\ c.markers = b.markers
      BY <3>1, <3>4, DiagnoseFacts DEF DiagnosticKinds
    <3>6. Follows(q, c)
      BY <3>3, <3>5, FollowsOn
    <3> QED BY <1>5, <3>3, <3>5, <3>6
  <2> QED BY <2>3, <2>4
<1> QED BY <1>1, <1>2, <1>3, <1>4, <1>5, OpenFacts

LEMMA FlushFacts ==
    ASSUME NEW q \in Parsers, NEW c, c = Sweep!Flush(q)
    PROVE  /\ Follows(q, c) /\ c.open = Sweep!Closed /\ c.open.kind = "closed" /\ c \in Parsers
           /\ c.truncated = q.truncated /\ c.markers = q.markers
           /\ Promising(q) => c.issues # <<>>
           /\ q.open.kind \in {"closed", "issue"} => Held(c) = Held(q)
           /\ q.open.kind = "closed" => c = q
BY FlushAll, OpenFacts DEF Follows, FollowsTo

LEMMA FlushedIssue ==
    ASSUME NEW q \in Parsers, q.open.kind = "issue", NEW c, c = Sweep!Flush(q)
    PROVE  c.issues = Append(q.issues, [kind |-> "issue", severity |-> "error",
                                        site |-> q.open.site])
BY FlushAll

(* A line that opens a block.                                              *)
LEMMA OpenedFacts ==
    ASSUME NEW q \in Parsers, NEW block \in OpenBlocks, block.kind # "closed",
           NEW c, c = Sweep!Open(q, block)
    PROVE  /\ c \in Parsers /\ c.open = block /\ q.diagnostics \subseteq c.diagnostics
           /\ c.diagnostics = {} => Held(c) = Held(q) + 1
           /\ Promising(q) => c.issues # <<>>
           /\ c.issues = Sweep!Flush(q).issues /\ c.summary = q.summary
<1> DEFINE f == Sweep!Flush(q)
<1>1. /\ Follows(q, f) /\ f.open.kind = "closed" /\ f \in Parsers
      /\ Promising(q) => f.issues # <<>>
  BY FlushFacts
<1>2. c = [f EXCEPT !.open = block]
  BY DEF Sweep!Open
<1> HIDE DEF f
<1>3. /\ c \in Parsers /\ c.open = block /\ c.issues = f.issues /\ c.diagnostics = f.diagnostics
      /\ c.summary = f.summary
  BY <1>1, <1>2 DEF Parsers
<1>4. Held(c) = Held(f) + 1
  BY <1>1, <1>3, HeldFacts
<1> QED BY <1>1, <1>3, <1>4 DEF Follows, FollowsTo, f

LEMMA SeenFacts ==
    ASSUME NEW q \in Parsers, q.open.kind = "invalid", NEW c, c = [q EXCEPT !.open.seen = @ + 1]
    PROVE  Follows(q, c) /\ c.open.kind = "invalid"
<1>1. q.open \in OpenInvalid /\ q.open \in OpenBlocks
  BY OpenFacts DEF Parsers
<1> DEFINE b == [q.open EXCEPT !.seen = @ + 1]
<1>2. b \in OpenInvalid /\ b.kind = "invalid"
  BY <1>1 DEF OpenInvalid
<1>3. c = [q EXCEPT !.open = b]
  BY <1>1 DEF Parsers
<1> HIDE DEF b
<1>4. /\ c \in Parsers /\ c.open = b /\ c.issues = q.issues /\ c.diagnostics = q.diagnostics
      /\ c.summary = q.summary
  BY <1>2, <1>3 DEF Parsers, OpenBlocks
<1>5. Held(c) = Held(q)
  BY <1>2, <1>4, HeldFacts
<1> QED BY <1>2, <1>4, <1>5 DEF Follows, FollowsTo, Promising

LEMMA ConflictFacts ==
    ASSUME NEW q \in Parsers, q.open.kind = "race", NEW c, c = [q EXCEPT !.open.conflicts = 1]
    PROVE  Follows(q, c) /\ c.open.kind = "race" /\ Promising(c)
<1>1. q.open \in OpenRace /\ q.open \in OpenBlocks
  BY OpenFacts DEF Parsers
<1> DEFINE b == [q.open EXCEPT !.conflicts = 1]
<1>2. b \in OpenRace /\ b.kind = "race" /\ b.conflicts = 1
  BY <1>1 DEF OpenRace
<1>3. c = [q EXCEPT !.open = b]
  BY <1>1 DEF Parsers
<1> HIDE DEF b
<1>4. /\ c \in Parsers /\ c.open = b /\ c.issues = q.issues /\ c.diagnostics = q.diagnostics
      /\ c.summary = q.summary
  BY <1>2, <1>3 DEF Parsers, OpenBlocks
<1>5. Held(c) = Held(q)
  BY <1>2, <1>4, HeldFacts
<1>6. Promising(c)
  BY <1>2, <1>4 DEF Promising
<1> QED BY <1>2, <1>4, <1>5, <1>6 DEF Follows, FollowsTo

(* A line of racecheck after the header of a race.                         *)
LEMMA RaceLine ==
    ASSUME NEW q \in Parsers, q.open.kind \in {"closed", "race"}, NEW line,
           line.kind \notin {"header", "garbled header"}, NEW c, c = Sweep!ConsumeRace(q, line)
    PROVE  /\ Follows(q, c) /\ c.open.kind \in {"closed", "race"}
           /\ q.open.kind = "race" /\ line.kind = "conflict" => c.open.kind = "race" /\ Promising(c)
<1>0. line.kind # "header" /\ line.kind # "garbled header"
  OBVIOUS
<1>1. CASE q.open.kind # "race"
  <2>1. c = q
    BY <1>0, <1>1 DEF Sweep!ConsumeRace
  <2> QED BY <1>1, <2>1, FollowsSelf
<1>2. CASE q.open.kind = "race" /\ line.kind = "conflict"
  <2>1. c = [q EXCEPT !.open.conflicts = 1]
    BY <1>2 DEF Sweep!ConsumeRace
  <2> QED BY <1>2, <2>1, ConflictFacts
<1>3. CASE q.open.kind = "race" /\ line.kind = "garbled conflict"
  <2> DEFINE b == Sweep!Diagnose(q, "unparsed_finding")
  <2>1. c = Sweep!Flush(b)
    BY <1>3 DEF Sweep!ConsumeRace
  <2>2. Follows(q, b) /\ b \in Parsers
    BY DiagnoseFacts DEF DiagnosticKinds
  <2> HIDE DEF b
  <2>3. Follows(b, c) /\ c.open.kind = "closed"
    BY <2>1, <2>2, FlushFacts
  <2> QED BY <1>3, <2>2, <2>3, FollowsOn
<1>4. CASE q.open.kind = "race" /\ line.kind \notin {"conflict", "garbled conflict"}
  <2>1. c = Sweep!Flush(q)
    BY <1>4 DEF Sweep!ConsumeRace
  <2> QED BY <1>4, <2>1, FlushFacts
<1> QED BY <1>1, <1>2, <1>3, <1>4

LEMMA IsSummaryIs == \A line : Sweep!IsSummary(line) <=> line.kind \in {"summary", "cut summary"}
BY DEF Sweep!IsSummary

RaceKinds == {"closed", "race", "invalid"}

(* A line of racecheck that opens no block and is no summary.              *)
IsRacePlain(line) ==
    /\ line.kind \in {"conflict", "garbled conflict", "site", "noise", "internal error",
                      "truncation", "garbled header"}
    /\ line.kind = "site" => line.site \in Sweep!Sites

LEMMA RacecheckLine ==
    ASSUME NEW q \in Parsers, q.open.kind \in RaceKinds, NEW line, IsRacePlain(line),
           NEW c, c = Sweep!ConsumeRacecheck(q, line)
    PROVE  /\ Follows(q, c) /\ c.open.kind \in RaceKinds
           /\ q.open.kind = "race" /\ line.kind = "conflict" => c.open.kind = "race" /\ Promising(c)
           /\ line.kind = "garbled header" /\ c.diagnostics = {} => q.open.kind = "invalid"
<1> USE DEF RaceKinds
<1>1. CASE line.kind = "internal error"
  <2> DEFINE f == Sweep!Flush(q)
  <2>1. c = Sweep!Diagnose(f, "internal_tool_error")
    BY <1>1 DEF Sweep!ConsumeRacecheck, Sweep!IsSummary
  <2>2. Follows(q, f) /\ f \in Parsers /\ f.open.kind = "closed"
    BY FlushFacts
  <2> HIDE DEF f
  <2>3. Follows(f, c) /\ c.open = f.open
    BY <2>1, <2>2, DiagnoseFacts DEF DiagnosticKinds
  <2> QED BY <1>1, <2>2, <2>3, FollowsOn
<1>2. CASE line.kind = "truncation"
  <2> DEFINE f == Sweep!Flush(q)
  <2>1. c = [f EXCEPT !.truncated = TRUE]
    BY <1>2 DEF Sweep!ConsumeRacecheck, Sweep!IsSummary
  <2>2. Follows(q, f) /\ f \in Parsers /\ f.open.kind = "closed"
    BY FlushFacts
  <2> HIDE DEF f
  <2>3. /\ c \in Parsers /\ c.open = f.open /\ c.issues = f.issues /\ c.summary = f.summary
        /\ c.diagnostics = f.diagnostics
    BY <2>1, <2>2 DEF Parsers
  <2>4. Follows(f, c)
    BY <2>3 DEF Follows, FollowsTo, Held, Promising
  <2> QED BY <1>2, <2>2, <2>3, <2>4, FollowsOn
<1>3. CASE line.kind \notin {"internal error", "truncation"} /\ q.open.kind # "invalid"
  <2>1. c = Sweep!ConsumeRace(q, line)
    BY <1>3 DEF Sweep!ConsumeRacecheck, Sweep!IsSummary, IsRacePlain
  <2>2. CASE line.kind = "garbled header"
    <3> DEFINE f == Sweep!Flush(q)
    <3>1. c = Sweep!Diagnose(f, "unparsed_finding")
      BY <2>1, <2>2 DEF Sweep!ConsumeRace
    <3>2. Follows(q, f) /\ f \in Parsers /\ f.open.kind = "closed"
      BY FlushFacts
    <3> HIDE DEF f
    <3>3. Follows(f, c) /\ c.open = f.open /\ c.diagnostics # {}
      BY <3>1, <3>2, DiagnoseFacts DEF DiagnosticKinds
    <3> QED BY <2>2, <3>2, <3>3, FollowsOn
  <2>3. CASE line.kind # "garbled header"
    <3>1. line.kind \notin {"header", "garbled header"} /\ q.open.kind \in {"closed", "race"}
      BY <1>3, <2>3 DEF IsRacePlain
    <3> QED BY <2>1, <2>3, <3>1, RaceLine
  <2> QED BY <2>2, <2>3
<1>4. CASE line.kind = "site" /\ q.open.kind = "invalid"
  <2>1. c = Sweep!Keep(q, "error", line.site)
    BY <1>4 DEF Sweep!ConsumeRacecheck, Sweep!IsSummary
  <2>2. q.open.kind # "closed" /\ "error" \in Severities /\ line.site \in Sweep!Sites
    BY <1>4 DEF Severities, IsRacePlain
  <2>3. /\ Follows(q, c) /\ c.open = Sweep!Closed
        /\ c.issues = Append(q.issues, [kind |-> q.open.kind, severity |-> "error",
                                        site |-> line.site])
    BY <2>1, <2>2, KeepFacts
  <2> QED BY <1>4, <2>3, OpenFacts
<1>5. CASE /\ line.kind \notin {"internal error", "truncation", "site"} /\ q.open.kind = "invalid"
           /\ q.open.seen < SiteLookahead
  <2>1. c = [q EXCEPT !.open.seen = @ + 1]
    BY <1>5 DEF Sweep!ConsumeRacecheck, Sweep!IsSummary, IsRacePlain
  <2> QED BY <1>5, <2>1, SeenFacts
<1>6. CASE /\ line.kind \notin {"internal error", "truncation", "site"} /\ q.open.kind = "invalid"
           /\ ~(q.open.seen < SiteLookahead)
  <2> DEFINE f == Sweep!Flush(q)
  <2>1. c = Sweep!ConsumeRace(f, line)
    BY <1>6 DEF Sweep!ConsumeRacecheck, Sweep!IsSummary, IsRacePlain
  <2>2. Follows(q, f) /\ f \in Parsers /\ f.open.kind = "closed"
    BY FlushFacts
  <2>3. CASE line.kind = "garbled header"
    <3> DEFINE g == Sweep!Flush(f)
    <3>1. c = Sweep!Diagnose(g, "unparsed_finding")
      BY <2>1, <2>3 DEF Sweep!ConsumeRace
    <3>2. g = f
      BY <2>2, FlushFacts
    <3>4. c = Sweep!Diagnose(f, "unparsed_finding")
      BY <3>1, <3>2
    <3> HIDE DEF f, g
    <3>3. Follows(f, c) /\ c.open = f.open
      BY <2>2, <3>4, DiagnoseFacts DEF DiagnosticKinds
    <3> QED BY <1>6, <2>2, <2>3, <3>3, FollowsOn
  <2>4. CASE line.kind # "garbled header"
    <3> HIDE DEF f
    <3>1. line.kind \notin {"header", "garbled header"} /\ f.open.kind \in {"closed", "race"}
      BY <2>2, <2>4 DEF IsRacePlain
    <3>2. Follows(f, c) /\ c.open.kind \in {"closed", "race"}
      BY <2>1, <2>2, <3>1, RaceLine
    <3> QED BY <1>6, <2>2, <2>4, <3>2, FollowsOn
  <2> QED BY <2>3, <2>4
<1> QED BY <1>1, <1>2, <1>3, <1>4, <1>5, <1>6

LEMMA OneMarkerMore == \A q \in Parsers : q.markers + 1 \in Nat
BY DEF Parsers

(* A summary, of either parser.                                            *)
LEMMA SummaryLine ==
    ASSUME NEW q \in Parsers, NEW line,
           line.kind = "cut summary" \/ (line.kind = "summary" /\ line.counts \in Summaries),
           NEW c, c = Sweep!ConsumeSummary(q, line)
    PROVE  /\ FollowsTo(q, c, IF line.kind = "summary" THEN line.counts ELSE q.summary)
           /\ c.open.kind = "closed" /\ c.issues = Sweep!Flush(q).issues
<1> DEFINE f == Sweep!Flush(q)
<1>1. Follows(q, f) /\ f \in Parsers /\ f.open.kind = "closed"
  BY FlushFacts
<1>2. CASE line.kind = "summary"
  <2>1. c = [f EXCEPT !.markers = @ + 1, !.summary = line.counts]
    BY <1>2 DEF Sweep!ConsumeSummary
  <2> HIDE DEF f
  <2>2. /\ c \in Parsers /\ c.open = f.open /\ c.issues = f.issues /\ c.summary = line.counts
        /\ c.diagnostics = f.diagnostics
    <3> DEFINE m == f.markers + 1
               s == line.counts
    <3>1. m \in Nat /\ s \in Summaries
      BY <1>1, <1>2 DEF Parsers
    <3>2. c = [f EXCEPT !.markers = m, !.summary = s]
      BY <2>1
    <3> HIDE DEF m, s
    <3>3. /\ c \in Parsers /\ c.open = f.open /\ c.issues = f.issues /\ c.summary = s
          /\ c.diagnostics = f.diagnostics
      BY <1>1, <3>1, <3>2 DEF Parsers
    <3> QED BY <3>3 DEF s
  <2>3. FollowsTo(q, c, line.counts)
    BY <1>1, <2>2 DEF Follows, FollowsTo, Held, Promising
  <2> QED BY <1>1, <1>2, <2>2, <2>3 DEF f
<1>3. CASE line.kind = "cut summary"
  <2>1. PICK g : g = [f EXCEPT !.markers = @ + 1] /\ c = Sweep!Diagnose(g, "malformed_summary")
    BY <1>3 DEF Sweep!ConsumeSummary
  <2> HIDE DEF f
  <2>2. /\ g \in Parsers /\ g.open = f.open /\ g.issues = f.issues /\ g.summary = f.summary
        /\ g.diagnostics = f.diagnostics
    <3> DEFINE m == f.markers + 1
    <3>1. m \in Nat
      BY <1>1, OneMarkerMore, Zenon
    <3>2. g = [f EXCEPT !.markers = m]
      BY <2>1
    <3> HIDE DEF m
    <3> QED BY <1>1, <3>1, <3>2 DEF Parsers
  <2>3. Follows(q, g)
    BY <1>1, <2>2 DEF Follows, FollowsTo, Held, Promising
  <2>4. Follows(g, c) /\ c.open = g.open /\ c.issues = g.issues
    <3>1. c = Sweep!Diagnose(g, "malformed_summary") /\ g \in Parsers
      BY <2>1, <2>2
    <3>2. "malformed_summary" \in DiagnosticKinds
      BY DEF DiagnosticKinds
    <3> QED BY <3>1, <3>2, DiagnoseFacts
  <2>5. Follows(q, c)
    BY <2>3, <2>4, FollowsOn
  <2> QED BY <1>1, <1>3, <2>2, <2>4, <2>5 DEF Follows, f
<1> QED BY <1>2, <1>3

(* A line of racecheck that opens a block.                                 *)
LEMMA RacecheckOpens ==
    ASSUME NEW q \in Parsers, q.open.kind \in RaceKinds, NEW line,
           \/ line.kind = "invalid"
           \/ line.kind = "header" /\ line.severity \in Severities /\ line.site \in Sweep!Sites,
           NEW c, c = Sweep!ConsumeRacecheck(q, line)
    PROVE  /\ c \in Parsers /\ q.diagnostics \subseteq c.diagnostics
           /\ c.open.kind = (IF line.kind = "header" THEN "race" ELSE "invalid")
           /\ c.diagnostics = {} => Held(c) = Held(q) + 1
           /\ Promising(q) => c.issues # <<>>
           /\ c.summary = q.summary
<1>1. CASE line.kind = "invalid"
  <2> DEFINE b == [kind |-> "invalid", seen |-> 0]
  <2>1. c = Sweep!Open(q, b)
    BY <1>1 DEF Sweep!ConsumeRacecheck, Sweep!IsSummary
  <2>2. b \in OpenBlocks /\ b.kind = "invalid"
    BY DEF OpenBlocks, OpenInvalid
  <2> HIDE DEF b
  <2> QED BY <1>1, <2>1, <2>2, OpenedFacts
<1>2. CASE line.kind = "header"
  <2> DEFINE b == [kind |-> "race", severity |-> line.severity, site |-> line.site,
                   conflicts |-> 0]
  <2>1. b \in OpenBlocks /\ b.kind = "race"
    BY <1>2 DEF OpenBlocks, OpenRace
  <2>2. CASE q.open.kind # "invalid"
    <3>1. c = Sweep!Open(q, b)
      BY <1>2, <2>2 DEF Sweep!ConsumeRacecheck, Sweep!IsSummary, Sweep!ConsumeRace
    <3> HIDE DEF b
    <3> QED BY <1>2, <2>1, <3>1, OpenedFacts
  <2>3. CASE q.open.kind = "invalid"
    <3> DEFINE f == Sweep!Flush(q)
    <3>1. c = Sweep!Open(f, b)
      BY <1>2, <2>3 DEF Sweep!ConsumeRacecheck, Sweep!IsSummary, Sweep!ConsumeRace
    <3>2. /\ Follows(q, f) /\ f \in Parsers /\ f.open.kind = "closed"
          /\ Promising(q) => f.issues # <<>>
      BY FlushFacts
    <3>3. Sweep!Flush(f) = f
      BY <3>2, FlushFacts
    <3> HIDE DEF b, f
    <3>4. /\ c \in Parsers /\ c.open = b /\ f.diagnostics \subseteq c.diagnostics
          /\ c.diagnostics = {} => Held(c) = Held(f) + 1
          /\ c.issues = f.issues /\ c.summary = f.summary
      BY <2>1, <3>1, <3>2, <3>3, OpenedFacts
    <3> QED BY <1>2, <2>1, <3>2, <3>4 DEF Follows, FollowsTo
  <2> QED BY <2>2, <2>3
<1> QED BY <1>1, <1>2

CheckerKinds == {"closed", "issue"}

Keeps(q, c) == Held(c) = Held(q) /\ \A i \in 1..Held(q) : SiteOf(c, i) = SiteOf(q, i)

LEMMA KeepsOn ==
    ASSUME NEW a, NEW b, NEW c, Keeps(a, b), Keeps(b, c)
    PROVE  Keeps(a, c)
BY DEF Keeps

(* With the same issues and the same open block.                           *)
LEMMA SameIssues ==
    ASSUME NEW q, NEW c, c.issues = q.issues, c.open = q.open
    PROVE  Keeps(q, c)
BY DEF Keeps, Held, SiteOf

LEMMA FlushKeeps ==
    ASSUME NEW q \in Parsers, q.open.kind \in CheckerKinds, NEW c, c = Sweep!Flush(q)
    PROVE  /\ Keeps(q, c) /\ Held(c) = Len(c.issues)
           /\ \A i \in 1..Held(q) : c.issues[i].site = SiteOf(q, i)
<1>1. c \in Parsers /\ c.open.kind = "closed"
  BY FlushFacts
<1>2. Held(c) = Len(c.issues)
  BY <1>1, HeldFacts
<1>3. CASE q.open.kind = "closed"
  <2>1. c = q
    BY <1>3, FlushFacts
  <2>2. Held(q) = Len(q.issues) /\ Len(q.issues) \in Nat
    BY <1>3, HeldFacts
  <2>3. \A i \in 1..Held(q) : SiteOf(q, i) = q.issues[i].site
    BY <2>2 DEF SiteOf
  <2> QED BY <1>2, <2>1, <2>3 DEF Keeps
<1>4. CASE q.open.kind = "issue"
  <2> DEFINE x == [kind |-> "issue", severity |-> "error", site |-> q.open.site]
  <2>1. c.issues = Append(q.issues, x)
    BY <1>4, FlushedIssue
  <2>2. q.issues \in Seq(IssueRecord) /\ Held(q) = Len(q.issues) + 1 /\ Len(q.issues) \in Nat
    BY <1>4, HeldFacts
  <2>3. x \in IssueRecord /\ x.site = q.open.site
    <3>1. q.open \in OpenIssue
      BY <1>4, HeldFacts, OpenFacts
    <3> QED BY <3>1 DEF OpenIssue, IssueRecord, Severities
  <2> HIDE DEF x
  <2>4. /\ Len(c.issues) = Len(q.issues) + 1 /\ c.issues[Len(q.issues) + 1] = x
        /\ \A i \in 1..Len(q.issues) : c.issues[i] = q.issues[i]
    BY <2>1, <2>2, <2>3, AppendProperties
  <2>5. ASSUME NEW i \in 1..Held(q) PROVE c.issues[i].site = SiteOf(q, i) /\ SiteOf(c, i) = SiteOf(q, i)
    <3>1. CASE i \in 1..Len(q.issues)
      <4>1. i <= Len(q.issues) /\ i <= Len(c.issues)
        BY <2>2, <2>4, <3>1
      <4> QED BY <2>4, <3>1, <4>1 DEF SiteOf
    <3>2. CASE i = Len(q.issues) + 1
      <4>1. ~(i <= Len(q.issues)) /\ i <= Len(c.issues)
        BY <2>2, <2>4, <3>2
      <4> QED BY <2>3, <2>4, <3>2, <4>1 DEF SiteOf
    <3> QED BY <2>2, <2>5, <3>1, <3>2
  <2> QED BY <1>2, <2>2, <2>4, <2>5 DEF Keeps
<1> QED BY <1>3, <1>4 DEF CheckerKinds

(* The open issue sees one more line, and may find its site in it.         *)
LEMMA IssueSees ==
    ASSUME NEW q \in Parsers, q.open.kind = "issue", NEW c \in Parsers, c.open \in OpenIssue,
           c.issues = q.issues, c.diagnostics = q.diagnostics, c.summary = q.summary
    PROVE  /\ Follows(q, c) /\ c.open.kind = "issue" /\ Held(c) = Held(q)
           /\ SiteOf(c, Held(q)) = c.open.site
           /\ \A i \in 1..Held(q) : i = Held(q) \/ SiteOf(c, i) = SiteOf(q, i)
           /\ SiteOf(q, Held(q)) = q.open.site
<1>4. c.open.kind = "issue"
  BY DEF OpenIssue
<1>6. Held(q) = Len(q.issues) + 1 /\ Held(c) = Len(q.issues) + 1 /\ Len(q.issues) \in Nat
  BY <1>4, HeldFacts
<1>7. Follows(q, c)
  BY <1>4, <1>6 DEF Follows, FollowsTo, Promising
<1>8. ~(Held(q) <= Len(q.issues)) /\ \A i \in 1..Held(q) : i = Held(q) \/ i <= Len(q.issues)
  BY <1>6
<1>9. SiteOf(c, Held(q)) = c.open.site /\ SiteOf(q, Held(q)) = q.open.site
  BY <1>4, <1>8 DEF SiteOf
<1>10. \A i \in 1..Held(q) : i = Held(q) \/ SiteOf(c, i) = SiteOf(q, i)
  BY <1>8 DEF SiteOf
<1> QED BY <1>4, <1>6, <1>7, <1>9, <1>10

(* A line of memcheck or initcheck that opens no block and is no summary.  *)
IsPlain(line) ==
    /\ line.kind \in {"noise", "internal error", "site"}
    /\ line.kind = "site" => line.site \in Sweep!Sites

LEMMA CheckerLine ==
    ASSUME NEW q \in Parsers, q.open.kind \in CheckerKinds, NEW line, IsPlain(line),
           NEW c, c = Sweep!ConsumeChecker(q, line)
    PROVE  /\ Follows(q, c) /\ c.open.kind \in CheckerKinds /\ Held(c) = Held(q)
           /\ \A i \in 1..Held(q) :
                 \/ SiteOf(c, i) = SiteOf(q, i)
                 \/ /\ line.kind = "site" /\ i = Held(q)
                    /\ SiteOf(q, i) = Sweep!NoSite /\ SiteOf(c, i) = line.site
           /\ (/\ line.kind = "site" /\ q.open.kind = "issue" /\ q.open.seen = 0
               /\ q.open.site = Sweep!NoSite) => SiteOf(c, Held(q)) = line.site
<1> USE DEF CheckerKinds
<1> DEFINE d == IF line.kind = "internal error" THEN Sweep!Diagnose(q, "internal_tool_error")
                ELSE q
           found == IF line.kind = "site" /\ d.open.site = Sweep!NoSite
                   THEN line.site ELSE d.open.site
<1>0. c = Sweep!LookForSite(d, line)
  <2>1. line.kind # "not printed" /\ ~Sweep!IsSummary(line) /\ line.kind # "message"
    BY DEF IsPlain, Sweep!IsSummary
  <2> QED BY <2>1 DEF Sweep!ConsumeChecker
<1>2. Follows(q, d) /\ Keeps(q, d) /\ d \in Parsers /\ d.open = q.open
  <2>1. CASE line.kind = "internal error"
    <3>1. d = Sweep!Diagnose(q, "internal_tool_error")
      BY <2>1
    <3> HIDE DEF d
    <3>2. Follows(q, d) /\ d \in Parsers /\ d.open = q.open /\ d.issues = q.issues
      BY <3>1, DiagnoseFacts DEF DiagnosticKinds
    <3> QED BY <3>2, SameIssues
  <2>2. CASE line.kind # "internal error"
    <3>1. d = q
      BY <2>2
    <3> HIDE DEF d
    <3> QED BY <3>1, FollowsSelf, SameIssues
  <2> QED BY <2>1, <2>2
<1> HIDE DEF d
<1>3. Held(d) = Held(q) /\ \A i \in 1..Held(q) : SiteOf(d, i) = SiteOf(q, i)
  BY <1>2 DEF Keeps
<1>4. CASE d.open.kind # "issue"
  <2>1. c = d
    BY <1>0, <1>4 DEF Sweep!LookForSite
  <2> HIDE DEF found
  <2> QED BY <1>2, <1>3, <1>4, <2>1
<1>5. CASE d.open.kind = "issue" /\ d.open.seen >= SiteLookahead
  <2>1. c = Sweep!Flush(d)
    BY <1>0, <1>5 DEF Sweep!LookForSite
  <2> HIDE DEF found
  <2>2. Follows(d, c) /\ c.open.kind = "closed"
    BY <1>2, <2>1, FlushFacts
  <2>3. Keeps(d, c)
    BY <1>2, <1>5, <2>1, FlushKeeps
  <2>4. Follows(q, c) /\ Keeps(q, c)
    BY <1>2, <2>2, <2>3, FollowsOn, KeepsOn
  <2>5. q.open.seen # 0
    <3>1. d.open.seen >= SiteLookahead /\ d.open.seen = q.open.seen
      BY <1>2, <1>5
    <3>2. ~(0 >= SiteLookahead)
      BY LookaheadAssumption
    <3> QED BY <3>1, <3>2, Zenon
  <2> QED BY <2>2, <2>4, <2>5 DEF Keeps
<1>6. CASE d.open.kind = "issue" /\ ~(d.open.seen >= SiteLookahead)
  <2> DEFINE n == d.open.seen + 1
             b == [kind |-> "issue", host |-> d.open.host, seen |-> n, site |-> found]
  <2>1. c = [d EXCEPT !.open = b]
    BY <1>0, <1>6, Zenon DEF Sweep!LookForSite
  <2>a. d.open \in OpenIssue
    BY <1>2, <1>6, HeldFacts, OpenFacts
  <2>2. d.open.site \in Sweep!Sites /\ n \in Nat
    BY <2>a DEF OpenIssue
  <2>3. /\ found \in Sweep!Sites
        /\ found = d.open.site \/ (line.kind = "site" /\ d.open.site = Sweep!NoSite /\ found = line.site)
        /\ line.kind = "site" /\ d.open.site = Sweep!NoSite => found = line.site
    BY <2>2 DEF IsPlain
  <2> HIDE DEF found, n
  <2>b. b \in OpenIssue /\ b.site = found
    BY <2>a, <2>2, <2>3 DEF OpenIssue
  <2> HIDE DEF b
  <2>4. /\ Follows(d, c) /\ c.open.kind = "issue" /\ Held(c) = Held(d)
        /\ SiteOf(c, Held(d)) = found /\ SiteOf(d, Held(d)) = d.open.site
        /\ \A i \in 1..Held(d) : i = Held(d) \/ SiteOf(c, i) = SiteOf(d, i)
    <3>1. d \in Parsers /\ d.open.kind = "issue" /\ b \in OpenBlocks
      BY <1>2, <1>6, <2>b DEF OpenBlocks
    <3>a. /\ c \in Parsers /\ c.open = b /\ c.issues = d.issues
          /\ c.diagnostics = d.diagnostics /\ c.summary = d.summary
      BY <2>1, <3>1 DEF Parsers
    <3>2. /\ Follows(d, c) /\ c.open.kind = "issue" /\ Held(c) = Held(d)
          /\ SiteOf(c, Held(d)) = c.open.site /\ SiteOf(d, Held(d)) = d.open.site
          /\ \A i \in 1..Held(d) : i = Held(d) \/ SiteOf(c, i) = SiteOf(d, i)
      BY <2>b, <3>1, <3>a, IssueSees
    <3> QED BY <2>b, <3>a, <3>2
  <2>5. Follows(q, c)
    BY <1>2, <2>4, FollowsOn
  <2>6. Held(q) \in 1..Held(q)
    <3>1. d.open.kind # "closed"
      BY <1>6
    <3>2. Held(d) = Len(d.issues) + 1 /\ Len(d.issues) \in Nat
      BY <1>2, <3>1, HeldFacts
    <3> QED BY <1>3, <3>2
  <2>7. SiteOf(d, Held(q)) = SiteOf(q, Held(q))
    BY <1>3, <2>6
  <2>8. SiteOf(c, Held(q)) = found /\ SiteOf(q, Held(q)) = d.open.site
    BY <1>3, <2>4, <2>7
  <2>9. \A i \in 1..Held(q) : i = Held(q) \/ SiteOf(c, i) = SiteOf(q, i)
    BY <1>3, <2>4
  <2> QED BY <1>2, <1>3, <2>3, <2>4, <2>5, <2>8, <2>9
<1> QED BY <1>4, <1>5, <1>6

LEMMA CheckerOpens ==
    ASSUME NEW q \in Parsers, q.open.kind \in CheckerKinds, NEW line,
           line.kind = "message", line.host \in BOOLEAN, NEW c, c = Sweep!ConsumeChecker(q, line)
    PROVE  /\ c \in Parsers /\ q.diagnostics \subseteq c.diagnostics /\ c.summary = q.summary
           /\ c.open.kind = "issue" /\ c.open.seen = 0 /\ c.open.site = Sweep!NoSite
           /\ Held(c) = Held(q) + 1 /\ SiteOf(c, Held(c)) = Sweep!NoSite
           /\ \A i \in 1..Held(q) : SiteOf(c, i) = SiteOf(q, i)
<1> DEFINE b == [kind |-> "issue", site |-> Sweep!NoSite, host |-> line.host, seen |-> 0]
           f == Sweep!Flush(q)
<1>1. c = Sweep!Open(q, b)
  BY DEF Sweep!ConsumeChecker, Sweep!IsSummary
<1>2. b \in OpenBlocks /\ b.kind = "issue" /\ b.seen = 0 /\ b.site = Sweep!NoSite
  BY DEF OpenBlocks, OpenIssue, Sweep!Sites
<1>3. /\ Held(f) = Held(q) /\ Held(f) = Len(f.issues)
      /\ \A i \in 1..Held(q) : f.issues[i].site = SiteOf(q, i)
  BY FlushKeeps DEF Keeps
<1> HIDE DEF b, f
<1>4. /\ c \in Parsers /\ c.open = b /\ q.diagnostics \subseteq c.diagnostics
      /\ c.issues = f.issues /\ c.summary = q.summary
  BY <1>1, <1>2, OpenedFacts DEF f
<1>5. Held(c) = Len(f.issues) + 1 /\ Len(f.issues) \in Nat
  BY <1>2, <1>4, HeldFacts
<1>6. ~(Held(c) <= Len(f.issues)) /\ \A i \in 1..Held(q) : i <= Len(f.issues)
  BY <1>3, <1>5
<1>7. SiteOf(c, Held(c)) = Sweep!NoSite
  BY <1>2, <1>4, <1>6 DEF SiteOf
<1>8. \A i \in 1..Held(q) : SiteOf(c, i) = SiteOf(q, i)
  BY <1>3, <1>4, <1>6 DEF SiteOf
<1> QED BY <1>2, <1>3, <1>4, <1>5, <1>7, <1>8

LEMMA CheckerNotPrinted ==
    ASSUME NEW q \in Parsers, q.open.kind \in CheckerKinds, NEW line,
           line.kind = "not printed", line.count \in Nat, NEW c, c = Sweep!ConsumeChecker(q, line)
    PROVE  Follows(q, c) /\ c.open.kind = "closed" /\ Keeps(q, c)
<1> DEFINE f == Sweep!Flush(q)
           n == line.count
<1>1. c = [f EXCEPT !.truncated = TRUE, !.notPrinted = n]
  BY DEF Sweep!ConsumeChecker, Sweep!IsSummary
<1>2. Follows(q, f) /\ f \in Parsers /\ f.open.kind = "closed" /\ Keeps(q, f)
  BY FlushFacts, FlushKeeps
<1>3. n \in Nat
  OBVIOUS
<1> HIDE DEF f, n
<1>4. /\ c \in Parsers /\ c.open = f.open /\ c.issues = f.issues /\ c.summary = f.summary
      /\ c.diagnostics = f.diagnostics
  BY <1>1, <1>2, <1>3 DEF Parsers
<1>5. Follows(f, c) /\ Keeps(f, c)
  BY <1>4, SameIssues DEF Follows, FollowsTo, Held, Promising
<1> QED BY <1>2, <1>4, <1>5, FollowsOn, KeepsOn

LEMMA CheckerSummary ==
    ASSUME NEW q \in Parsers, q.open.kind \in CheckerKinds, NEW line,
           line.kind = "cut summary" \/ (line.kind = "summary" /\ line.counts \in Summaries),
           NEW c, c = Sweep!ConsumeChecker(q, line)
    PROVE  /\ FollowsTo(q, c, IF line.kind = "summary" THEN line.counts ELSE q.summary)
           /\ c.open.kind = "closed" /\ Keeps(q, c)
<1> DEFINE f == Sweep!Flush(q)
<1>1. c = Sweep!ConsumeSummary(q, line)
  BY DEF Sweep!ConsumeChecker, Sweep!IsSummary
<1>2. f \in Parsers /\ f.open = Sweep!Closed /\ Keeps(q, f)
  BY FlushFacts, FlushKeeps
<1>3. /\ FollowsTo(q, c, IF line.kind = "summary" THEN line.counts ELSE q.summary)
      /\ c.open.kind = "closed" /\ c.issues = f.issues
  BY <1>1, SummaryLine
<1>4. c.open = f.open
  BY <1>2, <1>3, OpenFacts DEF FollowsTo, Parsers
<1> HIDE DEF f
<1> QED BY <1>2, <1>3, <1>4, SameIssues, KeepsOn

-----------------------------------------------------------------------------
(* What the tool printed: the blocks that a parser can read.               *)

SameBlocks(a, b) ==
    /\ DOMAIN b = DOMAIN a /\ Len(b) = Len(a)
    /\ \A i \in DOMAIN a :
          b[i].kind = a[i].kind /\ b[i].severity = a[i].severity /\ b[i].site = a[i].site

LEMMA SameReadable ==
    ASSUME NEW a \in Seq(BlockRecord), NEW b \in Seq(BlockRecord), SameBlocks(a, b)
    PROVE  Readable(b) = Readable(a) /\ (InvalidLast(a) => InvalidLast(b))
<1>1. /\ DOMAIN a = 1..Len(a) /\ DOMAIN b = DOMAIN a /\ Len(b) = Len(a) /\ Len(a) \in Nat
      /\ \A i \in 1..Len(a) : b[i].kind = a[i].kind
  BY DEF SameBlocks
<1>2. ASSUME NEW i \in 1..Len(a) PROVE SwallowedIn(b, i) <=> SwallowedIn(a, i)
  <2>1. /\ \A j \in 1..(i - 1) : j \in 1..Len(a)
        /\ \A j \in 1..(i - 1) : \A k \in (j + 1)..i : k \in 1..Len(a)
    BY <1>1
  <2> QED BY <1>1, <2>1 DEF SwallowedIn
<1>3. Readable(b) = Readable(a)
  BY <1>1, <1>2 DEF Readable
<1>4. \A j \in 1..Len(a) : \A k \in (j + 1)..Len(a) : k \in 1..Len(a)
  BY <1>1
<1> QED BY <1>1, <1>3, <1>4 DEF InvalidLast

LEMMA ReadableIsFinite ==
    ASSUME NEW a \in Seq(BlockRecord)
    PROVE  /\ IsFiniteSet(Readable(a)) /\ Readable(a) \subseteq 1..Len(a)
           /\ Cardinality(Readable(a)) \in Nat
<1>1. DOMAIN a = 1..Len(a) /\ Len(a) \in Nat
  OBVIOUS
<1>2. IsFiniteSet(1..Len(a))
  BY <1>1, FS_Interval
<1>3. Readable(a) \subseteq 1..Len(a)
  BY <1>1 DEF Readable
<1> QED BY <1>2, <1>3, FS_Subset, FS_CardinalityType

LEMMA AnotherBlock ==
    ASSUME NEW a \in Seq(BlockRecord), NEW x \in BlockRecord, NEW b, b = Append(a, x)
    PROVE  /\ b \in Seq(BlockRecord) /\ Len(b) = Len(a) + 1 /\ b # <<>>
           /\ DOMAIN b = 1..(Len(a) + 1) /\ DOMAIN a = 1..Len(a) /\ Len(a) \in Nat
           /\ \A i \in 1..Len(a) : b[i] = a[i]
           /\ b[Len(a) + 1] = x
<1>1. Len(a) \in Nat /\ DOMAIN a = 1..Len(a)
  OBVIOUS
<1> QED BY <1>1, AppendProperties

LEMMA AnotherReadable ==
    ASSUME NEW a \in Seq(BlockRecord), NEW x \in BlockRecord, NEW b, b = Append(a, x)
    PROVE  /\ x.kind = "unknown" => Readable(b) = Readable(a)
           /\ x.kind = "garbled" /\ InvalidLast(a) => Readable(b) = Readable(a) /\ InvalidLast(b)
           /\ x.kind \notin {"unknown", "garbled"} =>
                 Cardinality(Readable(b)) = Cardinality(Readable(a)) + 1
           /\ x.kind = "invalid" => InvalidLast(b)
<1> DEFINE n == Len(a) + 1
<1>1. /\ b \in Seq(BlockRecord) /\ Len(b) = n /\ DOMAIN b = 1..n /\ DOMAIN a = 1..Len(a)
      /\ Len(a) \in Nat /\ (\A i \in 1..Len(a) : b[i] = a[i]) /\ b[n] = x
  BY AnotherBlock
<1>2. ASSUME NEW i \in 1..Len(a) PROVE SwallowedIn(b, i) <=> SwallowedIn(a, i)
  <2>1. /\ \A j \in 1..(i - 1) : j \in 1..Len(a)
        /\ \A j \in 1..(i - 1) : \A k \in (j + 1)..i : k \in 1..Len(a)
    BY <1>1
  <2> QED BY <1>1, <2>1 DEF SwallowedIn
<1>3. 1..n = 1..Len(a) \cup {n} /\ n \notin 1..Len(a) /\ n - 1 = Len(a) /\ n \in Nat
  BY <1>1
<1> HIDE DEF n
<1>4. Readable(b) = Readable(a) \cup
         (IF x.kind # "unknown" /\ ~SwallowedIn(b, n) THEN {n} ELSE {})
  BY <1>1, <1>2, <1>3 DEF Readable
<1>5. CASE x.kind = "unknown"
  BY <1>4, <1>5
<1>6. CASE x.kind = "garbled" /\ InvalidLast(a)
  <2>1. PICK j \in 1..Len(a) : /\ a[j].kind = "invalid"
                               /\ \A k \in (j + 1)..Len(a) : a[k].kind = "garbled"
    BY <1>1, <1>6 DEF InvalidLast
  <2>2. ASSUME NEW k \in (j + 1)..n PROVE b[k].kind = "garbled"
    <3>1. (k \in 1..Len(a) /\ k \in (j + 1)..Len(a)) \/ k = n
      BY <1>1, <1>3
    <3> QED BY <1>1, <1>6, <2>1, <3>1
  <2>3. b[j].kind = "invalid" /\ j \in 1..(n - 1) /\ j \in 1..n
    BY <1>1, <1>3, <2>1
  <2>4. SwallowedIn(b, n) /\ InvalidLast(b)
    BY <1>1, <2>2, <2>3 DEF SwallowedIn, InvalidLast
  <2> QED BY <1>4, <1>6, <2>4
<1>7. CASE x.kind \notin {"unknown", "garbled"}
  <2>1. n \in (1 + 0)..n /\ \A j \in 1..(n - 1) : n \in (j + 1)..n
    BY <1>1, <1>3
  <2>2. ~SwallowedIn(b, n)
    BY <1>1, <1>7, <2>1 DEF SwallowedIn
  <2>3. Readable(b) = Readable(a) \cup {n}
    BY <1>4, <1>7, <2>2
  <2>4. n \notin Readable(a) /\ IsFiniteSet(Readable(a))
    BY <1>3, ReadableIsFinite
  <2>5. Cardinality(Readable(b)) = Cardinality(Readable(a)) + 1
    BY <2>3, <2>4, FS_AddElement
  <2>6. x.kind = "invalid" => InvalidLast(b)
    <3>1. n \in 1..n /\ (n + 1)..n = {}
      BY <1>1, <1>3
    <3> QED BY <1>1, <3>1 DEF InvalidLast
  <2> QED BY <1>7, <2>5, <2>6
<1> QED BY <1>5, <1>6, <1>7

-----------------------------------------------------------------------------
(* A step of the tool, and what the parser makes of it.                    *)

LEMMA SweepCardinality == \A S : Sweep!Cardinality(S) = Cardinality(S)
BY Zenon DEF Sweep!Cardinality, Cardinality

BlocksOf(blocks, severity) == {i \in DOMAIN blocks : blocks[i].severity = severity}

LEMMA CountIs ==
    ASSUME world \in Worlds, NEW severity
    PROVE  /\ Sweep!CountOf(severity) = Cardinality(BlocksOf(world.blocks, severity))
           /\ IsFiniteSet(BlocksOf(world.blocks, severity))
           /\ Sweep!CountOf(severity) \in Nat
<1>1. Sweep!CountOf(severity) = Cardinality(BlocksOf(world.blocks, severity))
  BY SweepCardinality DEF Sweep!CountOf, BlocksOf
<1>2. world.blocks \in Seq(BlockRecord)
  BY DEF Worlds
<1>3. DOMAIN world.blocks = 1..Len(world.blocks) /\ Len(world.blocks) \in Nat
  BY <1>2
<1>4. IsFiniteSet(1..Len(world.blocks))
  BY <1>3, FS_Interval
<1>5. BlocksOf(world.blocks, severity) \subseteq 1..Len(world.blocks)
  BY <1>3 DEF BlocksOf
<1> QED BY <1>1, <1>4, <1>5, FS_Subset, FS_CardinalityType

LEMMA CountsIs ==
    ASSUME world \in Worlds
    PROVE  Sweep!Counts \in Summaries
<1>1. Sweep!CountOf("error") \in Nat /\ Sweep!CountOf("warning") \in Nat /\ world.hidden \in Nat
  <2>1. world.hidden \in {0, 1}
    BY DEF Worlds
  <2> QED BY <2>1, CountIs
<1>2. Sweep!CountOf("error") + world.hidden \in Nat
  BY <1>1
<1>3. Sweep!CountOf("error") + world.hidden + Sweep!CountOf("warning") \in Nat
  BY <1>1
<1> DEFINE e == Sweep!CountOf("error") + world.hidden
           v == Sweep!CountOf("warning")
           t == IF tool = "racecheck" THEN e + v ELSE 0
<1>4. e \in Nat /\ v \in Nat /\ t \in Nat
  BY <1>1, <1>2, <1>3
<1>5. Sweep!Counts = [errors |-> e, warnings |-> v, total |-> t]
  BY DEF Sweep!Counts
<1> HIDE DEF e, v, t
<1> QED BY <1>4, <1>5 DEF Summaries

LEMMA CountsKept ==
    ASSUME world \in Worlds, world' \in Worlds, tool' = tool, world'.hidden = world.hidden,
           SameBlocks(world.blocks, world'.blocks)
    PROVE  Sweep!Counts' = Sweep!Counts
<1>1. ASSUME NEW severity PROVE Sweep!CountOf(severity)' = Sweep!CountOf(severity)
  <2>1. BlocksOf(world'.blocks, severity) = BlocksOf(world.blocks, severity)
    BY DEF SameBlocks, BlocksOf
  <2> QED BY <2>1, SweepCardinality DEF Sweep!CountOf, BlocksOf
<1>2. /\ Sweep!CountOf("error")' = Sweep!CountOf("error")
      /\ Sweep!CountOf("warning")' = Sweep!CountOf("warning")
  BY <1>1
<1> QED BY <1>2 DEF Sweep!Counts

LEMMA NoResultYet ==
    ASSUME SweepInv, Sweep!Running, result' = result
    PROVE  ResultIsCollected'
<1>1. result = Sweep!None
  BY DEF SweepInv, ResultIsCollected
<1> QED BY <1>1 DEF ResultIsCollected, Sweep!None

(* The sites a checker's line leaves, if it opens no block.                *)
SitesStay(q, c) ==
    \A i \in 1..Held(q) :
       \/ SiteOf(c, i) = SiteOf(q, i)
       \/ /\ i = Held(q) /\ SiteOf(q, i) = Sweep!NoSite
          /\ SiteOf(c, i) = world.blocks[Len(world.blocks)].site

LEMMA SitesKept ==
    ASSUME NEW q, NEW c, Keeps(q, c)
    PROVE  Held(c) = Held(q) /\ SitesStay(q, c)
BY DEF Keeps, SitesStay

(* A line that opens no block.                                             *)
LEMMA LineStep ==
    ASSUME SweepInv, Sweep!Running, UNCHANGED <<tool, pinned, result>>, world' \in Worlds,
           SameBlocks(world.blocks, world'.blocks), FollowsTo(p, p', p'.summary),
           p'.open.kind \in IF tool = "racecheck" THEN RaceKinds ELSE CheckerKinds,
           p'.summary # Sweep!None => world'.summed /\ p'.summary = Sweep!Counts',
           tool # "racecheck" => Held(p') = Held(p) /\ SitesStay(p, p'),
           WholeIsHeld'
    PROVE  SweepInv'
<1> DEFINE a == world.blocks
           b == world'.blocks
<1>1. /\ p \in Parsers /\ p' \in Parsers /\ a \in Seq(BlockRecord) /\ b \in Seq(BlockRecord)
      /\ RaceAccount /\ IssueAccount
  BY DEF SweepInv, SweepType, FollowsTo, Worlds
<1>2. SweepType'
  BY <1>1 DEF SweepInv, SweepType, RaceKinds, CheckerKinds
<1>3. SummaryIsTrue'
  BY DEF SummaryIsTrue, Sweep!None
<1>4. /\ Readable(b) = Readable(a) /\ (InvalidLast(a) => InvalidLast(b)) /\ DOMAIN b = DOMAIN a
      /\ DOMAIN a = 1..Len(a) /\ Len(a) \in Nat /\ Len(b) = Len(a)
      /\ \A i \in DOMAIN a : b[i].kind = a[i].kind /\ b[i].severity = a[i].severity
                             /\ b[i].site = a[i].site
  BY <1>1, SameReadable DEF SameBlocks
<1>5. RaceAccount'
  <2> SUFFICES ASSUME tool = "racecheck"
               PROVE  /\ p'.diagnostics = {} => Held(p') = Cardinality(Readable(b))
                      /\ p'.open.kind = "invalid" => InvalidLast(b)
    BY DEF RaceAccount, Held
  <2>1. /\ p.diagnostics = {} => Held(p) = Cardinality(Readable(a))
        /\ p.open.kind = "invalid" => InvalidLast(a)
    BY <1>1 DEF RaceAccount
  <2> QED BY <1>4, <2>1 DEF FollowsTo
<1>6. IssueAccount'
  <2> SUFFICES ASSUME tool # "racecheck"
               PROVE  /\ \A i \in DOMAIN b :
                            b[i].severity = "error" /\ b[i].kind \in {"issue", "unknown"}
                      /\ Held(p') = Cardinality(Readable(b))
                      /\ Held(p') <= Len(b)
                      /\ Held(p') = Len(b) =>
                            \A i \in 1..Held(p') : SiteOf(p', i) \in {Sweep!NoSite, b[i].site}
    BY DEF IssueAccount, Held, SiteOf, Sweep!NoSite
  <2>1. /\ \A i \in DOMAIN a : a[i].severity = "error" /\ a[i].kind \in {"issue", "unknown"}
        /\ Held(p) = Cardinality(Readable(a))
        /\ Held(p) <= Len(a)
        /\ Held(p) = Len(a) => \A i \in 1..Held(p) : SiteOf(p, i) \in {Sweep!NoSite, a[i].site}
        /\ Held(p') = Held(p) /\ SitesStay(p, p')
    BY <1>1 DEF IssueAccount
  <2> HIDE DEF a, b
  <2>2. ASSUME Held(p) = Len(a), NEW i \in 1..Held(p)
        PROVE  SiteOf(p', i) \in {Sweep!NoSite, b[i].site}
    <3>1. i \in DOMAIN a /\ b[i].site = a[i].site
      BY <1>4, <2>2
    <3>2. SiteOf(p', i) = SiteOf(p, i) \/ SiteOf(p', i) = a[i].site
      BY <2>1, <2>2 DEF SitesStay, a
    <3> QED BY <2>1, <2>2, <3>1, <3>2
  <2> QED BY <1>4, <2>1, <2>2
<1>7. ResultIsCollected'
  BY NoResultYet
<1> QED BY <1>2, <1>3, <1>5, <1>6, <1>7 DEF SweepInv

(* A line that makes no block whole.                                       *)
LEMMA NothingWhole ==
    ASSUME SweepInv, tool' = tool, world'.blocks = world.blocks, FollowsTo(p, p', p'.summary),
           world'.state = "running" => world'.last \notin {"header", "conflict", "message"},
           tool # "racecheck" => Held(p') = Held(p) /\ SitesStay(p, p')
    PROVE  WholeIsHeld'
<1>1. /\ (\E i \in DOMAIN world.blocks : world.blocks[i].whole) => Promising(p)
      /\ tool \in Sweep!TargetScoped =>
            ((\E i \in DOMAIN world.blocks :
                 world.blocks[i].whole /\ world.blocks[i].site = "own kernel")
               => \E i \in 1..Held(p) : SiteOf(p, i) = "own kernel")
  BY DEF SweepInv, WholeIsHeld
<1>2. Promising(p) => Promising(p')
  BY DEF FollowsTo
<1>3. tool \in Sweep!TargetScoped => tool # "racecheck"
  BY DEF Sweep!TargetScoped
<1>4. ASSUME tool # "racecheck", NEW i \in 1..Held(p), SiteOf(p, i) = "own kernel"
      PROVE  i \in 1..Held(p') /\ SiteOf(p', i) = "own kernel"
  BY <1>4 DEF SitesStay, Sweep!NoSite
<1>5. ~(world'.state = "running" /\ world'.last \in {"header", "conflict"})
      /\ ~(world'.state = "running" /\ world'.last = "message")
  OBVIOUS
<1>6. (\E i \in DOMAIN world'.blocks : world'.blocks[i].whole) => Promising(p')
  BY <1>1, <1>2
<1>7. tool' \in Sweep!TargetScoped =>
            ((\E i \in DOMAIN world'.blocks :
                 world'.blocks[i].whole /\ world'.blocks[i].site = "own kernel")
               => \E i \in 1..Held(p') : SiteOf(p', i) = "own kernel")
  BY <1>1, <1>3, <1>4
<1> QED BY <1>5, <1>6, <1>7 DEF WholeIsHeld, Sweep!Running, Promising, Held, SiteOf, Sweep!TargetScoped, Sweep!NoSite

LEMMA ToolKinds ==
    ASSUME SweepInv
    PROVE  /\ p \in Parsers /\ world \in Worlds /\ world.blocks \in Seq(BlockRecord)
           /\ tool = "racecheck" => p.open.kind \in RaceKinds
           /\ tool # "racecheck" => p.open.kind \in CheckerKinds
           /\ tool \in Sweep!TargetScoped => tool # "racecheck"
           /\ tool \in Sweep!ErrorTools => tool # "racecheck"
           /\ tool # "racecheck" => tool \in Sweep!ErrorTools
BY DEF SweepInv, SweepType, Worlds, RaceKinds, CheckerKinds, Sweep!TargetScoped,
       Sweep!ErrorTools, Sweep!Tools

LEMMA PlainFacts ==
    ASSUME SweepInv, NEW line, Sweep!Consume(line),
           tool = "racecheck" => IsRacePlain(line),
           tool # "racecheck" => IsPlain(line),
           line.kind = "site" => line.site = world.blocks[Len(world.blocks)].site
    PROVE  /\ FollowsTo(p, p', p'.summary) /\ p'.summary = p.summary
           /\ p'.open.kind \in IF tool = "racecheck" THEN RaceKinds ELSE CheckerKinds
           /\ tool # "racecheck" => Held(p') = Held(p) /\ SitesStay(p, p')
           /\ Promising(p) => Promising(p')
<1>1. CASE tool = "racecheck"
  <2>1. p' = Sweep!ConsumeRacecheck(p, line)
    BY <1>1 DEF Sweep!Consume
  <2>2. Follows(p, p') /\ p'.open.kind \in RaceKinds
    <3>1. p \in Parsers /\ p.open.kind \in RaceKinds
      BY <1>1, ToolKinds
    <3> QED BY <1>1, <2>1, <3>1, RacecheckLine
  <2> QED BY <1>1, <2>2 DEF Follows, FollowsTo
<1>2. CASE tool # "racecheck"
  <2>1. p' = Sweep!ConsumeChecker(p, line)
    BY <1>2 DEF Sweep!Consume
  <2>2. /\ Follows(p, p') /\ p'.open.kind \in CheckerKinds /\ Held(p') = Held(p)
        /\ \A i \in 1..Held(p) :
                 \/ SiteOf(p', i) = SiteOf(p, i)
                 \/ /\ line.kind = "site" /\ i = Held(p)
                    /\ SiteOf(p, i) = Sweep!NoSite /\ SiteOf(p', i) = line.site
    <3>1. p \in Parsers /\ p.open.kind \in CheckerKinds /\ IsPlain(line)
      BY <1>2, ToolKinds
    <3> QED BY <2>1, <3>1, CheckerLine
  <2>3. SitesStay(p, p')
    BY <2>2 DEF SitesStay
  <2> QED BY <1>2, <2>2, <2>3 DEF Follows, FollowsTo
<1> QED BY <1>1, <1>2

LEMMA SummaryStays ==
    ASSUME SweepInv, world' \in Worlds, tool' = tool, p'.summary = p.summary,
           \/ ~world.summed
           \/ /\ SameBlocks(world.blocks, world'.blocks) /\ world'.hidden = world.hidden
              /\ world'.summed = world.summed
    PROVE  p'.summary # Sweep!None => world'.summed /\ p'.summary = Sweep!Counts'
<1>1. SummaryIsTrue /\ world \in Worlds
  BY DEF SweepInv, SweepType
<1>2. CASE ~world.summed
  BY <1>1, <1>2 DEF SummaryIsTrue
<1>3. CASE /\ SameBlocks(world.blocks, world'.blocks) /\ world'.hidden = world.hidden
           /\ world'.summed = world.summed
  <2>1. Sweep!Counts' = Sweep!Counts
    BY <1>1, <1>3, CountsKept
  <2> QED BY <1>1, <1>3, <2>1 DEF SummaryIsTrue
<1> QED BY <1>2, <1>3

LEMMA SameIsSame == \A a : SameBlocks(a, a)
BY DEF SameBlocks

LEMMA NoiseGrows == \A w \in Worlds : w.noise + 1 \in Nat
<1>1. \A w \in Worlds : w.noise \in Nat
  BY DEF Worlds
<1> QED BY <1>1

LEMMA NoiseStep == ASSUME SweepInv, Sweep!Noise PROVE SweepInv'
<1>1. PICK k \in {"noise", "internal error"} :
         /\ world' = [world EXCEPT !.noise = @ + 1, !.last = k]
         /\ Sweep!Consume([kind |-> k])
  BY DEF Sweep!Noise
<1>2. Sweep!Running /\ UNCHANGED <<tool, pinned, result>>
  BY DEF Sweep!Noise
<1> DEFINE line == [kind |-> k]
<1>3. line.kind = k /\ IsPlain(line) /\ IsRacePlain(line) /\ Sweep!Consume(line)
  BY <1>1 DEF IsPlain, IsRacePlain
<1> HIDE DEF line
<1>4. world \in Worlds
  BY ToolKinds
<1>5. world.noise + 1 \in Nat
  BY <1>4, NoiseGrows, Zenon
<1>6. /\ world' \in Worlds /\ world'.blocks = world.blocks /\ world'.hidden = world.hidden
      /\ world'.summed = world.summed /\ world'.last = k
  BY <1>1, <1>4, <1>5 DEF Worlds, LineKinds
<1>7. /\ FollowsTo(p, p', p'.summary) /\ p'.summary = p.summary
      /\ p'.open.kind \in IF tool = "racecheck" THEN RaceKinds ELSE CheckerKinds
      /\ tool # "racecheck" => Held(p') = Held(p) /\ SitesStay(p, p')
  BY <1>3, PlainFacts
<1>8. SameBlocks(world.blocks, world'.blocks)
  BY <1>6, SameIsSame
<1>9. p'.summary # Sweep!None => world'.summed /\ p'.summary = Sweep!Counts'
  BY <1>2, <1>6, <1>7, <1>8, SummaryStays
<1>10. WholeIsHeld'
  BY <1>2, <1>6, <1>7, NothingWhole
<1> QED BY <1>2, <1>6, <1>7, <1>8, <1>9, <1>10, LineStep

LEMMA RaceIsOpen ==
    ASSUME SweepInv, Sweep!Running, world.last \in {"header", "conflict"}
    PROVE  tool = "racecheck" /\ p.open.kind = "race"
<1>1. p.open.kind = "race"
  BY DEF SweepInv, WholeIsHeld
<1> QED BY <1>1, ToolKinds DEF CheckerKinds

LEMMA GarbledConflictStep == ASSUME SweepInv, Sweep!GarbledConflict PROVE SweepInv'
<1> DEFINE line == [kind |-> "garbled conflict"]
<1>1. /\ Sweep!Running /\ world' = [world EXCEPT !.last = "garbled conflict"]
      /\ Sweep!Consume(line) /\ UNCHANGED <<tool, pinned, result>>
      /\ world.last \in {"header", "conflict"}
  BY DEF Sweep!GarbledConflict, Sweep!Line
<1>2. line.kind = "garbled conflict" /\ IsRacePlain(line)
  BY DEF IsRacePlain
<1> HIDE DEF line
<1>3. tool = "racecheck" /\ world \in Worlds
  BY <1>1, RaceIsOpen, ToolKinds
<1>4. /\ FollowsTo(p, p', p'.summary) /\ p'.summary = p.summary
      /\ p'.open.kind \in IF tool = "racecheck" THEN RaceKinds ELSE CheckerKinds
  BY <1>1, <1>2, <1>3, PlainFacts
<1>6. /\ world' \in Worlds /\ world'.blocks = world.blocks /\ world'.hidden = world.hidden
      /\ world'.summed = world.summed /\ world'.last = "garbled conflict"
  BY <1>1, <1>3 DEF Worlds, LineKinds
<1>8. SameBlocks(world.blocks, world'.blocks)
  BY <1>6, SameIsSame
<1>9. p'.summary # Sweep!None => world'.summed /\ p'.summary = Sweep!Counts'
  BY <1>1, <1>4, <1>6, <1>8, SummaryStays
<1>10. WholeIsHeld'
  BY <1>1, <1>3, <1>4, <1>6, NothingWhole
<1> QED BY <1>1, <1>3, <1>4, <1>6, <1>8, <1>9, <1>10, LineStep

(* The last block becomes whole.                                           *)
LEMMA WholeBlock ==
    ASSUME NEW a \in Seq(BlockRecord), NEW v \in BOOLEAN, NEW b,
           b = [a EXCEPT ![Len(a)].whole = v]
    PROVE  /\ b \in Seq(BlockRecord) /\ SameBlocks(a, b)
           /\ \A i \in DOMAIN a : i # Len(a) => b[i] = a[i]
           /\ Len(a) \in DOMAIN a => b[Len(a)].whole = v
<1>1. DOMAIN b = DOMAIN a /\ DOMAIN a = 1..Len(a) /\ Len(a) \in Nat
  OBVIOUS
<1>2. \A i \in DOMAIN a : i # Len(a) => b[i] = a[i]
  OBVIOUS
<1>3. ASSUME Len(a) \in DOMAIN a
      PROVE  /\ b[Len(a)] \in BlockRecord /\ b[Len(a)].whole = v
             /\ b[Len(a)].kind = a[Len(a)].kind /\ b[Len(a)].severity = a[Len(a)].severity
             /\ b[Len(a)].site = a[Len(a)].site
  <2> DEFINE x == a[Len(a)]
  <2>1. x \in BlockRecord
    BY <1>3
  <2>2. b[Len(a)] = [x EXCEPT !.whole = v]
    BY <1>3
  <2> HIDE DEF x
  <2>3. /\ [x EXCEPT !.whole = v] \in BlockRecord /\ [x EXCEPT !.whole = v].whole = v
        /\ [x EXCEPT !.whole = v].kind = x.kind /\ [x EXCEPT !.whole = v].severity = x.severity
        /\ [x EXCEPT !.whole = v].site = x.site
    BY <2>1 DEF BlockRecord
  <2> QED BY <2>2, <2>3 DEF x
<1>4. ASSUME NEW i \in DOMAIN a
      PROVE  /\ b[i] \in BlockRecord /\ b[i].kind = a[i].kind /\ b[i].severity = a[i].severity
             /\ b[i].site = a[i].site
  <2>1. CASE i = Len(a)
    BY <1>3, <2>1
  <2>2. CASE i # Len(a)
    <3>1. b[i] = a[i] /\ a[i] \in BlockRecord
      BY <1>2, <2>2
    <3> QED BY <3>1
  <2> QED BY <2>1, <2>2
<1>5. b \in [1..Len(a) -> BlockRecord]
  <2>1. b = [i \in 1..Len(a) |-> b[i]]
    BY <1>1
  <2> QED BY <1>1, <1>4, <2>1
<1>6. b \in Seq(BlockRecord) /\ Len(b) = Len(a)
  BY <1>1, <1>5
<1>7. SameBlocks(a, b)
  BY <1>1, <1>4, <1>6 DEF SameBlocks
<1> QED BY <1>2, <1>3, <1>6, <1>7

LEMMA ConflictStep == ASSUME SweepInv, Sweep!Conflict PROVE SweepInv'
<1> DEFINE line == [kind |-> "conflict"]
           b == [world.blocks EXCEPT ![Len(world.blocks)].whole = TRUE]
<1>1. /\ Sweep!Running /\ world' = [world EXCEPT !.blocks = b, !.last = "conflict"]
      /\ Sweep!Consume(line) /\ UNCHANGED <<tool, pinned, result>>
      /\ world.last \in {"header", "conflict"}
  BY DEF Sweep!Conflict
<1>2. line.kind = "conflict" /\ IsRacePlain(line)
  BY DEF IsRacePlain
<1> HIDE DEF line
<1>3. /\ tool = "racecheck" /\ p.open.kind = "race" /\ world \in Worlds /\ p \in Parsers
      /\ world.blocks \in Seq(BlockRecord) /\ p.open.kind \in RaceKinds
  BY <1>1, RaceIsOpen, ToolKinds
<1>4. b \in Seq(BlockRecord) /\ SameBlocks(world.blocks, b)
  BY <1>3, WholeBlock
<1> HIDE DEF b
<1>5. p' = Sweep!ConsumeRacecheck(p, line)
  BY <1>1, <1>3 DEF Sweep!Consume
<1>6. Follows(p, p') /\ p'.open.kind = "race" /\ Promising(p')
  BY <1>2, <1>3, <1>5, RacecheckLine
<1>7. /\ world' \in Worlds /\ world'.blocks = b /\ world'.hidden = world.hidden
      /\ world'.summed = world.summed /\ world'.last = "conflict"
  BY <1>1, <1>3, <1>4 DEF Worlds, LineKinds
<1>8. /\ FollowsTo(p, p', p'.summary) /\ p'.summary = p.summary
      /\ p'.open.kind \in IF tool = "racecheck" THEN RaceKinds ELSE CheckerKinds
  BY <1>3, <1>6 DEF Follows, FollowsTo, RaceKinds
<1>9. p'.summary # Sweep!None => world'.summed /\ p'.summary = Sweep!Counts'
  BY <1>1, <1>4, <1>7, <1>8, SummaryStays
<1>10. WholeIsHeld'
  <2>1. tool' \notin Sweep!TargetScoped /\ world'.last # "message"
    BY <1>1, <1>3, <1>7 DEF Sweep!TargetScoped
  <2> QED BY <1>6, <2>1 DEF WholeIsHeld, Promising, Sweep!TargetScoped
<1> QED BY <1>1, <1>3, <1>4, <1>7, <1>8, <1>9, <1>10, LineStep

LEMMA LimitStep == ASSUME SweepInv, Sweep!LimitReached PROVE SweepInv'
<1> DEFINE line == [kind |-> "truncation"]
<1>1. /\ Sweep!Running /\ world' = [world EXCEPT !.hidden = 1, !.last = "truncation"]
      /\ UNCHANGED <<tool, pinned, result>> /\ ~world.summed
      /\ IF tool = "racecheck" THEN Sweep!Consume(line) ELSE UNCHANGED p
  BY DEF Sweep!LimitReached
<1>2. line.kind = "truncation" /\ IsRacePlain(line)
  BY DEF IsRacePlain
<1> HIDE DEF line
<1>3. p \in Parsers /\ world \in Worlds /\ (tool # "racecheck" => p.open.kind \in CheckerKinds)
  BY ToolKinds
<1>4. /\ FollowsTo(p, p', p'.summary) /\ p'.summary = p.summary
      /\ p'.open.kind \in IF tool = "racecheck" THEN RaceKinds ELSE CheckerKinds
      /\ tool # "racecheck" => Held(p') = Held(p) /\ SitesStay(p, p')
  <2>1. CASE tool = "racecheck"
    BY <1>1, <1>2, <2>1, PlainFacts
  <2>2. CASE tool # "racecheck"
    <3>1. p' = p
      BY <1>1, <2>2
    <3> QED BY <1>3, <2>2, <3>1, FollowsSelf DEF SitesStay, Follows
  <2> QED BY <2>1, <2>2
<1>6. /\ world' \in Worlds /\ world'.blocks = world.blocks /\ world'.last = "truncation"
  BY <1>1, <1>3 DEF Worlds, LineKinds
<1>8. SameBlocks(world.blocks, world'.blocks)
  BY <1>6, SameIsSame
<1>9. p'.summary # Sweep!None => world'.summed /\ p'.summary = Sweep!Counts'
  BY <1>1, <1>4, <1>6, SummaryStays
<1>10. WholeIsHeld'
  BY <1>1, <1>4, <1>6, NothingWhole
<1> QED BY <1>1, <1>4, <1>6, <1>8, <1>9, <1>10, LineStep

(* Both parsers on a summary.                                              *)
LEMMA SummaryFacts ==
    ASSUME SweepInv, NEW line, Sweep!Consume(line),
           line.kind = "cut summary" \/ (line.kind = "summary" /\ line.counts \in Summaries)
    PROVE  /\ FollowsTo(p, p', p'.summary)
           /\ p'.summary = (IF line.kind = "summary" THEN line.counts ELSE p.summary)
           /\ p'.open.kind \in IF tool = "racecheck" THEN RaceKinds ELSE CheckerKinds
           /\ tool # "racecheck" => Held(p') = Held(p) /\ SitesStay(p, p')
<1>1. CASE tool = "racecheck"
  <2>1. p' = Sweep!ConsumeRacecheck(p, line) /\ p \in Parsers
    BY <1>1, ToolKinds DEF Sweep!Consume
  <2>2. p' = Sweep!ConsumeSummary(p, line)
    BY <2>1 DEF Sweep!ConsumeRacecheck, Sweep!IsSummary
  <2>3. /\ FollowsTo(p, p', IF line.kind = "summary" THEN line.counts ELSE p.summary)
        /\ p'.open.kind = "closed"
    BY <2>1, <2>2, SummaryLine
  <2> QED BY <1>1, <2>3 DEF FollowsTo, RaceKinds
<1>2. CASE tool # "racecheck"
  <2>1. p' = Sweep!ConsumeChecker(p, line) /\ p \in Parsers /\ p.open.kind \in CheckerKinds
    BY <1>2, ToolKinds DEF Sweep!Consume
  <2>2. /\ FollowsTo(p, p', IF line.kind = "summary" THEN line.counts ELSE p.summary)
        /\ p'.open.kind = "closed" /\ Keeps(p, p')
    BY <2>1, CheckerSummary
  <2> QED BY <1>2, <2>2, SitesKept DEF FollowsTo, CheckerKinds
<1> QED BY <1>1, <1>2

LEMMA SummaryStep == ASSUME SweepInv, Sweep!Summary PROVE SweepInv'
<1> DEFINE line == [kind |-> "summary", counts |-> Sweep!Counts]
<1>1. /\ Sweep!Running /\ world' = [world EXCEPT !.summed = TRUE, !.last = "summary"]
      /\ UNCHANGED <<tool, pinned, result>> /\ Sweep!Consume(line)
  BY DEF Sweep!Summary
<1>2. line.kind = "summary" /\ line.counts = Sweep!Counts
  OBVIOUS
<1> HIDE DEF line
<1>3. world \in Worlds
  BY ToolKinds
<1>4. line.counts \in Summaries
  BY <1>2, <1>3, CountsIs
<1>5. /\ FollowsTo(p, p', p'.summary) /\ p'.summary = Sweep!Counts
      /\ p'.open.kind \in IF tool = "racecheck" THEN RaceKinds ELSE CheckerKinds
      /\ tool # "racecheck" => Held(p') = Held(p) /\ SitesStay(p, p')
  BY <1>1, <1>2, <1>4, SummaryFacts
<1>6. /\ world' \in Worlds /\ world'.blocks = world.blocks /\ world'.last = "summary"
      /\ world'.hidden = world.hidden /\ world'.summed
  BY <1>1, <1>3 DEF Worlds, LineKinds
<1>7. SameBlocks(world.blocks, world'.blocks)
  BY <1>6, SameIsSame
<1>8. Sweep!Counts' = Sweep!Counts
  BY <1>1, <1>3, <1>6, <1>7, CountsKept
<1>10. WholeIsHeld'
  BY <1>1, <1>5, <1>6, NothingWhole
<1> QED BY <1>1, <1>5, <1>6, <1>7, <1>8, <1>10, LineStep

LEMMA CutSummaryStep == ASSUME SweepInv, Sweep!CutSummary PROVE SweepInv'
<1> DEFINE line == [kind |-> "cut summary"]
<1>1. /\ Sweep!Running /\ world' = [world EXCEPT !.state = "killed"]
      /\ UNCHANGED <<tool, pinned, result>> /\ Sweep!Consume(line) /\ ~world.summed
  BY DEF Sweep!CutSummary
<1>2. line.kind = "cut summary"
  OBVIOUS
<1> HIDE DEF line
<1>3. world \in Worlds
  BY ToolKinds
<1>5. /\ FollowsTo(p, p', p'.summary) /\ p'.summary = p.summary
      /\ p'.open.kind \in IF tool = "racecheck" THEN RaceKinds ELSE CheckerKinds
      /\ tool # "racecheck" => Held(p') = Held(p) /\ SitesStay(p, p')
  BY <1>1, <1>2, SummaryFacts
<1>6. world' \in Worlds /\ world'.blocks = world.blocks /\ world'.state = "killed"
  BY <1>1, <1>3 DEF Worlds
<1>7. SameBlocks(world.blocks, world'.blocks)
  BY <1>6, SameIsSame
<1>8. p'.summary # Sweep!None => world'.summed /\ p'.summary = Sweep!Counts'
  BY <1>1, <1>5, <1>6, SummaryStays
<1>10. WholeIsHeld'
  BY <1>1, <1>5, <1>6, NothingWhole
<1> QED BY <1>1, <1>5, <1>6, <1>7, <1>8, <1>10, LineStep

LEMMA HiddenIsNat == \A w \in Worlds : w.hidden \in Nat
<1>1. \A w \in Worlds : w.hidden \in {0, 1}
  BY DEF Worlds
<1> QED BY <1>1

LEMMA NotPrintedStep == ASSUME SweepInv, Sweep!NotPrinted PROVE SweepInv'
<1> DEFINE line == [kind |-> "not printed", count |-> world.hidden]
<1>1. /\ Sweep!Running /\ world' = [world EXCEPT !.last = "not printed"]
      /\ UNCHANGED <<tool, pinned, result>> /\ Sweep!Consume(line) /\ tool \in Sweep!ErrorTools
  BY DEF Sweep!NotPrinted, Sweep!Line
<1>2. line.kind = "not printed" /\ line.count = world.hidden
  OBVIOUS
<1> HIDE DEF line
<1>3. world \in Worlds /\ tool # "racecheck" /\ p \in Parsers /\ p.open.kind \in CheckerKinds
  BY <1>1, ToolKinds
<1>4. line.count \in Nat
  BY <1>2, <1>3, HiddenIsNat
<1>5. p' = Sweep!ConsumeChecker(p, line)
  BY <1>1, <1>3 DEF Sweep!Consume
<1>6. Follows(p, p') /\ p'.open.kind = "closed" /\ Keeps(p, p')
  BY <1>2, <1>3, <1>4, <1>5, CheckerNotPrinted
<1>7. /\ FollowsTo(p, p', p'.summary) /\ p'.summary = p.summary
      /\ p'.open.kind \in IF tool = "racecheck" THEN RaceKinds ELSE CheckerKinds
      /\ tool # "racecheck" => Held(p') = Held(p) /\ SitesStay(p, p')
  BY <1>3, <1>6, SitesKept DEF Follows, FollowsTo, CheckerKinds
<1>8. /\ world' \in Worlds /\ world'.blocks = world.blocks /\ world'.last = "not printed"
      /\ world'.hidden = world.hidden /\ world'.summed = world.summed
  BY <1>1, <1>3 DEF Worlds, LineKinds
<1>9. SameBlocks(world.blocks, world'.blocks)
  BY <1>8, SameIsSame
<1>10. p'.summary # Sweep!None => world'.summed /\ p'.summary = Sweep!Counts'
  BY <1>1, <1>7, <1>8, <1>9, SummaryStays
<1>11. WholeIsHeld'
  BY <1>1, <1>7, <1>8, NothingWhole
<1> QED BY <1>1, <1>7, <1>8, <1>9, <1>10, <1>11, LineStep

LEMMA EndsStep == ASSUME SweepInv, Sweep!Ends PROVE SweepInv'
<1>1. PICK state \in {"exit 0", "exit 1", "killed", "never ran"} :
         world' = [world EXCEPT !.state = state]
  BY DEF Sweep!Ends
<1>2. Sweep!Running /\ UNCHANGED <<tool, pinned, p, result>>
  BY DEF Sweep!Ends
<1>3. /\ world \in Worlds /\ p \in Parsers
      /\ p.open.kind \in IF tool = "racecheck" THEN RaceKinds ELSE CheckerKinds
  BY ToolKinds
<1>4. /\ world' \in Worlds /\ world'.blocks = world.blocks /\ world'.state # "running"
      /\ world'.hidden = world.hidden /\ world'.summed = world.summed
  BY <1>1, <1>3 DEF Worlds
<1>5. SameBlocks(world.blocks, world'.blocks)
  BY <1>4, SameIsSame
<1>6. /\ FollowsTo(p, p', p'.summary) /\ p'.summary = p.summary
      /\ tool # "racecheck" => Held(p') = Held(p) /\ SitesStay(p, p')
  BY <1>2, <1>3, FollowsSelf DEF Follows, SitesStay
<1>7. p'.summary # Sweep!None => world'.summed /\ p'.summary = Sweep!Counts'
  BY <1>2, <1>4, <1>5, <1>6, SummaryStays
<1>8. WholeIsHeld'
  BY <1>2, <1>4, <1>6, NothingWhole
<1> QED BY <1>2, <1>3, <1>4, <1>5, <1>6, <1>7, <1>8, LineStep

LEMMA SiteStep == ASSUME SweepInv, Sweep!Site PROVE SweepInv'
<1> DEFINE n == Len(world.blocks)
           v == world.blocks[n].whole \/ world.last = "message"
           b == [world.blocks EXCEPT ![n].whole = v]
           line == [kind |-> "site", site |-> world.blocks[n].site]
<1>1. /\ Sweep!Running /\ world' = [world EXCEPT !.blocks = b, !.last = "site"]
      /\ UNCHANGED <<tool, pinned, result>> /\ Sweep!Consume(line)
      /\ world.blocks # <<>>
  BY DEF Sweep!Site, Sweep!Block
<1>2. world \in Worlds /\ p \in Parsers /\ world.blocks \in Seq(BlockRecord)
  BY ToolKinds
<1>3. n \in DOMAIN world.blocks /\ n \in Nat /\ DOMAIN world.blocks = 1..n
  BY <1>1, <1>2
<1>4. world.blocks[n] \in BlockRecord
  BY <1>2, <1>3
<1>5. world.blocks[n].site \in Sweep!Sites /\ world.blocks[n].whole \in BOOLEAN
  BY <1>4 DEF BlockRecord
<1>6. v \in BOOLEAN
  BY <1>5
<1>7. line.kind = "site" /\ line.site = world.blocks[n].site
  OBVIOUS
<1> HIDE DEF line
<1>8. IsPlain(line) /\ IsRacePlain(line)
  BY <1>5, <1>7 DEF IsPlain, IsRacePlain
<1> HIDE DEF v
<1>9. /\ b \in Seq(BlockRecord) /\ SameBlocks(world.blocks, b) /\ b[n].whole = v
      /\ \A i \in DOMAIN world.blocks : i # n => b[i] = world.blocks[i]
  BY <1>2, <1>3, <1>6, WholeBlock
<1> HIDE DEF b
<1>10. /\ world' \in Worlds /\ world'.blocks = b /\ world'.hidden = world.hidden
       /\ world'.summed = world.summed /\ world'.last = "site"
  BY <1>1, <1>2, <1>9 DEF Worlds, LineKinds
<1>11. /\ FollowsTo(p, p', p'.summary) /\ p'.summary = p.summary
       /\ p'.open.kind \in IF tool = "racecheck" THEN RaceKinds ELSE CheckerKinds
       /\ tool # "racecheck" => Held(p') = Held(p) /\ SitesStay(p, p')
       /\ Promising(p) => Promising(p')
  BY <1>1, <1>7, <1>8, PlainFacts
<1>12. p'.summary # Sweep!None => world'.summed /\ p'.summary = Sweep!Counts'
  BY <1>1, <1>9, <1>10, <1>11, SummaryStays
<1>13. world.last = "message" =>
          p.open.kind = "issue" /\ p.open.seen = 0 /\ p.open.site = Sweep!NoSite
  BY <1>1 DEF SweepInv, WholeIsHeld
<1>14. ASSUME NEW i \in DOMAIN b, b[i].whole
       PROVE  \/ i \in DOMAIN world.blocks /\ world.blocks[i].whole
              \/ i = n /\ world.last = "message"
  <2>1. i \in DOMAIN world.blocks
    BY <1>9 DEF SameBlocks
  <2> QED BY <1>9, <1>14, <2>1 DEF v
<1>15. (\E i \in DOMAIN b : b[i].whole) => Promising(p')
  <2> SUFFICES ASSUME NEW i \in DOMAIN b, b[i].whole PROVE Promising(p)
    BY <1>11
  <2>1. CASE world.blocks[i].whole /\ i \in DOMAIN world.blocks
    BY <2>1 DEF SweepInv, WholeIsHeld
  <2>2. CASE world.last = "message"
    BY <1>13, <2>2 DEF Promising
  <2> QED BY <1>14, <2>1, <2>2
<1>16. ASSUME tool \in Sweep!TargetScoped, NEW i \in DOMAIN b, b[i].whole,
              b[i].site = "own kernel"
       PROVE  \E j \in 1..Held(p') : SiteOf(p', j) = "own kernel"
  <2>1. i \in DOMAIN world.blocks /\ world.blocks[i].site = "own kernel" /\ tool # "racecheck"
    BY <1>9, <1>16, ToolKinds DEF SameBlocks
  <2>2. CASE world.blocks[i].whole
    <3>1. PICK j \in 1..Held(p) : SiteOf(p, j) = "own kernel"
      BY <1>16, <2>1, <2>2 DEF SweepInv, WholeIsHeld
    <3>2. SiteOf(p', j) = "own kernel" /\ j \in 1..Held(p')
      BY <1>11, <2>1, <3>1 DEF SitesStay, Sweep!NoSite
    <3> QED BY <3>2
  <2>3. CASE i = n /\ world.last = "message"
    <3>1. p' = Sweep!ConsumeChecker(p, line) /\ p.open.kind \in CheckerKinds
      BY <1>1, <2>1, ToolKinds DEF Sweep!Consume
    <3>2. SiteOf(p', Held(p)) = line.site
      BY <1>2, <1>7, <1>8, <1>13, <2>3, <3>1, CheckerLine
    <3>3. Held(p) \in 1..Held(p')
      <4>1. p.open.kind # "closed"
        BY <1>13, <2>3
      <4>2. Held(p) = Len(p.issues) + 1 /\ Len(p.issues) \in Nat
        BY <1>2, <4>1, HeldFacts
      <4>3. Held(p') = Held(p)
        BY <1>11, <2>1
      <4> HIDE DEF n
      <4> QED BY <4>2, <4>3
    <3> QED BY <1>7, <2>1, <2>3, <3>2, <3>3
  <2> QED BY <1>14, <1>16, <2>2, <2>3
<1>17. WholeIsHeld'
  <2>1. world'.last \notin {"header", "conflict", "message"}
    BY <1>10
  <2>2. tool' = tool
    BY <1>1
  <2> HIDE DEF n
  <2> QED BY <1>10, <1>15, <1>16, <2>1, <2>2
      DEF WholeIsHeld, Promising, Held, SiteOf, Sweep!TargetScoped
<1> QED BY <1>1, <1>9, <1>10, <1>11, <1>12, <1>17, LineStep

(* A line that opens a block.                                              *)
Prints(x, line) ==
    /\ Sweep!Running /\ ~world.summed
    /\ world' = [world EXCEPT !.blocks = Append(@, x), !.last = line.kind]
    /\ Sweep!Consume(line)
    /\ UNCHANGED <<tool, pinned, result>>

LEMMA BlockFacts ==
    ASSUME SweepInv, NEW x \in BlockRecord, NEW line, line.kind \in LineKinds, Prints(x, line)
    PROVE  /\ world' \in Worlds /\ world'.last = line.kind
           /\ world'.blocks \in Seq(BlockRecord) /\ world'.blocks = Append(world.blocks, x)
           /\ DOMAIN world'.blocks = 1..(Len(world.blocks) + 1)
           /\ Len(world'.blocks) = Len(world.blocks) + 1
           /\ DOMAIN world.blocks = 1..Len(world.blocks) /\ Len(world.blocks) \in Nat
           /\ \A i \in 1..Len(world.blocks) : world'.blocks[i] = world.blocks[i]
           /\ world'.blocks[Len(world.blocks) + 1] = x
           /\ \A i \in DOMAIN world'.blocks : i \in DOMAIN world.blocks \/ i = Len(world.blocks) + 1
<1> DEFINE b == Append(world.blocks, x)
<1>1. world' = [world EXCEPT !.blocks = b, !.last = line.kind]
  BY DEF Prints
<1>2. world \in Worlds /\ world.blocks \in Seq(BlockRecord)
  BY ToolKinds
<1>3. /\ b \in Seq(BlockRecord) /\ Len(b) = Len(world.blocks) + 1
      /\ DOMAIN b = 1..(Len(world.blocks) + 1) /\ DOMAIN world.blocks = 1..Len(world.blocks)
      /\ Len(world.blocks) \in Nat
      /\ (\A i \in 1..Len(world.blocks) : b[i] = world.blocks[i])
      /\ b[Len(world.blocks) + 1] = x
  BY <1>2, AnotherBlock
<1>4. \A i \in 1..(Len(world.blocks) + 1) :
         i \in 1..Len(world.blocks) \/ i = Len(world.blocks) + 1
  BY <1>3
<1> HIDE DEF b
<1>5. world' \in Worlds /\ world'.last = line.kind /\ world'.blocks = b
  BY <1>1, <1>2, <1>3 DEF Worlds
<1> QED BY <1>3, <1>4, <1>5 DEF b

LEMMA BlockStep ==
    ASSUME SweepInv, NEW x \in BlockRecord, NEW line, line.kind \in LineKinds, Prints(x, line),
           p' \in Parsers, p'.summary = p.summary,
           p'.open.kind \in IF tool = "racecheck" THEN RaceKinds ELSE CheckerKinds,
           RaceAccount', IssueAccount', WholeIsHeld'
    PROVE  SweepInv'
<1>1. world' \in Worlds
  BY BlockFacts
<1>2. Sweep!Running /\ ~world.summed /\ UNCHANGED <<tool, pinned, result>>
  BY DEF Prints
<1>3. SweepType'
  BY <1>1, <1>2 DEF SweepInv, SweepType, RaceKinds, CheckerKinds
<1>4. SummaryIsTrue'
  BY <1>2 DEF SweepInv, SummaryIsTrue, Sweep!None
<1>5. ResultIsCollected'
  BY <1>2, NoResultYet
<1> QED BY <1>3, <1>4, <1>5 DEF SweepInv

(* A block of racecheck.                                                   *)
LEMMA RaceBlockStep ==
    ASSUME SweepInv, NEW x \in BlockRecord, NEW line, line.kind \in LineKinds, Prints(x, line),
           tool = "racecheck", p' \in Parsers, p'.summary = p.summary, p'.open.kind \in RaceKinds,
           p'.diagnostics = {} => Held(p') = Cardinality(Readable(world'.blocks)),
           p'.open.kind = "invalid" => InvalidLast(world'.blocks),
           line.kind \notin {"conflict", "message"},
           line.kind = "header" => p'.open.kind = "race",
           Promising(p) => Promising(p'), x.whole => Promising(p')
    PROVE  SweepInv'
<1>1. /\ DOMAIN world.blocks = 1..Len(world.blocks) /\ world'.last = line.kind
      /\ \A i \in 1..Len(world.blocks) : world'.blocks[i] = world.blocks[i]
      /\ world'.blocks[Len(world.blocks) + 1] = x
      /\ \A i \in DOMAIN world'.blocks : i \in DOMAIN world.blocks \/ i = Len(world.blocks) + 1
  BY BlockFacts
<1>2. tool' = "racecheck"
  BY DEF Prints
<1>3. RaceAccount'
  BY <1>2 DEF RaceAccount, Held
<1>4. IssueAccount'
  BY <1>2 DEF IssueAccount
<1>5. (\E i \in DOMAIN world'.blocks : world'.blocks[i].whole) => Promising(p')
  BY <1>1 DEF SweepInv, WholeIsHeld
<1>6. tool' \notin Sweep!TargetScoped
  BY <1>2 DEF Sweep!TargetScoped
<1>7. WholeIsHeld'
  BY <1>1, <1>5, <1>6 DEF WholeIsHeld, Promising, Sweep!TargetScoped
<1> QED BY <1>3, <1>4, <1>7, BlockStep

LEMMA VisibleSites == \A site \in Sweep!Visible : site \in Sweep!Sites
BY DEF Sweep!Visible, Sweep!Sites

LEMMA RaceOpens ==
    ASSUME SweepInv, NEW x \in BlockRecord, NEW line, Prints(x, line), tool = "racecheck",
           \/ line.kind = "invalid" /\ x.kind = "invalid"
           \/ /\ line.kind = "header" /\ line.severity \in Severities /\ line.site \in Sweep!Sites
              /\ x.kind = "race" /\ x.whole = FALSE
    PROVE  SweepInv'
<1>1. p' = Sweep!ConsumeRacecheck(p, line) /\ p \in Parsers /\ p.open.kind \in RaceKinds
  BY ToolKinds DEF Prints, Sweep!Consume
<1>2. /\ p' \in Parsers /\ p.diagnostics \subseteq p'.diagnostics
      /\ p'.open.kind = (IF line.kind = "header" THEN "race" ELSE "invalid")
      /\ p'.diagnostics = {} => Held(p') = Held(p) + 1
      /\ Promising(p) => p'.issues # <<>>
      /\ p'.summary = p.summary
  BY <1>1, RacecheckOpens
<1>3. line.kind \in LineKinds /\ line.kind \notin {"conflict", "message"}
  BY DEF LineKinds
<1>4. world.blocks \in Seq(BlockRecord) /\ world'.blocks = Append(world.blocks, x)
  BY <1>3, BlockFacts, ToolKinds
<1>5. /\ Cardinality(Readable(world'.blocks)) = Cardinality(Readable(world.blocks)) + 1
      /\ x.kind = "invalid" => InvalidLast(world'.blocks)
  BY <1>4, AnotherReadable
<1>6. p'.diagnostics = {} => Held(p') = Cardinality(Readable(world'.blocks))
  BY <1>2, <1>5 DEF SweepInv, RaceAccount
<1>7. p'.open.kind = "invalid" => InvalidLast(world'.blocks)
  BY <1>2, <1>5
<1>8. /\ p'.open.kind \in RaceKinds /\ (line.kind = "header" => p'.open.kind = "race")
      /\ (Promising(p) => Promising(p')) /\ (x.whole => Promising(p'))
  BY <1>2 DEF Promising, RaceKinds
<1> QED BY <1>2, <1>3, <1>6, <1>7, <1>8, RaceBlockStep

LEMMA RaceHeaderStep == ASSUME SweepInv, Sweep!RaceHeader PROVE SweepInv'
<1>1. PICK severity \in {"error", "warning"}, site \in Sweep!Visible :
         Sweep!NewBlock("race", severity, site, FALSE,
                        [kind |-> "header", severity |-> severity, site |-> site])
  BY DEF Sweep!RaceHeader
<1> DEFINE x == [kind |-> "race", severity |-> severity, site |-> site, whole |-> FALSE]
           line == [kind |-> "header", severity |-> severity, site |-> site]
<1>2. site \in Sweep!Sites /\ severity \in Severities
  BY VisibleSites DEF Severities
<1>3. x \in BlockRecord /\ x.kind = "race" /\ x.whole = FALSE
  BY <1>2 DEF BlockRecord
<1>4. line.kind = "header" /\ line.severity \in Severities /\ line.site \in Sweep!Sites
  BY <1>2
<1>5. Prints(x, line) /\ tool = "racecheck"
  BY <1>1 DEF Sweep!NewBlock, Prints, Sweep!RaceHeader
<1> HIDE DEF x, line
<1> QED BY <1>3, <1>4, <1>5, RaceOpens

LEMMA InvalidAccessStep == ASSUME SweepInv, Sweep!InvalidAccess PROVE SweepInv'
<1>1. PICK site \in Sweep!Visible :
         Sweep!NewBlock("invalid", "error", site, TRUE, [kind |-> "invalid"])
  BY DEF Sweep!InvalidAccess
<1> DEFINE x == [kind |-> "invalid", severity |-> "error", site |-> site, whole |-> TRUE]
           line == [kind |-> "invalid"]
<1>3. x \in BlockRecord /\ x.kind = "invalid"
  BY VisibleSites DEF BlockRecord, Severities
<1>4. line.kind = "invalid"
  OBVIOUS
<1>5. Prints(x, line) /\ tool = "racecheck"
  BY <1>1 DEF Sweep!NewBlock, Prints, Sweep!InvalidAccess
<1> HIDE DEF x, line
<1> QED BY <1>3, <1>4, <1>5, RaceOpens

LEMMA GarbledHeaderStep == ASSUME SweepInv, Sweep!GarbledHeader PROVE SweepInv'
<1> DEFINE x == [kind |-> "garbled", severity |-> "error", site |-> "own kernel", whole |-> FALSE]
           line == [kind |-> "garbled header"]
<1>1. x \in BlockRecord /\ x.kind = "garbled" /\ x.whole = FALSE
  BY DEF BlockRecord, Severities, Sweep!Sites
<1>2. line.kind = "garbled header" /\ IsRacePlain(line) /\ line.kind \in LineKinds
  BY DEF IsRacePlain, LineKinds
<1>3. Prints(x, line) /\ tool = "racecheck"
  BY DEF Sweep!NewBlock, Prints, Sweep!GarbledHeader
<1> HIDE DEF x, line
<1>4. p' = Sweep!ConsumeRacecheck(p, line) /\ p \in Parsers /\ p.open.kind \in RaceKinds
  BY <1>3, ToolKinds DEF Prints, Sweep!Consume
<1>5. /\ Follows(p, p') /\ p'.open.kind \in RaceKinds
      /\ p'.diagnostics = {} => p.open.kind = "invalid"
  BY <1>2, <1>4, RacecheckLine
<1>6. world.blocks \in Seq(BlockRecord) /\ world'.blocks = Append(world.blocks, x)
  BY <1>1, <1>2, <1>3, BlockFacts, ToolKinds
<1>7. /\ p.open.kind = "invalid" => InvalidLast(world.blocks)
      /\ p.diagnostics = {} => Held(p) = Cardinality(Readable(world.blocks))
  BY <1>3 DEF SweepInv, RaceAccount
<1>8. InvalidLast(world.blocks) =>
         Readable(world'.blocks) = Readable(world.blocks) /\ InvalidLast(world'.blocks)
  BY <1>1, <1>6, AnotherReadable
<1>9. /\ p' \in Parsers /\ p'.summary = p.summary
      /\ p'.diagnostics = {} => Held(p') = Cardinality(Readable(world'.blocks))
      /\ p'.open.kind = "invalid" => InvalidLast(world'.blocks)
      /\ Promising(p) => Promising(p')
  BY <1>5, <1>7, <1>8 DEF Follows, FollowsTo
<1>10. line.kind \notin {"conflict", "message"} /\ (line.kind = "header" => p'.open.kind = "race")
  BY <1>2
<1> QED BY <1>1, <1>2, <1>3, <1>5, <1>9, <1>10, RaceBlockStep

(* A block of memcheck or initcheck: one more issue, or one that the       *)
(* parser does not see.                                                    *)
LEMMA CheckerBlockStep ==
    ASSUME SweepInv, NEW x \in BlockRecord, NEW line, line.kind \in LineKinds, Prints(x, line),
           tool # "racecheck", p' \in Parsers, p'.summary = p.summary,
           p'.open.kind \in CheckerKinds, x.severity = "error", x.kind \in {"issue", "unknown"},
           \A i \in 1..Held(p) : SiteOf(p', i) = SiteOf(p, i),
           \/ x.kind = "unknown" /\ Held(p') = Held(p)
           \/ /\ x.kind = "issue" /\ Held(p') = Held(p) + 1
              /\ SiteOf(p', Held(p')) = Sweep!NoSite,
           line.kind \notin {"header", "conflict"},
           line.kind = "message" =>
              p'.open.kind = "issue" /\ p'.open.seen = 0 /\ p'.open.site = Sweep!NoSite,
           Promising(p) => Promising(p'), x.whole => Promising(p'),
           tool \in Sweep!TargetScoped => ~x.whole
    PROVE  SweepInv'
<1> DEFINE a == world.blocks
           b == world'.blocks
<1>1. /\ DOMAIN a = 1..Len(a) /\ world'.last = line.kind /\ Len(b) = Len(a) + 1
      /\ Len(a) \in Nat /\ b = Append(a, x) /\ DOMAIN b = 1..(Len(a) + 1)
      /\ \A i \in 1..Len(a) : b[i] = a[i]
      /\ b[Len(a) + 1] = x
      /\ \A i \in DOMAIN b : i \in DOMAIN a \/ i = Len(a) + 1
  BY BlockFacts
<1>2. tool' = tool /\ a \in Seq(BlockRecord) /\ p \in Parsers
  BY ToolKinds DEF Prints
<1>3. /\ \A i \in DOMAIN a : a[i].severity = "error" /\ a[i].kind \in {"issue", "unknown"}
      /\ Held(p) = Cardinality(Readable(a))
      /\ Held(p) <= Len(a)
      /\ Held(p) = Len(a) => \A i \in 1..Held(p) : SiteOf(p, i) \in {Sweep!NoSite, a[i].site}
  BY DEF SweepInv, IssueAccount
<1>4. /\ (\E i \in DOMAIN a : a[i].whole) => Promising(p)
      /\ tool \in Sweep!TargetScoped =>
            ((\E i \in DOMAIN a : a[i].whole /\ a[i].site = "own kernel")
               => \E i \in 1..Held(p) : SiteOf(p, i) = "own kernel")
  BY DEF SweepInv, WholeIsHeld
<1>5. /\ x.kind = "unknown" => Readable(b) = Readable(a)
      /\ x.kind = "issue" => Cardinality(Readable(b)) = Cardinality(Readable(a)) + 1
  BY <1>1, <1>2, AnotherReadable
<1>6. Held(p) \in Nat /\ Held(p') \in Nat
  BY <1>2, HeldFacts
<1>a. \A i \in 1..Held(p) : i \in 1..Held(p')
  <2> HIDE DEF a, b
  <2>1. Held(p') = Held(p) \/ Held(p') = Held(p) + 1
    OBVIOUS
  <2> QED BY <1>6, <2>1
<1>7. RaceAccount'
  BY <1>2 DEF RaceAccount
<1>8. IssueAccount'
  <2> HIDE DEF a, b
  <2>1. \A i \in DOMAIN b : b[i].severity = "error" /\ b[i].kind \in {"issue", "unknown"}
    BY <1>1, <1>3
  <2>2. Held(p') = Cardinality(Readable(b)) /\ Held(p') <= Len(b)
    BY <1>1, <1>3, <1>5, <1>6
  <2>3. ASSUME Held(p') = Len(b), NEW i \in 1..Held(p')
        PROVE  SiteOf(p', i) \in {Sweep!NoSite, b[i].site}
    <3>1. /\ Held(p') = Held(p) + 1 /\ SiteOf(p', Held(p')) = Sweep!NoSite
          /\ Held(p) = Len(a)
      BY <1>1, <1>3, <1>6, <2>3
    <3>2. CASE i = Held(p')
      BY <3>1, <3>2
    <3>3. CASE i # Held(p')
      <4>1. i \in 1..Held(p) /\ i \in 1..Len(a)
        BY <1>6, <2>3, <3>1, <3>3
      <4> QED BY <1>1, <1>3, <3>1, <4>1
    <3> QED BY <3>2, <3>3
  <2> QED BY <2>1, <2>2, <2>3 DEF IssueAccount, Held, SiteOf, Sweep!NoSite, b
<1>9. (\E i \in DOMAIN b : b[i].whole) => Promising(p')
  BY <1>1, <1>4
<1>10. ASSUME tool \in Sweep!TargetScoped, NEW i \in DOMAIN b, b[i].whole,
              b[i].site = "own kernel"
       PROVE  \E j \in 1..Held(p') : SiteOf(p', j) = "own kernel"
  <2>1. i \in DOMAIN a /\ a[i].whole /\ a[i].site = "own kernel"
    BY <1>1, <1>10
  <2>2. PICK j \in 1..Held(p) : SiteOf(p, j) = "own kernel"
    BY <1>4, <1>10, <2>1
  <2> QED BY <1>a, <2>2
<1>11. WholeIsHeld'
  <2>1. world'.last \notin {"header", "conflict"}
    BY <1>1
  <2>2. world'.last = "message" =>
           p'.open.kind = "issue" /\ p'.open.seen = 0 /\ p'.open.site = Sweep!NoSite
    BY <1>1
  <2> QED BY <1>2, <1>9, <1>10, <2>1, <2>2
      DEF WholeIsHeld, Promising, Held, SiteOf, Sweep!TargetScoped, Sweep!NoSite
<1> QED BY <1>2, <1>7, <1>8, <1>11, BlockStep

LEMMA UnknownMessageStep == ASSUME SweepInv, Sweep!UnknownMessage PROVE SweepInv'
<1> DEFINE x == [kind |-> "unknown", severity |-> "error", site |-> "own kernel", whole |-> FALSE]
           line == [kind |-> "noise"]
<1>1. /\ x \in BlockRecord /\ x.kind = "unknown" /\ x.whole = FALSE /\ x.severity = "error"
  BY DEF BlockRecord, Severities, Sweep!Sites
<1>2. line.kind = "noise" /\ IsPlain(line) /\ line.kind \in LineKinds
  BY DEF IsPlain, LineKinds
<1>3. Prints(x, line) /\ tool \in Sweep!ErrorTools
  BY DEF Sweep!NewBlock, Prints, Sweep!UnknownMessage
<1> HIDE DEF x, line
<1>4. /\ p' = Sweep!ConsumeChecker(p, line) /\ p \in Parsers /\ p.open.kind \in CheckerKinds
      /\ tool # "racecheck"
  BY <1>3, ToolKinds DEF Prints, Sweep!Consume
<1>5. /\ Follows(p, p') /\ p'.open.kind \in CheckerKinds /\ Held(p') = Held(p)
      /\ \A i \in 1..Held(p) : SiteOf(p', i) = SiteOf(p, i)
  BY <1>2, <1>4, CheckerLine
<1>6. p' \in Parsers /\ p'.summary = p.summary /\ (Promising(p) => Promising(p'))
  BY <1>5 DEF Follows, FollowsTo
<1>7. line.kind \notin {"header", "conflict"} /\ line.kind # "message"
  BY <1>2
<1> QED BY <1>1, <1>2, <1>3, <1>4, <1>5, <1>6, <1>7, CheckerBlockStep

LEMMA MessageStep == ASSUME SweepInv, Sweep!Message PROVE SweepInv'
<1>1. PICK site \in Sweep!Visible \cup {Sweep!NoSite} :
          Sweep!NewBlock("issue", "error", site, tool \notin Sweep!TargetScoped,
                         [kind |-> "message", host |-> site = Sweep!NoSite])
  BY DEF Sweep!Message
<1> DEFINE v == tool \notin Sweep!TargetScoped
           x == [kind |-> "issue", severity |-> "error", site |-> site, whole |-> v]
           h == site = Sweep!NoSite
           line == [kind |-> "message", host |-> h]
<1>2. site \in Sweep!Sites /\ v \in BOOLEAN /\ h \in BOOLEAN
  BY VisibleSites DEF Sweep!Sites
<1>3. Prints(x, line) /\ tool \in Sweep!ErrorTools
  BY <1>1 DEF Sweep!NewBlock, Prints, Sweep!Message
<1>a. tool \in Sweep!TargetScoped => ~v
  OBVIOUS
<1> HIDE DEF v, h
<1>4. x \in BlockRecord /\ x.kind = "issue" /\ x.severity = "error" /\ x.whole = v
  BY <1>2 DEF BlockRecord, Severities
<1>5. line.kind = "message" /\ line.host \in BOOLEAN /\ line.kind \in LineKinds
  BY <1>2 DEF LineKinds
<1> HIDE DEF x, line
<1>6. /\ p' = Sweep!ConsumeChecker(p, line) /\ p \in Parsers /\ p.open.kind \in CheckerKinds
      /\ tool # "racecheck"
  BY <1>3, ToolKinds DEF Prints, Sweep!Consume
<1>7. /\ p' \in Parsers /\ p'.summary = p.summary
      /\ p'.open.kind = "issue" /\ p'.open.seen = 0 /\ p'.open.site = Sweep!NoSite
      /\ Held(p') = Held(p) + 1 /\ SiteOf(p', Held(p')) = Sweep!NoSite
      /\ \A i \in 1..Held(p) : SiteOf(p', i) = SiteOf(p, i)
  BY <1>5, <1>6, CheckerOpens
<1>8. Promising(p') /\ p'.open.kind \in CheckerKinds
  BY <1>7 DEF Promising, CheckerKinds
<1>9. line.kind \notin {"header", "conflict"} /\ (tool \in Sweep!TargetScoped => ~x.whole)
  BY <1>4, <1>5, <1>a
<1> QED BY <1>3, <1>4, <1>5, <1>6, <1>7, <1>8, <1>9, CheckerBlockStep

-----------------------------------------------------------------------------
LEMMA CollectedAgain ==
    ASSUME UNCHANGED <<tool, pinned, world, p>>, NEW read, NEW published
    PROVE  Sweep!Collected(read, published)' = Sweep!Collected(read, published)
BY DEF Sweep!Collected, Sweep!InvokeStatus, Sweep!Finish, Sweep!Consistency

LEMMA SweepUnmoved ==
    ASSUME SweepInv, UNCHANGED <<tool, pinned, world, p>>
    PROVE  SweepType' /\ SummaryIsTrue' /\ RaceAccount' /\ IssueAccount' /\ WholeIsHeld'
<1>1. SweepType'
  BY DEF SweepInv, SweepType
<1>2. SummaryIsTrue'
  <2>1. Sweep!Counts' = Sweep!Counts
    BY DEF Sweep!Counts, Sweep!CountOf
  <2> QED BY <2>1 DEF SweepInv, SummaryIsTrue, Sweep!None
<1>3. RaceAccount' /\ IssueAccount'
  BY DEF SweepInv, RaceAccount, IssueAccount
<1>4. WholeIsHeld'
  BY DEF SweepInv, WholeIsHeld, Sweep!Running
<1> QED BY <1>1, <1>2, <1>3, <1>4

LEMMA CollectStep == ASSUME SweepInv, Sweep!Collect PROVE SweepInv'
<1>1. PICK read \in BOOLEAN, published \in BOOLEAN : result' = Sweep!Collected(read, published)
  BY DEF Sweep!Collect
<1>2. ~Sweep!Running /\ UNCHANGED <<tool, pinned, world, p>>
  BY DEF Sweep!Collect
<1>3. result' = Sweep!Collected(read, published)'
  BY <1>1, <1>2, CollectedAgain
<1>4. ~Sweep!Running'
  BY <1>2 DEF Sweep!Running
<1>5. ResultIsCollected'
  BY <1>3, <1>4 DEF ResultIsCollected
<1> QED BY <1>2, <1>5, SweepUnmoved DEF SweepInv

LEMMA SweepUnchanged == ASSUME SweepInv, UNCHANGED sweep PROVE SweepInv'
<1>1. UNCHANGED <<tool, pinned, world, p, result>>
  BY DEF sweep
<1>2. ResultIsCollected'
  <2> SUFFICES ASSUME result' # Sweep!None PROVE ResultIsCollected'
    BY DEF ResultIsCollected, Sweep!None
  <2>1. /\ ~Sweep!Running
        /\ \E read, published \in BOOLEAN : result = Sweep!Collected(read, published)
    BY <1>1 DEF SweepInv, ResultIsCollected
  <2>2. PICK read \in BOOLEAN, published \in BOOLEAN : result = Sweep!Collected(read, published)
    BY <2>1
  <2>3. result' = Sweep!Collected(read, published)'
    BY <1>1, <2>2, CollectedAgain
  <2>4. ~Sweep!Running'
    BY <1>1, <2>1 DEF Sweep!Running
  <2> QED BY <2>3, <2>4 DEF ResultIsCollected
<1> QED BY <1>1, <1>2, SweepUnmoved DEF SweepInv

LEMMA SweepNext == ASSUME SweepInv, Sweep!Next PROVE SweepInv'
BY RaceHeaderStep, GarbledHeaderStep, InvalidAccessStep, MessageStep, UnknownMessageStep,
   ConflictStep, GarbledConflictStep, SiteStep, NoiseStep, LimitStep, SummaryStep,
   CutSummaryStep, NotPrintedStep, EndsStep, CollectStep DEF Sweep!Next

LEMMA NewParserFacts ==
    /\ Sweep!NewParser \in Parsers /\ Held(Sweep!NewParser) = 0
    /\ Sweep!NewParser.summary = Sweep!None /\ Sweep!NewParser.open.kind = "closed"
    /\ Sweep!NewParser.diagnostics = {} /\ Sweep!NewParser.issues = <<>>
<1>1. Sweep!Closed \in OpenBlocks /\ Sweep!Closed.kind = "closed"
  BY OpenFacts
<1>2. <<>> \in Seq(IssueRecord) /\ Len(<<>>) = 0
  OBVIOUS
<1>3. /\ Sweep!NewParser.issues = <<>> /\ Sweep!NewParser.open = Sweep!Closed
      /\ Sweep!NewParser.summary = Sweep!None /\ Sweep!NewParser.diagnostics = {}
  BY DEF Sweep!NewParser
<1>4. Sweep!NewParser \in Parsers
  BY <1>1, <1>2 DEF Sweep!NewParser, Parsers
<1>5. Held(Sweep!NewParser) = 0
  BY <1>1, <1>2, <1>3 DEF Held
<1> QED BY <1>1, <1>3, <1>4, <1>5

LEMMA SweepStarts == ASSUME Sweep!Init PROVE SweepInv
<1>1. /\ p \in Parsers /\ Held(p) = 0 /\ p.summary = Sweep!None /\ p.open.kind = "closed"
      /\ p.diagnostics = {} /\ p.issues = <<>> /\ result = Sweep!None
      /\ tool \in Sweep!Tools /\ pinned \in BOOLEAN
  BY NewParserFacts DEF Sweep!Init
<1>2. world \in Worlds /\ world.blocks = <<>> /\ world.last = "start"
  BY DEF Sweep!Init, Worlds, LineKinds
<1>3. Readable(<<>>) = {} /\ Cardinality({}) = 0 /\ Len(<<>>) = 0 /\ DOMAIN <<>> = {}
  BY FS_EmptySet DEF Readable
<1>4. SweepType
  BY <1>1, <1>2 DEF SweepType
<1>5. SummaryIsTrue /\ ResultIsCollected
  BY <1>1 DEF SummaryIsTrue, ResultIsCollected
<1>6. RaceAccount
  BY <1>1, <1>2, <1>3 DEF RaceAccount
<1>7. IssueAccount
  <2>1. \A i \in 1..0 : FALSE
    OBVIOUS
  <2>2. /\ DOMAIN world.blocks = {} /\ Len(world.blocks) = 0
        /\ Cardinality(Readable(world.blocks)) = 0 /\ Held(p) = 0
    BY <1>1, <1>2, <1>3
  <2>3. Held(p) <= Len(world.blocks) /\ \A i \in 1..Held(p) : FALSE
    BY <2>1, <2>2
  <2> QED BY <2>2, <2>3 DEF IssueAccount
<1>8. WholeIsHeld
  BY <1>2, <1>3 DEF WholeIsHeld
<1> QED BY <1>4, <1>5, <1>6, <1>7, <1>8 DEF SweepInv

(* The sweep's invariant holds in every state of a worker: unless it has a *)
(* diagnostic, the parser holds what the tool printed, block for block,    *)
(* and a summary it has read counts them (compute_sanitizer/parser.py).    *)
THEOREM SweepInvariant == Spec => []SweepInvOfKind
<1>1. Init => SweepInvOfKind
  BY SweepStarts DEF Init, SweepInvOfKind
<1>2. SweepInvOfKind /\ [Next]_<<kind, sweep, trace, discovery, wvars>> => SweepInvOfKind'
  <2> SUFFICES ASSUME SweepInvOfKind, [Next]_<<kind, sweep, trace, discovery, wvars>>,
                      kind' = "compute_sanitizer"
               PROVE  SweepInv'
    BY DEF SweepInvOfKind
  <2>1. CASE RunSanitizer
    BY <2>1, SweepNext DEF RunSanitizer, SweepInvOfKind
  <2>2. CASE RunTrace \/ DiscoverWorkUnits \/ Exchange
    BY <2>2, SweepUnchanged DEF RunTrace, DiscoverWorkUnits, Exchange, SweepInvOfKind
  <2>3. CASE UNCHANGED <<kind, sweep, trace, discovery, wvars>>
    BY <2>3, SweepUnchanged DEF SweepInvOfKind
  <2> QED BY <2>1, <2>2, <2>3 DEF Next
<1> QED BY <1>1, <1>2, PTL DEF Spec

-----------------------------------------------------------------------------
(* What the result says.                                                   *)

LEMMA FinishFacts ==
    ASSUME NEW q \in Parsers, NEW f, f = Sweep!Finish(q), NEW g, g = Sweep!Flush(q)
    PROVE  /\ f.issues = g.issues /\ f.summary = q.summary /\ f.truncated = q.truncated
           /\ f.issues \in Seq(IssueRecord) /\ g \in Parsers
           /\ f.diagnostics = {} =>
                 /\ q.diagnostics = {} /\ Held(q) = Len(f.issues)
                 /\ q.summary # Sweep!None => Sweep!Consistency(g) = {}
<1> DEFINE d == (IF g.markers = 0 THEN {"missing_summary"} ELSE {})
                \cup (IF g.markers > 1 THEN {"multiple_summaries"} ELSE {})
           e == IF g.summary = Sweep!None THEN {} ELSE Sweep!Consistency(g)
<1>1. f = [g EXCEPT !.diagnostics = @ \cup d \cup e]
  BY DEF Sweep!Finish
<1>2. Follows(q, g) /\ g \in Parsers /\ g.open.kind = "closed" /\ g.truncated = q.truncated
  BY FlushFacts
<1> HIDE DEF d, e
<1>3. /\ f.issues = g.issues /\ f.summary = g.summary /\ f.truncated = g.truncated
      /\ f.diagnostics = g.diagnostics \cup d \cup e
  BY <1>1, <1>2 DEF Parsers
<1>4. g.summary = q.summary /\ q.diagnostics \subseteq g.diagnostics
      /\ (g.diagnostics = {} => Held(g) = Held(q))
  BY <1>2 DEF Follows, FollowsTo
<1>5. Held(g) = Len(g.issues) /\ g.issues \in Seq(IssueRecord)
  BY <1>2, HeldFacts
<1>6. f.diagnostics = {} => g.diagnostics = {} /\ e = {}
  BY <1>3
<1> QED BY <1>2, <1>3, <1>4, <1>5, <1>6 DEF e

(* What was read, and the result before it is projected.                   *)
LogOf(read) == IF read THEN p ELSE Sweep!NewParser
StatusOf(log) == IF log THEN Sweep!InvokeStatus ELSE Sweep!RecordArtifactFailure(Sweep!InvokeStatus)
Built(read, published) ==
    Sweep!BuildSanitizerResult(StatusOf(read /\ published), read /\ published,
                               Sweep!Finish(LogOf(read)))

LEMMA BuiltFacts ==
    ASSUME NEW r, NEW f, NEW status0, NEW log, r = Sweep!BuildSanitizerResult(status0, log, f)
    PROVE  /\ r.log = log /\ r.findings = f.issues /\ r.summary = f.summary
           /\ r.issues = f.diagnostics /\ r.truncated = f.truncated
           /\ r.complete = (f.diagnostics = {} /\ f.summary # Sweep!None)
           /\ r.outcome = Sweep!SanitizerOutcome(f, r.status, log)
           /\ f.diagnostics = {} => r.status = status0
BY DEF Sweep!BuildSanitizerResult

LEMMA OutcomeFacts ==
    ASSUME NEW r, NEW f, NEW status0, NEW log, r = Sweep!BuildSanitizerResult(status0, log, f)
    PROVE  /\ r.outcome \in {"FINDING", "CLEAN"} => r.complete /\ r.issues = {}
           /\ r.outcome = "FINDING" => Sweep!Positive(r.summary)
           /\ r.outcome = "CLEAN" =>
                 /\ r.status = "SUCCEEDED" /\ r.log /\ ~Sweep!Positive(r.summary)
           /\ r.complete => r.summary # Sweep!None /\ r.issues = {} /\ f.diagnostics = {}
           /\ r.complete \in BOOLEAN
<1>1. /\ r.log = log /\ r.summary = f.summary /\ r.issues = f.diagnostics
      /\ r.complete = (f.diagnostics = {} /\ f.summary # Sweep!None)
      /\ r.outcome = Sweep!SanitizerOutcome(f, r.status, log)
  BY BuiltFacts
<1> QED BY <1>1 DEF Sweep!SanitizerOutcome

(* A result is built from the log, and perhaps projected.                  *)
LEMMA ResultIs ==
    ASSUME SweepInv, Sweep!Done
    PROVE  \E read, published \in BOOLEAN : \E r :
              /\ r = Built(read, published) /\ result.read = read
              /\ Sweep!Result = IF pinned /\ tool \in Sweep!TargetScoped THEN Sweep!Project(r) ELSE r
<1>1. PICK read \in BOOLEAN, published \in BOOLEAN : result = Sweep!Collected(read, published)
  BY DEF SweepInv, ResultIsCollected, Sweep!Done
<1> DEFINE r == Built(read, published)
           v == IF pinned /\ tool \in Sweep!TargetScoped THEN Sweep!Project(r) ELSE r
<1>2. result = [value |-> v, read |-> read]
  BY <1>1 DEF Sweep!Collected, Built, LogOf, StatusOf
<1> HIDE DEF r, v
<1>3. result.value = v /\ result.read = read
  BY <1>2
<1> QED BY <1>3 DEF Sweep!Result, v, r

LEMMA LogFacts ==
    ASSUME SweepInv, NEW read \in BOOLEAN
    PROVE  /\ LogOf(read) \in Parsers
           /\ LogOf(read).summary # Sweep!None => LogOf(read) = p /\ read
BY NewParserFacts, ToolKinds DEF LogOf

(* The result before projection, read off the parser.                      *)
LEMMA BuiltIs ==
    ASSUME SweepInv, NEW read \in BOOLEAN, NEW published \in BOOLEAN,
           NEW r, r = Built(read, published)
    PROVE  /\ r.findings = Sweep!Flush(LogOf(read)).issues
           /\ r.findings \in Seq(IssueRecord)
           /\ r.truncated = LogOf(read).truncated /\ r.summary = LogOf(read).summary
           /\ r.complete => /\ LogOf(read) = p /\ p.diagnostics = {} /\ p.summary # Sweep!None
                            /\ Len(r.findings) = Held(p) /\ r.issues = {}
                            /\ Sweep!Consistency(Sweep!Flush(p)) = {}
           /\ r.summary # Sweep!None => LogOf(read) = p
           /\ r.outcome \in {"FINDING", "CLEAN"} => r.complete
           /\ r.outcome = "FINDING" => Sweep!Positive(r.summary)
           /\ r.outcome = "CLEAN" => r.status = "SUCCEEDED" /\ r.log /\ ~Sweep!Positive(r.summary)
           /\ r.log = (read /\ published)
           /\ r.complete => r.status = StatusOf(read /\ published)
<1> DEFINE q == LogOf(read)
           f == Sweep!Finish(q)
           g == Sweep!Flush(q)
           log == read /\ published
           status0 == StatusOf(log)
<1>1. q \in Parsers /\ (q.summary # Sweep!None => q = p)
  BY LogFacts
<1>2. r = Sweep!BuildSanitizerResult(status0, log, f)
  BY DEF Built
<1> HIDE DEF q
<1>3. /\ f.issues = g.issues /\ f.summary = q.summary /\ f.truncated = q.truncated
      /\ f.issues \in Seq(IssueRecord)
      /\ f.diagnostics = {} =>
                 /\ q.diagnostics = {} /\ Held(q) = Len(f.issues)
                 /\ q.summary # Sweep!None => Sweep!Consistency(g) = {}
  BY <1>1, FinishFacts
<1> HIDE DEF f, log, status0
<1>4. /\ r.log = log /\ r.findings = f.issues /\ r.summary = f.summary
      /\ r.issues = f.diagnostics /\ r.truncated = f.truncated
      /\ r.complete = (f.diagnostics = {} /\ f.summary # Sweep!None)
      /\ f.diagnostics = {} => r.status = status0
  BY <1>2, BuiltFacts
<1>5. /\ r.outcome \in {"FINDING", "CLEAN"} => r.complete /\ r.issues = {}
      /\ r.outcome = "FINDING" => Sweep!Positive(r.summary)
      /\ r.outcome = "CLEAN" => r.status = "SUCCEEDED" /\ r.log /\ ~Sweep!Positive(r.summary)
      /\ r.complete => r.summary # Sweep!None /\ r.issues = {} /\ f.diagnostics = {}
  BY <1>2, OutcomeFacts
<1>6. r.complete => q = p
  BY <1>1, <1>3, <1>4, <1>5
<1>7. r.complete => /\ q = p /\ p.diagnostics = {} /\ p.summary # Sweep!None
                    /\ Len(r.findings) = Held(p) /\ r.issues = {}
                    /\ Sweep!Consistency(Sweep!Flush(p)) = {}
  BY <1>3, <1>4, <1>5, <1>6
<1> QED BY <1>1, <1>3, <1>4, <1>5, <1>7 DEF q, g, log, status0

HasFields(r) == DOMAIN r = {"status", "log", "outcome", "findings", "summary", "issues",
                            "complete", "truncated"}

LEMMA BuiltHasFields == \A read, published : HasFields(Built(read, published))
BY DEF Built, Sweep!BuildSanitizerResult, HasFields

LEMMA ProjectFacts ==
    ASSUME NEW r, HasFields(r), NEW s, s = Sweep!Project(r)
    PROVE  /\ HasFields(s)
           /\ \/ s = r /\ (~Sweep!HasPositiveSignal(r) \/ Sweep!FullyAttributed(r))
              \/ /\ s.outcome = "UNKNOWN" /\ s.findings = Sweep!OwnFindings(r.findings)
                 /\ s.summary = Sweep!None /\ s.complete = FALSE
                 /\ ~Sweep!FullyAttributed(r)
<1>1. CASE ~Sweep!HasPositiveSignal(r) \/ Sweep!FullyAttributed(r)
  BY <1>1 DEF Sweep!Project
<1>2. CASE ~(~Sweep!HasPositiveSignal(r) \/ Sweep!FullyAttributed(r))
  <2> DEFINE o == Sweep!OwnFindings(r.findings)
             i == r.issues \cup {"target_scope"}
  <2>1. s = [r EXCEPT !.outcome = "UNKNOWN", !.findings = o, !.summary = Sweep!None,
                      !.complete = FALSE, !.issues = i]
    BY <1>2 DEF Sweep!Project
  <2> HIDE DEF o, i
  <2>2. /\ DOMAIN s = DOMAIN r /\ s.outcome = "UNKNOWN" /\ s.findings = o
        /\ s.summary = Sweep!None /\ s.complete = FALSE
    BY <2>1 DEF HasFields
  <2> QED BY <1>2, <2>2 DEF o, HasFields
<1> QED BY <1>1, <1>2

LEMMA PositiveIs ==
    ASSUME NEW s \in Summaries
    PROVE  ~Sweep!Positive(s) <=> s.errors = 0 /\ s.warnings = 0 /\ s.total = 0
<1>1. s.errors \in Nat /\ s.warnings \in Nat /\ s.total \in Nat
  BY DEF Summaries
<1> QED BY <1>1 DEF Sweep!Positive

LEMMA CountsMean ==
    ASSUME SweepInv, p.summary # Sweep!None
    PROVE  /\ world.summed /\ p.summary \in Summaries
           /\ p.summary.errors = Sweep!CountOf("error") + world.hidden
           /\ p.summary.warnings = Sweep!CountOf("warning")
           /\ Sweep!CountOf("error") \in Nat /\ Sweep!CountOf("warning") \in Nat
           /\ world.hidden \in Nat
           /\ world.blocks # <<>> => Sweep!CountOf("error") > 0 \/ Sweep!CountOf("warning") > 0
<1>1. world.summed /\ p.summary = Sweep!Counts /\ world \in Worlds
  BY ToolKinds DEF SweepInv, SummaryIsTrue
<1>2. p.summary \in Summaries
  BY <1>1, CountsIs
<1>3. Sweep!CountOf("error") \in Nat /\ Sweep!CountOf("warning") \in Nat /\ world.hidden \in Nat
  BY <1>1, CountIs, HiddenIsNat
<1>4. /\ p.summary.errors = Sweep!CountOf("error") + world.hidden
      /\ p.summary.warnings = Sweep!CountOf("warning")
  BY <1>1 DEF Sweep!Counts
<1>5. ASSUME world.blocks # <<>>
      PROVE  Sweep!CountOf("error") > 0 \/ Sweep!CountOf("warning") > 0
  <2>1. world.blocks \in Seq(BlockRecord)
    BY ToolKinds
  <2>2. 1 \in DOMAIN world.blocks /\ world.blocks[1] \in BlockRecord
    BY <1>5, <2>1
  <2>3. world.blocks[1].severity \in {"error", "warning"}
    BY <2>2 DEF BlockRecord, Severities
  <2>4. ASSUME NEW severity, world.blocks[1].severity = severity
        PROVE  Sweep!CountOf(severity) > 0
    <3> DEFINE S == BlocksOf(world.blocks, severity)
    <3>1. 1 \in S
      BY <2>2, <2>4 DEF BlocksOf
    <3>2. IsFiniteSet(S) /\ Sweep!CountOf(severity) = Cardinality(S) /\ Cardinality(S) \in Nat
      BY <1>1, CountIs
    <3> HIDE DEF S
    <3>3. Cardinality(S) # 0
      BY <3>1, <3>2, FS_EmptySet
    <3> QED BY <3>2, <3>3
  <2> QED BY <2>3, <2>4
<1> QED BY <1>1, <1>2, <1>3, <1>4, <1>5

LEMMA NothingPositive ==
    ASSUME SweepInv, p.summary # Sweep!None, ~Sweep!Positive(p.summary)
    PROVE  world.blocks = <<>> /\ world.hidden = 0 /\ world.summed
<1>1. p.summary.errors = 0 /\ p.summary.warnings = 0
  BY CountsMean, PositiveIs
<1>2. Sweep!CountOf("error") + world.hidden = 0 /\ Sweep!CountOf("warning") = 0
  BY <1>1, CountsMean
<1>3. Sweep!CountOf("error") = 0 /\ world.hidden = 0
  BY <1>2, CountsMean
<1>4. ~(Sweep!CountOf("error") > 0) /\ ~(Sweep!CountOf("warning") > 0)
  BY <1>2, <1>3
<1>5. world.summed /\ (world.blocks # <<>> =>
                          Sweep!CountOf("error") > 0 \/ Sweep!CountOf("warning") > 0)
  BY CountsMean
<1> QED BY <1>3, <1>4, <1>5, Zenon

(* A result that is trusted as clean: the tool ended well, said that it    *)
(* found nothing, and found nothing (has_trustworthy_clean), wherever it   *)
(* was stopped and whatever of its log was lost.                           *)
LEMMA CleanSweeps == ASSUME SweepInv PROVE Sweep!CleanIsEarned
<1> SUFFICES ASSUME Sweep!Done, Sweep!HasTrustworthyClean(Sweep!Result)
             PROVE  /\ world.state = "exit 0" /\ world.summed /\ Sweep!Result.log
                    /\ world.blocks = <<>> /\ world.hidden = 0
  BY DEF Sweep!CleanIsEarned
<1>0. PICK read \in BOOLEAN, published \in BOOLEAN : \E r :
              /\ r = Built(read, published) /\ result.read = read
              /\ Sweep!Result = IF pinned /\ tool \in Sweep!TargetScoped THEN Sweep!Project(r) ELSE r
  BY ResultIs
<1>1. PICK r : /\ r = Built(read, published) /\ result.read = read
               /\ Sweep!Result = IF pinned /\ tool \in Sweep!TargetScoped THEN Sweep!Project(r) ELSE r
  BY <1>0
<1>2. Sweep!Result = r
  <2>1. Sweep!Result.outcome = "CLEAN"
    BY DEF Sweep!HasTrustworthyClean
  <2>2. HasFields(r)
    BY <1>1, BuiltHasFields
  <2>3. Sweep!Project(r) = r \/ Sweep!Project(r).outcome = "UNKNOWN"
    BY <2>2, ProjectFacts
  <2> QED BY <1>1, <2>1, <2>3
<1>3. r.status = "SUCCEEDED" /\ r.complete /\ ~Sweep!Positive(r.summary) /\ r.outcome = "CLEAN"
  BY <1>2 DEF Sweep!HasTrustworthyClean
<1>4. /\ LogOf(read) = p /\ p.summary # Sweep!None /\ r.summary = p.summary /\ r.log
      /\ r.status = StatusOf(read /\ published) /\ r.log = (read /\ published)
  BY <1>1, <1>3, BuiltIs
<1>5. world.blocks = <<>> /\ world.hidden = 0 /\ world.summed
  BY <1>3, <1>4, NothingPositive
<1>6. Sweep!InvokeStatus = "SUCCEEDED"
  BY <1>3, <1>4 DEF StatusOf
<1>7. world.state \in {"running", "exit 0", "exit 1", "killed", "never ran"}
  BY ToolKinds DEF Worlds
<1>8. world.state = "exit 0"
  BY <1>6, <1>7 DEF Sweep!InvokeStatus
<1> QED BY <1>2, <1>4, <1>5, <1>8

(* No sweep is trusted as clean unless it was (has_trustworthy_clean).     *)
THEOREM CleanSweepsAreEarned == Spec => []CleanIsEarned
<1>1. SweepInvOfKind => CleanIsEarned
  BY CleanSweeps DEF SweepInvOfKind, CleanIsEarned
<1> QED BY <1>1, SweepInvariant, PTL

(* Every result, and its projection, is one the session accepts.           *)
LEMMA ProjectAccepted ==
    ASSUME NEW r, HasFields(r), Sweep!Accepts(r)
    PROVE  Sweep!Accepts(Sweep!Project(r)) /\ HasFields(Sweep!Project(r))
<1> DEFINE s == Sweep!Project(r)
<1>1. HasFields(s) /\ (s = r \/ (s.outcome = "UNKNOWN" /\ s.complete = FALSE))
  BY ProjectFacts
<1> HIDE DEF s
<1>2. Sweep!Accepts(s)
  <2>1. CASE s = r
    BY <2>1
  <2>2. CASE s.outcome = "UNKNOWN" /\ s.complete = FALSE
    BY <2>2 DEF Sweep!Accepts
  <2> QED BY <1>1, <2>1, <2>2
<1> QED BY <1>1, <1>2 DEF s

LEMMA ConsistencyMeans ==
    ASSUME NEW g, Sweep!Consistency(g) = {}
    PROVE  /\ ~Sweep!Positive(g.summary) => g.issues = <<>>
           /\ Sweep!Positive(g.summary) =>
                 g.issues # <<>> \/ (tool # "racecheck" /\ g.truncated)
BY DEF Sweep!Consistency

LEMMA FlushedFacts ==
    ASSUME SweepInv, NEW g, g = Sweep!Flush(p)
    PROVE  g.summary = p.summary /\ g.truncated = p.truncated /\ g.issues \in Seq(IssueRecord)
<1>1. p \in Parsers
  BY ToolKinds
<1>2. Follows(p, g) /\ g.truncated = p.truncated /\ g \in Parsers
  BY <1>1, FlushFacts
<1> QED BY <1>2, HeldFacts DEF Follows, FollowsTo

LEMMA SweepAccepted == ASSUME SweepInv PROVE Sweep!SessionAccepts
<1> SUFFICES ASSUME Sweep!Done
             PROVE  Sweep!Accepts(Sweep!Result) /\ Sweep!Accepts(Sweep!ForKernel)
  BY DEF Sweep!SessionAccepts
<1>0. PICK read \in BOOLEAN, published \in BOOLEAN : \E r :
              /\ r = Built(read, published) /\ result.read = read
              /\ Sweep!Result = IF pinned /\ tool \in Sweep!TargetScoped THEN Sweep!Project(r) ELSE r
  BY ResultIs
<1>1. PICK r : /\ r = Built(read, published) /\ result.read = read
               /\ Sweep!Result = IF pinned /\ tool \in Sweep!TargetScoped THEN Sweep!Project(r) ELSE r
  BY <1>0
<1>2. HasFields(r)
  BY <1>1, BuiltHasFields
<1>3. /\ r.findings = Sweep!Flush(LogOf(read)).issues
      /\ r.complete => /\ LogOf(read) = p /\ p.diagnostics = {} /\ p.summary # Sweep!None
                       /\ r.issues = {} /\ Sweep!Consistency(Sweep!Flush(p)) = {}
      /\ r.summary = LogOf(read).summary
      /\ r.outcome \in {"FINDING", "CLEAN"} => r.complete
      /\ r.outcome = "FINDING" => Sweep!Positive(r.summary)
      /\ r.outcome = "CLEAN" => r.status = "SUCCEEDED" /\ ~Sweep!Positive(r.summary)
  BY <1>1, BuiltIs
<1>4. r.outcome = "CLEAN" => Sweep!HasTrustworthyClean(r)
  <2> SUFFICES ASSUME r.outcome = "CLEAN" PROVE Sweep!HasTrustworthyClean(r)
    OBVIOUS
  <2>1. /\ LogOf(read) = p /\ p.summary # Sweep!None /\ r.issues = {} /\ r.complete
        /\ Sweep!Consistency(Sweep!Flush(p)) = {} /\ r.status = "SUCCEEDED"
        /\ ~Sweep!Positive(p.summary) /\ r.summary = p.summary
        /\ r.findings = Sweep!Flush(p).issues
    BY <1>3
  <2>2. r.findings = <<>>
    BY <2>1, FlushedFacts, ConsistencyMeans
  <2> QED BY <2>1, <2>2 DEF Sweep!HasTrustworthyClean
<1>5. Sweep!Accepts(r)
  BY <1>3, <1>4 DEF Sweep!Accepts
<1>6. Sweep!Accepts(Sweep!Result) /\ HasFields(Sweep!Result)
  BY <1>1, <1>2, <1>5, ProjectAccepted
<1>7. Sweep!Accepts(Sweep!ForKernel)
  BY <1>6, ProjectAccepted DEF Sweep!ForKernel
<1> QED BY <1>6, <1>7

(* A complete result that was not truncated has every readable block.      *)
LEMMA NothingIsLost == ASSUME SweepInv PROVE Sweep!NothingLostSilently
<1> SUFFICES ASSUME Sweep!Done, Sweep!Result.complete, ~Sweep!Result.truncated
             PROVE  /\ world.blocks # <<>> => Sweep!Result.findings # <<>>
                    /\ Len(Sweep!Result.findings) = Cardinality(Readable(world.blocks))
  <2>1. Readable(world.blocks) = {i \in DOMAIN world.blocks :
                            world.blocks[i].kind # "unknown" /\ ~Sweep!Swallowed(i)}
    BY DEF Readable, SwallowedIn, Sweep!Swallowed
  <2> QED BY <2>1, SweepCardinality DEF Sweep!NothingLostSilently
<1>0. PICK read \in BOOLEAN, published \in BOOLEAN : \E r :
              /\ r = Built(read, published) /\ result.read = read
              /\ Sweep!Result = IF pinned /\ tool \in Sweep!TargetScoped THEN Sweep!Project(r) ELSE r
  BY ResultIs
<1>1. PICK r : /\ r = Built(read, published) /\ result.read = read
               /\ Sweep!Result = IF pinned /\ tool \in Sweep!TargetScoped THEN Sweep!Project(r) ELSE r
  BY <1>0
<1>2. Sweep!Result = r
  <2>1. HasFields(r)
    BY <1>1, BuiltHasFields
  <2>2. Sweep!Project(r) = r \/ Sweep!Project(r).complete = FALSE
    BY <2>1, ProjectFacts
  <2> QED BY <1>1, <2>2
<1>3. /\ LogOf(read) = p /\ p.diagnostics = {} /\ p.summary # Sweep!None
      /\ Len(r.findings) = Held(p) /\ Sweep!Consistency(Sweep!Flush(p)) = {}
      /\ r.findings = Sweep!Flush(p).issues /\ ~p.truncated
  <2>1. r.complete /\ ~r.truncated
    BY <1>2
  <2> QED BY <1>1, <2>1, BuiltIs
<1>4. Held(p) = Cardinality(Readable(world.blocks))
  BY <1>3 DEF SweepInv, RaceAccount, IssueAccount
<1>5. world.blocks # <<>> => Sweep!Positive(p.summary)
  BY <1>3, CountsMean, PositiveIs, NothingPositive
<1>6. Sweep!Positive(p.summary) => r.findings # <<>>
  BY <1>3, FlushedFacts, ConsistencyMeans
<1> QED BY <1>2, <1>3, <1>4, <1>5, <1>6

LEMMA DomainIs == \A s \in Seq(IssueRecord) : DOMAIN s = 1..Len(s) /\ Len(s) \in Nat
OBVIOUS

LEMMA NoneHidden == \A n, h, m \in Nat : n + h = m /\ m <= n => h = 0 /\ m = n
OBVIOUS

LEMMA LeastOf ==
    ASSUME NEW S, S \subseteq Nat, S # {}
    PROVE  \E x \in S : \A y \in S : ~(y < x)
<1>1. PICK x \in S : \A y \in S : ~(<<y, x>> \in OpToRel(<, Nat))
  BY NatLessThanWellFounded, WFMin
<1>2. \A y \in S : y < x => <<y, x>> \in OpToRel(<, Nat)
  BY DEF OpToRel
<1> QED BY <1>1, <1>2

(* The kernel's findings are its own, and there is one if there was one.   *)
LEMMA OwnFindingsFacts ==
    ASSUME NEW s, NEW m \in Nat, DOMAIN s = 1..m, Sweep!OwnAt(s) # {}
    PROVE  /\ Sweep!OwnFindings(s) # <<>> /\ Sweep!OwnAt(Sweep!OwnFindings(s)) # {}
           /\ \E n \in Nat : DOMAIN Sweep!OwnFindings(s) = 1..n
<1> DEFINE S == Sweep!OwnAt(s)
           n == Sweep!Cardinality(S)
           At(i) == Sweep!Cardinality({j \in S : j < i})
           o == Sweep!OwnFindings(s)
<1>1. S \subseteq 1..m /\ \A i \in S : Sweep!IsOwn(s[i])
  BY DEF Sweep!OwnAt
<1>2. IsFiniteSet(S) /\ S \subseteq Nat
  <2>1. IsFiniteSet(1..m) /\ 1..m \subseteq Nat
    BY <1>1, FS_Interval
  <2> QED BY <1>1, <2>1, FS_Subset
<1>3. o = [k \in 1..n |-> s[CHOOSE i \in S : At(i) = k - 1]]
  BY DEF Sweep!OwnFindings
<1>a. S # {}
  OBVIOUS
<1> HIDE DEF S, o
<1>4. n \in Nat /\ n # 0
  BY <1>2, <1>a, SweepCardinality, FS_EmptySet, FS_CardinalityType
<1>5. 1 \in 1..n
  <2> HIDE DEF n
  <2> QED BY <1>4
<1>6. PICK x \in S : \A y \in S : ~(y < x)
  BY <1>2, <1>a, LeastOf
<1>7. At(x) = 0
  <2>1. {j \in S : j < x} = {}
    BY <1>6
  <2> QED BY <2>1, SweepCardinality, FS_EmptySet
<1> HIDE DEF n, At
<1>8. 1 - 1 = 0
  OBVIOUS
<1> DEFINE c == CHOOSE i \in S : At(i) = 1 - 1
<1>9. c \in S
  <2>1. At(x) = 1 - 1
    BY <1>7, <1>8
  <2>2. \E i \in S : At(i) = 1 - 1
    BY <1>6, <2>1
  <2> QED BY <2>2
<1>10. o[1] = s[c] /\ DOMAIN o = 1..n
  BY <1>3, <1>5
<1> HIDE DEF c
<1>11. Sweep!IsOwn(o[1]) /\ 1 \in DOMAIN o
  BY <1>1, <1>5, <1>9, <1>10
<1>12. o # <<>>
  <2>1. DOMAIN <<>> = {}
    OBVIOUS
  <2> QED BY <1>11, <2>1
<1>13. Sweep!OwnAt(o) # {}
  BY <1>11 DEF Sweep!OwnAt
<1> QED BY <1>4, <1>10, <1>12, <1>13 DEF o

LEMMA ProjectKeepsOwn ==
    ASSUME NEW r, HasFields(r), NEW m \in Nat, DOMAIN r.findings = 1..m,
           Sweep!OwnAt(r.findings) # {}, NEW s, s = Sweep!Project(r)
    PROVE  /\ HasFields(s) /\ s.findings # <<>> /\ Sweep!OwnAt(s.findings) # {}
           /\ \E n \in Nat : DOMAIN s.findings = 1..n
<1>1. HasFields(s) /\ (s = r \/ s.findings = Sweep!OwnFindings(r.findings))
  BY ProjectFacts
<1>2. CASE s = r
  <2>1. DOMAIN r.findings # {}
    BY DEF Sweep!OwnAt
  <2>2. DOMAIN <<>> = {}
    OBVIOUS
  <2>3. r.findings # <<>>
    BY <2>1, <2>2
  <2> QED BY <1>1, <1>2, <2>3
<1>3. CASE s.findings = Sweep!OwnFindings(r.findings)
  BY <1>1, <1>3, OwnFindingsFacts
<1> QED BY <1>1, <1>2, <1>3

(* A block that was printed whole stays a usable signal of its kernel.     *)
LEMMA FindingsSurvive == ASSUME SweepInv PROVE Sweep!FindingSurvives
<1> SUFFICES ASSUME Sweep!Done, result.read, NEW i \in DOMAIN world.blocks,
                    world.blocks[i].whole, world.blocks[i].site = "own kernel"
             PROVE  Sweep!ForKernel.findings # <<>>
  BY DEF Sweep!FindingSurvives, Sweep!HasUsablePositiveSignal
<1>0. PICK read \in BOOLEAN, published \in BOOLEAN : \E r :
              /\ r = Built(read, published) /\ result.read = read
              /\ Sweep!Result = IF pinned /\ tool \in Sweep!TargetScoped THEN Sweep!Project(r) ELSE r
  BY ResultIs
<1>1. PICK r : /\ r = Built(read, published) /\ result.read = read
               /\ Sweep!Result = IF pinned /\ tool \in Sweep!TargetScoped THEN Sweep!Project(r) ELSE r
  BY <1>0
<1> DEFINE g == Sweep!Flush(p)
<1>2. p \in Parsers /\ LogOf(read) = p
  BY <1>1, ToolKinds DEF LogOf
<1>3. HasFields(r) /\ r.findings = g.issues /\ r.findings \in Seq(IssueRecord)
  BY <1>1, <1>2, BuiltIs, BuiltHasFields
<1>4. Promising(p)
  BY DEF SweepInv, WholeIsHeld
<1>5. g.issues # <<>>
  BY <1>2, <1>4, FlushFacts
<1>6. CASE tool \notin Sweep!TargetScoped
  BY <1>1, <1>3, <1>5, <1>6 DEF Sweep!ForKernel
<1>7. CASE tool \in Sweep!TargetScoped
  <2>1. PICK k \in 1..Held(p) : SiteOf(p, k) = "own kernel"
    BY <1>7 DEF SweepInv, WholeIsHeld
  <2>2. p.open.kind \in CheckerKinds
    BY <1>7, ToolKinds
  <2>3. g.issues[k].site = "own kernel" /\ Held(p) = Len(g.issues)
    BY <1>2, <2>1, <2>2, FlushKeeps DEF Keeps
  <2> HIDE DEF g
  <2>6. DOMAIN r.findings = 1..Len(r.findings) /\ Len(r.findings) \in Nat
    BY <1>3, DomainIs, Zenon
  <2>4. k \in DOMAIN r.findings /\ Sweep!IsOwn(r.findings[k])
    BY <1>3, <2>1, <2>3, <2>6, Zenon DEF Sweep!IsOwn
  <2>5. Sweep!OwnAt(r.findings) # {}
    BY <2>4 DEF Sweep!OwnAt
  <2>7. /\ HasFields(Sweep!Result) /\ Sweep!OwnAt(Sweep!Result.findings) # {}
        /\ \E n \in Nat : DOMAIN Sweep!Result.findings = 1..n
    BY <1>1, <1>3, <2>5, <2>6, ProjectKeepsOwn
  <2>8. Sweep!Project(Sweep!Result).findings # <<>>
    BY <2>7, ProjectKeepsOwn
  <2> QED BY <1>7, <2>8 DEF Sweep!ForKernel
<1> QED BY <1>6, <1>7

(* What is charged to a kernel is its own.                                 *)
LEMMA ChargedToOne == ASSUME SweepInv PROVE Sweep!ChargedToItsKernel
<1> SUFFICES ASSUME Sweep!Done, tool \in Sweep!TargetScoped, Sweep!ForKernel.outcome = "FINDING"
             PROVE  /\ world.hidden = 0
                    /\ \A i \in DOMAIN world.blocks : world.blocks[i].site = "own kernel"
  BY DEF Sweep!ChargedToItsKernel
<1>0. PICK read \in BOOLEAN, published \in BOOLEAN : \E r :
              /\ r = Built(read, published) /\ result.read = read
              /\ Sweep!Result = IF pinned /\ tool \in Sweep!TargetScoped THEN Sweep!Project(r) ELSE r
  BY ResultIs
<1>1. PICK r : /\ r = Built(read, published) /\ result.read = read
               /\ Sweep!Result = IF pinned /\ tool \in Sweep!TargetScoped THEN Sweep!Project(r) ELSE r
  BY <1>0
<1>2. HasFields(r)
  BY <1>1, BuiltHasFields
<1>3. ASSUME NEW s, HasFields(s), Sweep!Project(s).outcome = "FINDING"
      PROVE  Sweep!Project(s) = s /\ s.outcome = "FINDING" /\ Sweep!FullyAttributed(s)
  <2>1. \/ Sweep!Project(s) = s /\ (~Sweep!HasPositiveSignal(s) \/ Sweep!FullyAttributed(s))
        \/ Sweep!Project(s).outcome = "UNKNOWN"
    BY <1>3, ProjectFacts
  <2>2. Sweep!Project(s) = s /\ s.outcome = "FINDING"
    BY <1>3, <2>1
  <2>3. Sweep!HasPositiveSignal(s)
    BY <2>2 DEF Sweep!HasPositiveSignal
  <2> QED BY <2>1, <2>2, <2>3
<1>4. HasFields(Sweep!Result)
  BY <1>1, <1>2, ProjectFacts
<1>5. Sweep!Result.outcome = "FINDING" /\ Sweep!FullyAttributed(Sweep!Result)
  BY <1>3, <1>4 DEF Sweep!ForKernel
<1>6. Sweep!Result = r
  BY <1>1, <1>2, <1>3, <1>5
<1> DEFINE g == Sweep!Flush(p)
<1>7. /\ r.findings = g.issues /\ p.summary # Sweep!None /\ r.summary = p.summary
      /\ Len(r.findings) = Held(p) /\ r.findings \in Seq(IssueRecord)
  BY <1>1, <1>5, <1>6, BuiltIs
<1>8. /\ p \in Parsers /\ p.open.kind \in CheckerKinds /\ tool # "racecheck"
      /\ world \in Worlds /\ world.blocks \in Seq(BlockRecord)
  BY ToolKinds
<1>9. /\ \A i \in DOMAIN world.blocks : world.blocks[i].severity = "error"
      /\ Held(p) <= Len(world.blocks)
      /\ Held(p) = Len(world.blocks) =>
            \A i \in 1..Held(p) : SiteOf(p, i) \in {Sweep!NoSite, world.blocks[i].site}
  BY <1>8 DEF SweepInv, IssueAccount
<1>10. Sweep!CountOf("error") = Len(world.blocks) /\ Len(world.blocks) \in Nat
       /\ DOMAIN world.blocks = 1..Len(world.blocks)
  <2>1. DOMAIN world.blocks = 1..Len(world.blocks) /\ Len(world.blocks) \in Nat
    BY <1>8
  <2>2. BlocksOf(world.blocks, "error") = 1..Len(world.blocks)
    BY <1>9, <2>1 DEF BlocksOf
  <2>3. Cardinality(1..Len(world.blocks)) = Len(world.blocks)
    BY <2>1, FS_Interval
  <2> QED BY <1>8, <2>1, <2>2, <2>3, CountIs
<1>11. /\ Sweep!CountOf("error") + world.hidden = Held(p) /\ world.hidden \in Nat
       /\ \A i \in DOMAIN r.findings : r.findings[i].site = "own kernel"
  <2>1. p.summary.errors = Len(r.findings)
    BY <1>5, <1>6, <1>7 DEF Sweep!FullyAttributed
  <2>2. \A i \in DOMAIN r.findings : r.findings[i].site = "own kernel"
    BY <1>5, <1>6 DEF Sweep!FullyAttributed, Sweep!IsOwn
  <2>3. p.summary.errors = Sweep!CountOf("error") + world.hidden /\ world.hidden \in Nat
    BY <1>7, CountsMean
  <2> QED BY <1>7, <2>1, <2>2, <2>3
<1>12. Held(p) \in Nat
  BY <1>8, HeldFacts
<1>13. world.hidden = 0 /\ Held(p) = Len(world.blocks)
  <2>1. Len(world.blocks) + world.hidden = Held(p)
    BY <1>10, <1>11, Zenon
  <2> QED BY <1>9, <1>10, <1>11, <1>12, <2>1, NoneHidden, Zenon
<1>14. \A i \in 1..Held(p) : g.issues[i].site = SiteOf(p, i)
  BY <1>8, FlushKeeps
<1> HIDE DEF g
<1>15. DOMAIN r.findings = 1..Held(p)
  BY <1>7
<1>16. ASSUME NEW i \in DOMAIN world.blocks PROVE world.blocks[i].site = "own kernel"
  <2>1. i \in 1..Held(p)
    BY <1>10, <1>13
  <2>2. SiteOf(p, i) = "own kernel"
    BY <1>7, <1>11, <1>14, <1>15, <2>1
  <2>3. SiteOf(p, i) \in {Sweep!NoSite, world.blocks[i].site}
    BY <1>9, <1>13, <2>1
  <2> QED BY <2>2, <2>3 DEF Sweep!NoSite
<1> QED BY <1>13, <1>16

(* What the tool printed reaches the kernel it is about and no other: for  *)
(* every log, display limit and cut (compute_sanitizer/parser.py,          *)
(* project_target_scoped_sanitizer_result).                                *)
THEOREM FindingsReachOneKernel == Spec => []FindingsReachTheirKernel
<1>1. SweepInvOfKind => FindingsReachTheirKernel
  BY NothingIsLost, FindingsSurvive, ChargedToOne DEF SweepInvOfKind, FindingsReachTheirKernel
<1> QED BY <1>1, SweepInvariant, PTL

-----------------------------------------------------------------------------
(* The discovery experiment.  However far the reading is, the kernels      *)
(* found are those of the launches read, each with the one mangled name    *)
(* they carried; the selection keeps the wanted ones; while it is          *)
(* published the files already there are the files that were read.         *)

(* The launches in the first got[f] lines of every file f.                 *)
ReadSoFar(files, got) ==
    {l \in Discovery!Launches :
        \E f \in DOMAIN files : \E i \in 1..got[f] : files[f][i] = l}

Agrees(found, R) ==
    /\ IsFiniteSet(DOMAIN found)
    /\ \A l \in R : /\ l.kernel \in DOMAIN found
                    /\ l.mangled \in {Discovery!NoName, found[l.kernel]}
    /\ \A k \in DOMAIN found : \E l \in R : l.kernel = k /\ l.mangled = found[k]

Asked(k, m) == wanted = {} \/ {k, m} \cap wanted # {}

(* What _selected_kernels leaves of the launches R.                        *)
Selection(found, R) ==
    /\ DOMAIN found # {} /\ Cardinality(DOMAIN found) <= MaxKernels
    /\ \A l \in R : \A m \in R :
           l.kernel = m.kernel =>
               l.mangled = Discovery!NoName \/ m.mangled = Discovery!NoName \/ l.mangled = m.mangled
    /\ \A l \in R : Asked(l.kernel, l.mangled) => l.kernel \in DOMAIN found
    /\ \A k \in DOMAIN found :
           /\ Asked(k, found[k])
           /\ \E l \in R : l.kernel = k /\ l.mangled = found[k]
           /\ \A l \in R : l.kernel = k => l.mangled \in {Discovery!NoName, found[k]}

EventsType == \A f \in DOMAIN events : events[f] \in Seq(Discovery!Lines)

Reading(q) ==
    /\ q.at = "read"
    /\ q = [at |-> "read", code |-> q.code, kernels |-> q.kernels, got |-> q.got]
    /\ DOMAIN events # {}
    /\ q.got \in [DOMAIN events -> Nat]
    /\ \A f \in DOMAIN events : q.got[f] <= Len(events[f])
    /\ Agrees(q.kernels, ReadSoFar(events, q.got))

Publishing(q) ==
    /\ q.at = "publish"
    /\ q = [at |-> "publish", code |-> q.code, kernels |-> q.kernels, todo |-> q.todo]
    /\ DOMAIN events # {}
    /\ Selection(q.kernels, Discovery!Told(events))
    /\ \A f \in DOMAIN events \ q.todo : f \in DOMAIN outdir /\ outdir[f] = events[f]

GoodManifest(d) ==
    /\ DOMAIN d.files # {}
    /\ d.filters = wanted
    /\ Selection(d.kernels, Discovery!Told(d.files))
    /\ \A f \in DOMAIN d.files : f \in DOMAIN outdir /\ outdir[f] = d.files[f]

DiscoveryInv ==
    /\ wanted \subseteq Kernels \cup Mangled
    /\ EventsType
    /\ \/ pass = Discovery!Nothing
       \/ pass = [at |-> "target"]
       \/ Reading(pass)
       \/ Publishing(pass)
    /\ discovered # Discovery!Untold => pass = Discovery!Nothing
    /\ discovered.is = "discovered" => GoodManifest(discovered)

DiscoveryInvOfKind == kind = "kernel_discovery" => DiscoveryInv

-----------------------------------------------------------------------------
LEMMA DiscoveryCardinality == \A S : Discovery!Cardinality(S) = Cardinality(S)
BY Zenon DEF Discovery!Cardinality, Cardinality

LEMMA LaunchFields ==
    ASSUME NEW l \in Discovery!Launches
    PROVE  /\ l.kernel \in Kernels /\ l.mangled \in Mangled \cup {Discovery!NoName}
           /\ l.type = "kernel_launch"
BY DEF Discovery!Launches

LEMMA LineTypes ==
    ASSUME NEW line \in Discovery!Lines
    PROVE  /\ line \in Discovery!Launches => line.type = "kernel_launch"
           /\ line \notin Discovery!Launches =>
                  line.type = "other" \/ line.type = "malformed"
BY DEF Discovery!Lines, Discovery!Launches, Discovery!Other, Discovery!Malformed

(* A merged line leaves the kernels in agreement with one more launch.     *)
LEMMA MergeAgrees ==
    ASSUME NEW found, NEW R, NEW line \in Discovery!Lines, Agrees(found, R),
           Discovery!Merge(found, line).error = "none"
    PROVE  Agrees(Discovery!Merge(found, line).kernels, R \cup ({line} \cap Discovery!Launches))
<1> DEFINE merged == Discovery!Merge(found, line).kernels
           R2 == R \cup ({line} \cap Discovery!Launches)
<1>1. CASE line \notin Discovery!Launches
  <2>1. line.type = "other"
    BY <1>1, LineTypes DEF Discovery!Merge, Discovery!Stopped
  <2>2. merged = found
    BY <2>1 DEF Discovery!Merge, Discovery!Found
  <2>3. R2 = R
    BY <1>1
  <2> QED BY <2>2, <2>3, Zenon
<1>2. CASE line \in Discovery!Launches
  <2> DEFINE k == line.kernel
             name == Discovery!NameOf(found, k)
  <2>0. line.type = "kernel_launch"
    BY <1>2, LineTypes
  <2>1. R2 = R \cup {line}
    BY <1>2
  <2>2. CASE name = Discovery!NoName
    <3>1. merged = Discovery!With(found, k, line.mangled)
      BY <2>0, <2>2 DEF Discovery!Merge, Discovery!Found
    <3> HIDE DEF merged
    <3>2. /\ DOMAIN merged = DOMAIN found \cup {k} /\ merged[k] = line.mangled
          /\ \A j \in DOMAIN found : j # k => merged[j] = found[j]
      BY <3>1 DEF Discovery!With
    <3>3. IsFiniteSet(DOMAIN merged)
      BY <3>2, FS_AddElement DEF Agrees
    <3>4. k \in DOMAIN found => found[k] = Discovery!NoName
      BY <2>2 DEF Discovery!NameOf
    <3> HIDE DEF k, R2
    <3>5. \A l \in R2 : l.kernel \in DOMAIN merged
                        /\ l.mangled \in {Discovery!NoName, merged[l.kernel]}
      BY <3>2, <3>4, <2>1 DEF Agrees, k
    <3>6. \A j \in DOMAIN merged : \E l \in R2 : l.kernel = j /\ l.mangled = merged[j]
      BY <3>2, <3>4, <2>1 DEF Agrees, k
    <3>7. Agrees(merged, R2)
      BY <3>3, <3>5, <3>6, Zenon DEF Agrees
    <3> QED BY <3>7 DEF merged, R2
  <2>3. CASE name # Discovery!NoName
    <3>1. line.mangled \in {Discovery!NoName, name} /\ merged = found
      BY <2>0, <2>3 DEF Discovery!Merge, Discovery!Found, Discovery!Stopped
    <3>2. k \in DOMAIN found /\ name = found[k]
      BY <2>3 DEF Discovery!NameOf
    <3> HIDE DEF merged, R2, name
    <3>3. Agrees(merged, R2)
      BY <3>1, <3>2, <2>1 DEF Agrees
    <3> QED BY <3>3 DEF merged, R2
  <2> QED BY <2>2, <2>3
<1> QED BY <1>1, <1>2

LEMMA AskedIs == \A k, m : Discovery!MatchesFilters(k, m) <=> Asked(k, m)
BY DEF Discovery!MatchesFilters, Asked

LEMMA SelectionFacts ==
    ASSUME wanted \subseteq Kernels \cup Mangled, NEW found, NEW R, Agrees(found, R),
           Discovery!SelectedKernels(found).error = "none"
    PROVE  Selection(Discovery!SelectedKernels(found).kernels, R)
<1> DEFINE chosen == {k \in DOMAIN found : Asked(k, found[k])}
           kept == Discovery!SelectedKernels(found).kernels
<1>0. {k \in DOMAIN found : Discovery!MatchesFilters(k, found[k])} = chosen
  BY AskedIs
<1>1. /\ chosen # {} /\ ~(Discovery!Cardinality(chosen) > MaxKernels)
      /\ kept = [k \in chosen |-> found[k]]
  BY <1>0 DEF Discovery!SelectedKernels, Discovery!Found, Discovery!Stopped
<1>2. IsFiniteSet(chosen)
  BY FS_Subset DEF Agrees
<1>3. Cardinality(chosen) <= MaxKernels
  BY <1>1, <1>2, FS_CardinalityType, DiscoveryCardinality, LimitAssumption
<1>4. DOMAIN kept = chosen /\ \A k \in chosen : kept[k] = found[k]
  BY <1>1
<1> HIDE DEF kept
<1>5. \A l \in R : \A m \in R :
         l.kernel = m.kernel =>
            l.mangled = Discovery!NoName \/ m.mangled = Discovery!NoName \/ l.mangled = m.mangled
  BY DEF Agrees
<1>6. \A l \in R : Asked(l.kernel, l.mangled) => l.kernel \in DOMAIN kept
  BY <1>4, NameAssumption DEF Agrees, Asked
<1>7. \A k \in DOMAIN kept :
         /\ Asked(k, kept[k])
         /\ \E l \in R : l.kernel = k /\ l.mangled = kept[k]
         /\ \A l \in R : l.kernel = k => l.mangled \in {Discovery!NoName, kept[k]}
  BY <1>4 DEF Agrees
<1>8. Selection(kept, R)
  BY <1>1, <1>3, <1>4, <1>5, <1>6, <1>7, Zenon DEF Selection
<1> QED BY <1>8 DEF kept

LEMMA AllIsRead ==
    ASSUME EventsType, NEW got \in [DOMAIN events -> Nat],
           \A f \in DOMAIN events : got[f] = Len(events[f])
    PROVE  ReadSoFar(events, got) = Discovery!Told(events)
<1>1. \A f \in DOMAIN events : DOMAIN events[f] = 1..got[f]
  BY DEF EventsType
<1> QED BY <1>1, Zenon DEF ReadSoFar, Discovery!Told

-----------------------------------------------------------------------------
LEMMA DiscoveryStarts == ASSUME Discovery!DiscoveryInit PROVE DiscoveryInv
<1>1. wanted \subseteq Kernels \cup Mangled
  BY DEF Discovery!DiscoveryInit
<1>2. EventsType
  BY DEF Discovery!DiscoveryInit, EventsType
<1>3. pass = Discovery!Nothing /\ discovered.is # "discovered"
  BY DEF Discovery!DiscoveryInit, Discovery!Untold
<1> QED BY <1>1, <1>2, <1>3 DEF DiscoveryInv

LEMMA ManifestKept ==
    ASSUME NEW d, GoodManifest(d), UNCHANGED <<wanted, outdir>>
    PROVE  GoodManifest(d)'
BY DEF GoodManifest, Selection, Asked, Discovery!Told

LEMMA DiscoveryUnchanged == ASSUME DiscoveryInv, UNCHANGED discovery PROVE DiscoveryInv'
<1> USE DEF discovery
<1>1. EventsType' /\ wanted' \subseteq Kernels \cup Mangled
  BY DEF DiscoveryInv, EventsType
<1>2. Reading(pass) => Reading(pass)'
  BY DEF Reading, Agrees, ReadSoFar
<1>3. Publishing(pass) => Publishing(pass)'
  BY DEF Publishing, Selection, Asked, Discovery!Told
<1>4. GoodManifest(discovered) => GoodManifest(discovered)'
  BY DEF GoodManifest, Selection, Asked, Discovery!Told
<1> QED BY <1>1, <1>2, <1>3, <1>4 DEF DiscoveryInv

(* The end of an attempt, with an error or with a result that is good.     *)
LEMMA ConcludeStep ==
    ASSUME DiscoveryInv, NEW answer, Discovery!Conclude(answer),
           answer.is = "discovered" => GoodManifest(answer),
           UNCHANGED <<wanted, outdir>>
    PROVE  DiscoveryInv'
<1>1. wanted' \subseteq Kernels \cup Mangled
  BY DEF DiscoveryInv
<1>2. EventsType'
  BY DEF EventsType, Discovery!Conclude
<1>3. pass' = Discovery!Nothing /\ discovered' = answer
  BY DEF Discovery!Conclude
<1>4. discovered'.is = "discovered" => GoodManifest(discovered)'
  BY <1>3, ManifestKept DEF GoodManifest
<1> QED BY <1>1, <1>2, <1>3, <1>4 DEF DiscoveryInv, Discovery!Nothing

LEMMA RaisedStep ==
    ASSUME DiscoveryInv, NEW code, Discovery!Conclude(Discovery!Raised(code)),
           UNCHANGED <<wanted, outdir>>
    PROVE  DiscoveryInv'
<1>1. Discovery!Raised(code).is # "discovered"
  BY DEF Discovery!Raised
<1> QED BY <1>1, ConcludeStep

(* While an attempt is under way there is no answer yet.                   *)
LEMMA NoAnswerYet ==
    ASSUME DiscoveryInv, pass # Discovery!Nothing
    PROVE  discovered = Discovery!Untold /\ discovered.is # "discovered"
BY DEF DiscoveryInv, Discovery!Untold

LEMMA PassKinds ==
    ASSUME DiscoveryInv
    PROVE  /\ pass.at = "read" => Reading(pass) /\ pass # Discovery!Nothing
           /\ pass.at = "publish" => Publishing(pass) /\ pass # Discovery!Nothing
           /\ pass.at = "target" => pass = [at |-> "target"] /\ pass # Discovery!Nothing
BY DEF DiscoveryInv, Reading, Publishing, Discovery!Nothing

LEMMA StartTargetStep == ASSUME DiscoveryInv, Discovery!StartTarget PROVE DiscoveryInv'
<1>1. EventsType'
  BY DEF Discovery!StartTarget, EventsType
<1>2. /\ pass' = [at |-> "target"] /\ discovered' = Discovery!Untold
      /\ discovered'.is # "discovered" /\ wanted' = wanted
  BY DEF Discovery!StartTarget, Discovery!Untold
<1> QED BY <1>1, <1>2 DEF DiscoveryInv

LEMMA EmitStep == ASSUME DiscoveryInv, Discovery!Emit PROVE DiscoveryInv'
<1>1. pass.at = "target" /\ pass' = pass /\ discovered' = discovered /\ wanted' = wanted
  BY DEF Discovery!Emit
<1>2. pass = [at |-> "target"] /\ discovered = Discovery!Untold /\ discovered.is # "discovered"
  BY <1>1, PassKinds, NoAnswerYet
<1>3. EventsType'
  <2>1. PICK f \in EventFiles, line \in Discovery!Lines :
          events' = Discovery!With(events, f,
                        Append(IF f \in DOMAIN events THEN events[f] ELSE <<>>, line))
    BY DEF Discovery!Emit
  <2> DEFINE old == IF f \in DOMAIN events THEN events[f] ELSE <<>>
             new == Append(old, line)
  <2>2. old \in Seq(Discovery!Lines)
    BY DEF DiscoveryInv, EventsType
  <2> HIDE DEF old
  <2>3. new \in Seq(Discovery!Lines)
    BY <2>2, AppendProperties
  <2> HIDE DEF new
  <2>4. events' = Discovery!With(events, f, new)
    BY <2>1 DEF new, old
  <2>5. /\ DOMAIN events' = DOMAIN events \cup {f} /\ events'[f] = new
        /\ \A g \in DOMAIN events : g # f => events'[g] = events[g]
    BY <2>4 DEF Discovery!With
  <2> QED BY <2>3, <2>5 DEF EventsType, DiscoveryInv
<1> QED BY <1>1, <1>2, <1>3 DEF DiscoveryInv

LEMMA TargetCannotRunStep == ASSUME DiscoveryInv, Discovery!TargetCannotRun PROVE DiscoveryInv'
BY RaisedStep DEF Discovery!TargetCannotRun

LEMMA CannotListStep == ASSUME DiscoveryInv, Discovery!CannotList PROVE DiscoveryInv'
BY RaisedStep DEF Discovery!CannotList

LEMMA NothingReadYet ==
    ASSUME NEW files
    PROVE  Agrees(<<>>, ReadSoFar(files, [f \in DOMAIN files |-> 0]))
<1>1. ReadSoFar(files, [f \in DOMAIN files |-> 0]) = {}
  BY DEF ReadSoFar
<1>2. DOMAIN <<>> = {}
  OBVIOUS
<1> QED BY <1>1, <1>2, FS_EmptySet DEF Agrees

LEMMA TargetEndsStep == ASSUME DiscoveryInv, Discovery!TargetEnds PROVE DiscoveryInv'
<1>1. PICK code \in {0, 1} :
        IF DOMAIN events = {}
        THEN Discovery!Conclude(Discovery!Raised(IF code = 0 THEN "missing_event_files"
                                                 ELSE "target_failed"))
        ELSE /\ pass' = [at |-> "read", code |-> code, kernels |-> <<>>,
                         got |-> [f \in DOMAIN events |-> 0]]
             /\ UNCHANGED <<events, discovered>>
  BY DEF Discovery!TargetEnds
<1>2. pass.at = "target" /\ UNCHANGED <<wanted, outdir>>
  BY DEF Discovery!TargetEnds
<1>3. CASE DOMAIN events = {}
  BY <1>1, <1>2, <1>3, RaisedStep
<1>4. CASE DOMAIN events # {}
  <2> DEFINE zero == [f \in DOMAIN events |-> 0]
  <2>1. Agrees(<<>>, ReadSoFar(events, zero))
    BY NothingReadYet
  <2>2. zero \in [DOMAIN events -> Nat] /\ \A f \in DOMAIN events : zero[f] = 0
    OBVIOUS
  <2> HIDE DEF zero
  <2>3. /\ pass' = [at |-> "read", code |-> code, kernels |-> <<>>, got |-> zero]
        /\ events' = events /\ discovered' = discovered
    BY <1>1, <1>4 DEF zero
  <2>4. \A f \in DOMAIN events : zero[f] <= Len(events[f])
    BY <2>2 DEF DiscoveryInv, EventsType
  <2>5. Reading(pass)'
    BY <1>4, <2>1, <2>2, <2>3, <2>4 DEF Reading
  <2>6. discovered' = Discovery!Untold /\ discovered'.is # "discovered"
    BY <1>2, <2>3, PassKinds, NoAnswerYet
  <2>7. EventsType' /\ wanted' \subseteq Kernels \cup Mangled
    BY <1>2, <2>3 DEF EventsType, DiscoveryInv
  <2> QED BY <2>5, <2>6, <2>7 DEF DiscoveryInv
<1> QED BY <1>3, <1>4

(* One more line of one file read is at most one more launch read.         *)
LEMMA ReadOneMore ==
    ASSUME EventsType, NEW got \in [DOMAIN events -> Nat], NEW g \in DOMAIN events
    PROVE  ReadSoFar(events, [got EXCEPT ![g] = got[g] + 1]) =
               ReadSoFar(events, got)
                   \cup ({events[g][got[g] + 1]} \cap Discovery!Launches)
<1> DEFINE more == [got EXCEPT ![g] = got[g] + 1]
           line == events[g][got[g] + 1]
<1>1. /\ \A f \in DOMAIN events : f # g => more[f] = got[f]
      /\ more[g] = got[g] + 1 /\ got[g] \in Nat
  OBVIOUS
<1>2. 1..(got[g] + 1) = 1..got[g] \cup {got[g] + 1}
  BY <1>1
<1> HIDE DEF more
<1>3. \A f \in DOMAIN events : f # g => 1..more[f] = 1..got[f]
  BY <1>1
<1>4. 1..more[g] = 1..got[g] \cup {got[g] + 1}
  BY <1>1, <1>2
<1>5. ASSUME NEW l \in Discovery!Launches
      PROVE  (\E f \in DOMAIN events : \E i \in 1..more[f] : events[f][i] = l) <=>
             (\/ \E f \in DOMAIN events : \E i \in 1..got[f] : events[f][i] = l
              \/ l = line)
  BY <1>3, <1>4, Zenon
<1>6. ReadSoFar(events, more) = ReadSoFar(events, got) \cup ({line} \cap Discovery!Launches)
  BY <1>5, Zenon DEF ReadSoFar
<1> QED BY <1>6 DEF more

LEMMA ReadLineStep == ASSUME DiscoveryInv, Discovery!ReadLine PROVE DiscoveryInv'
<1>1. PICK g \in DOMAIN events :
        /\ pass.got[g] < Len(events[g])
        /\ LET seen == Discovery!Merge(pass.kernels, events[g][pass.got[g] + 1])
           IN  IF seen.error # "none" THEN Discovery!Conclude(Discovery!Raised(seen.error))
               ELSE /\ pass' = [at |-> "read", code |-> pass.code, kernels |-> seen.kernels,
                                got |-> [pass.got EXCEPT ![g] = @ + 1]]
                    /\ UNCHANGED <<events, discovered>>
  BY DEF Discovery!ReadLine
<1>2. pass.at = "read" /\ UNCHANGED <<wanted, outdir>>
  BY DEF Discovery!ReadLine
<1>3. Reading(pass) /\ discovered = Discovery!Untold /\ discovered.is # "discovered"
  BY <1>2, PassKinds, NoAnswerYet
<1> DEFINE line == events[g][pass.got[g] + 1]
           seen == Discovery!Merge(pass.kernels, line)
<1>4. CASE seen.error # "none"
  BY <1>1, <1>2, <1>4, RaisedStep
<1>5. CASE seen.error = "none"
  <2> DEFINE more == [pass.got EXCEPT ![g] = pass.got[g] + 1]
  <2>1. EventsType
    BY DEF DiscoveryInv
  <2>2. /\ pass = [at |-> "read", code |-> pass.code, kernels |-> pass.kernels, got |-> pass.got]
        /\ pass.got \in [DOMAIN events -> Nat] /\ DOMAIN events # {}
        /\ Agrees(pass.kernels, ReadSoFar(events, pass.got))
        /\ \A f \in DOMAIN events : pass.got[f] <= Len(events[f])
    BY <1>3 DEF Reading
  <2>3. line \in Discovery!Lines
    <3>1. events[g] \in Seq(Discovery!Lines) /\ pass.got[g] \in Nat
      BY <2>1, <2>2 DEF EventsType
    <3> QED BY <3>1, <1>1
  <2>4. Agrees(seen.kernels, ReadSoFar(events, pass.got) \cup ({line} \cap Discovery!Launches))
    BY <1>5, <2>2, <2>3, MergeAgrees
  <2>5. Agrees(seen.kernels, ReadSoFar(events, more))
    BY <2>1, <2>2, <2>4, ReadOneMore
  <2>6. more \in [DOMAIN events -> Nat] /\ \A f \in DOMAIN events : more[f] <= Len(events[f])
    BY <1>1, <2>1, <2>2 DEF EventsType
  <2>7. events' = events /\ discovered' = discovered
    BY <1>1, <1>5
  <2>8. pass' = [at |-> "read", code |-> pass.code, kernels |-> seen.kernels, got |-> more]
    BY <1>1, <1>5
  <2> HIDE DEF more, seen
  <2>9. Reading(pass)'
    BY <2>2, <2>5, <2>6, <2>7, <2>8 DEF Reading
  <2> QED BY <1>2, <1>3, <2>1, <2>7, <2>9 DEF DiscoveryInv, EventsType
<1> QED BY <1>4, <1>5

LEMMA CannotReadStep == ASSUME DiscoveryInv, Discovery!CannotRead PROVE DiscoveryInv'
BY RaisedStep DEF Discovery!CannotRead

LEMMA SelectKernelsStep == ASSUME DiscoveryInv, Discovery!SelectKernels PROVE DiscoveryInv'
<1> DEFINE seen == Discovery!SelectedKernels(pass.kernels)
<1>1. /\ pass.at = "read" /\ UNCHANGED <<wanted, outdir>>
      /\ \A f \in DOMAIN events : pass.got[f] = Len(events[f])
  BY DEF Discovery!SelectKernels
<1>2. IF seen.error # "none" THEN Discovery!Conclude(Discovery!Raised(seen.error))
      ELSE /\ pass' = [at |-> "publish", code |-> pass.code, kernels |-> seen.kernels,
                       todo |-> DOMAIN events]
           /\ UNCHANGED <<events, discovered>>
  BY DEF Discovery!SelectKernels
<1>3. Reading(pass) /\ discovered = Discovery!Untold /\ discovered.is # "discovered"
  BY <1>1, PassKinds, NoAnswerYet
<1>4. CASE seen.error # "none"
  BY <1>1, <1>2, <1>4, RaisedStep
<1>5. CASE seen.error = "none"
  <2>1. EventsType /\ wanted \subseteq Kernels \cup Mangled
    BY DEF DiscoveryInv
  <2>2. /\ pass.got \in [DOMAIN events -> Nat] /\ DOMAIN events # {}
        /\ Agrees(pass.kernels, ReadSoFar(events, pass.got))
    BY <1>3 DEF Reading
  <2>3. Agrees(pass.kernels, Discovery!Told(events))
    BY <1>1, <2>1, <2>2, AllIsRead
  <2>4. Selection(seen.kernels, Discovery!Told(events))
    BY <1>5, <2>1, <2>3, SelectionFacts
  <2> HIDE DEF seen
  <2>5. /\ pass' = [at |-> "publish", code |-> pass.code, kernels |-> seen.kernels,
                    todo |-> DOMAIN events]
        /\ events' = events /\ discovered' = discovered
    BY <1>2, <1>5
  <2>6. Selection(pass.kernels, Discovery!Told(events))'
    <3>1. Discovery!Told(events)' = Discovery!Told(events)
      BY <2>5 DEF Discovery!Told
    <3>2. pass'.kernels = seen.kernels
      BY <2>5
    <3> QED BY <1>1, <2>4, <3>1, <3>2 DEF Selection, Asked
  <2>7. Publishing(pass)'
    BY <2>2, <2>5, <2>6 DEF Publishing
  <2> QED BY <1>1, <1>3, <2>1, <2>5, <2>7 DEF DiscoveryInv, EventsType
<1> QED BY <1>4, <1>5

LEMMA PublishFields ==
    ASSUME NEW q, Publishing(q), NEW todo
    PROVE  LET r == [q EXCEPT !.todo = todo]
           IN  /\ r = [at |-> "publish", code |-> r.code, kernels |-> r.kernels, todo |-> r.todo]
               /\ r.at = "publish" /\ r.kernels = q.kernels /\ r.todo = todo
<1> DEFINE base == [at |-> "publish", code |-> q.code, kernels |-> q.kernels, todo |-> q.todo]
           r == [q EXCEPT !.todo = todo]
<1>1. q = base
  BY Zenon DEF Publishing
<1>2. [base EXCEPT !.todo = todo] =
      [at |-> "publish", code |-> q.code, kernels |-> q.kernels, todo |-> todo]
  OBVIOUS
<1> HIDE DEF base
<1>3. r = [at |-> "publish", code |-> q.code, kernels |-> q.kernels, todo |-> todo]
  BY <1>1, <1>2, Zenon
<1> HIDE DEF r
<1>4. /\ r.at = "publish" /\ r.code = q.code /\ r.kernels = q.kernels /\ r.todo = todo
  BY <1>3
<1>5. r = [at |-> "publish", code |-> r.code, kernels |-> r.kernels, todo |-> r.todo]
  BY <1>3, <1>4
<1> QED BY <1>4, <1>5 DEF r

LEMMA PublishEventsStep == ASSUME DiscoveryInv, Discovery!PublishEvents PROVE DiscoveryInv'
<1>1. pass.at = "publish" /\ wanted' = wanted
  BY DEF Discovery!PublishEvents
<1>2. Publishing(pass) /\ discovered = Discovery!Untold /\ discovered.is # "discovered"
  BY <1>1, PassKinds, NoAnswerYet
<1>3. CASE Discovery!Conclude(Discovery!Raised("OSError")) /\ UNCHANGED outdir
  BY <1>1, <1>3, RaisedStep
<1>4. CASE /\ \E f \in pass.todo : /\ outdir' = Discovery!With(outdir, f, events[f])
                                   /\ pass' = [pass EXCEPT !.todo = @ \ {f}]
           /\ UNCHANGED <<events, discovered>>
  <2>1. PICK g \in pass.todo : /\ outdir' = Discovery!With(outdir, g, events[g])
                               /\ pass' = [pass EXCEPT !.todo = pass.todo \ {g}]
    BY <1>4
  <2>2. /\ pass' = [at |-> "publish", code |-> pass'.code, kernels |-> pass'.kernels,
                    todo |-> pass'.todo]
        /\ pass'.at = "publish" /\ pass'.kernels = pass.kernels /\ pass'.todo = pass.todo \ {g}
    BY <1>2, <2>1, PublishFields
  <2>3. events' = events /\ discovered' = discovered
    BY <1>4
  <2>4. /\ DOMAIN outdir' = DOMAIN outdir \cup {g} /\ outdir'[g] = events[g]
        /\ \A f \in DOMAIN outdir : f # g => outdir'[f] = outdir[f]
    BY <2>1 DEF Discovery!With
  <2>5. \A f \in DOMAIN events \ pass'.todo : f \in DOMAIN outdir' /\ outdir'[f] = events[f]
    BY <1>2, <2>2, <2>4 DEF Publishing
  <2>6. Selection(pass.kernels, Discovery!Told(events))'
    <3>1. Selection(pass.kernels, Discovery!Told(events))
      BY <1>2 DEF Publishing
    <3>2. Discovery!Told(events)' = Discovery!Told(events)
      BY <2>3 DEF Discovery!Told
    <3> QED BY <1>1, <2>2, <3>1, <3>2 DEF Selection, Asked
  <2>7. DOMAIN events' # {}
    BY <1>2, <2>3 DEF Publishing
  <2>8. Publishing(pass)'
    BY <2>2, <2>3, <2>5, <2>6, <2>7, Zenon DEF Publishing
  <2> QED BY <1>1, <1>2, <2>3, <2>8 DEF DiscoveryInv, EventsType
<1> QED BY <1>3, <1>4 DEF Discovery!PublishEvents

LEMMA PublishDiscoveryStep == ASSUME DiscoveryInv, Discovery!PublishDiscovery PROVE DiscoveryInv'
<1>1. pass.at = "publish" /\ pass.todo = {} /\ UNCHANGED <<wanted, outdir>>
  BY DEF Discovery!PublishDiscovery
<1>2. Publishing(pass)
  BY <1>1, PassKinds
<1>3. CASE Discovery!Conclude(Discovery!Raised("OSError"))
  BY <1>1, <1>3, RaisedStep
<1>4. CASE Discovery!Conclude(Discovery!DiscoveryResult)
  <2> DEFINE d == Discovery!DiscoveryResult
  <2>1. d.kernels = pass.kernels /\ d.files = events /\ d.filters = wanted
    BY DEF Discovery!DiscoveryResult
  <2> HIDE DEF d
  <2>2. GoodManifest(d)
    BY <1>1, <1>2, <2>1 DEF GoodManifest, Publishing
  <2> QED BY <1>1, <1>4, <2>2, ConcludeStep DEF d
<1> QED BY <1>3, <1>4 DEF Discovery!PublishDiscovery

LEMMA DieStep == ASSUME DiscoveryInv, Discovery!Die PROVE DiscoveryInv'
<1>1. /\ pass # Discovery!Nothing /\ pass' = Discovery!Nothing /\ events' = <<>>
      /\ UNCHANGED <<wanted, discovered>>
  BY DEF Discovery!Die
<1>2. discovered'.is # "discovered"
  BY <1>1, NoAnswerYet
<1>3. EventsType'
  BY <1>1 DEF EventsType
<1> QED BY <1>1, <1>2, <1>3 DEF DiscoveryInv

LEMMA DiscoverySteps == ASSUME DiscoveryInv, Discovery!DiscoveryNext PROVE DiscoveryInv'
BY StartTargetStep, EmitStep, TargetCannotRunStep, TargetEndsStep, CannotListStep, ReadLineStep,
   CannotReadStep, SelectKernelsStep, PublishEventsStep, PublishDiscoveryStep, DieStep, Zenon
   DEF Discovery!DiscoveryNext

(* The invariant of a discovery: whatever order the files are read in,     *)
(* wherever the worker dies and whatever the files say, the kernels found  *)
(* are those of the launches read, and the published files are the files   *)
(* the manifest was made from (kernel_discovery.py).                       *)
THEOREM DiscoveryInvariant == Spec => []DiscoveryInvOfKind
<1>1. Init => DiscoveryInvOfKind
  BY DiscoveryStarts DEF Init, DiscoveryInvOfKind
<1>2. DiscoveryInvOfKind /\ [Next]_<<kind, sweep, trace, discovery, wvars>>
        => DiscoveryInvOfKind'
  <2> SUFFICES ASSUME DiscoveryInvOfKind, [Next]_<<kind, sweep, trace, discovery, wvars>>,
                      kind' = "kernel_discovery"
               PROVE  DiscoveryInv'
    BY DEF DiscoveryInvOfKind
  <2>1. CASE DiscoverWorkUnits
    BY <2>1, DiscoverySteps DEF DiscoverWorkUnits, DiscoveryInvOfKind
  <2>2. CASE RunSanitizer \/ RunTrace \/ Exchange
    BY <2>2, DiscoveryUnchanged DEF RunSanitizer, RunTrace, Exchange, DiscoveryInvOfKind
  <2>3. CASE UNCHANGED <<kind, sweep, trace, discovery, wvars>>
    BY <2>3, DiscoveryUnchanged DEF DiscoveryInvOfKind
  <2> QED BY <2>1, <2>2, <2>3 DEF Next
<1> QED BY <1>1, <1>2, PTL DEF Spec

LEMMA AtMostOne ==
    ASSUME NEW S, \A x \in S : \A y \in S : x = y
    PROVE  Cardinality(S) <= 1
<1>1. CASE S = {}
  BY <1>1, FS_EmptySet
<1>2. CASE S # {}
  <2>1. PICK x : x \in S
    BY <1>2
  <2>2. S = {x}
    BY <2>1
  <2> QED BY <2>2, FS_Singleton
<1> QED BY <1>1, <1>2

LEMMA NamesOfFacts ==
    ASSUME NEW files, NEW k, NEW m
    PROVE  m \in Discovery!NamesOf(files, k) <=>
               \E l \in Discovery!Told(files) : l.kernel = k /\ l.mangled = m
<1>1. \A l \in Discovery!Told(files) : l.mangled \in Mangled \cup {Discovery!NoName}
  BY LaunchFields DEF Discovery!Told
<1> QED BY <1>1, Zenon DEF Discovery!NamesOf

LEMMA GoodManifestMatches ==
    ASSUME DiscoveryInv, discovered.is = "discovered"
    PROVE  Discovery!ManifestMatchesEvents
<1> DEFINE files == discovered.files
           R == Discovery!Told(files)
           found == discovered.kernels
           Names(k) == Discovery!NamesOf(files, k)
<1>1. /\ wanted \subseteq Kernels \cup Mangled
      /\ Selection(found, R)
      /\ \A f \in DOMAIN files : f \in DOMAIN outdir /\ outdir[f] = files[f]
  BY DEF DiscoveryInv, GoodManifest
<1>2. \A l \in R : l.kernel \in Kernels
  BY LaunchFields DEF Discovery!Told
<1>3. \A k, m : m \in Names(k) <=> \E l \in R : l.kernel = k /\ l.mangled = m
  BY NamesOfFacts
<1> HIDE DEF R, found, Names
<1>4. \A l \in R : Discovery!Cardinality(Names(l.kernel) \ {Discovery!NoName}) <= 1
  <2> SUFFICES ASSUME NEW l \in R
               PROVE  \A x \in Names(l.kernel) \ {Discovery!NoName} :
                      \A y \in Names(l.kernel) \ {Discovery!NoName} : x = y
    BY AtMostOne, DiscoveryCardinality
  <2> QED BY <1>1, <1>3 DEF Selection
<1>5. ASSUME NEW k
      PROVE  k \in DOMAIN found <=>
                 /\ k \in Kernels /\ Names(k) # {}
                 /\ wanted = {} \/ ({k} \cup Names(k)) \cap wanted # {}
  <2>1. ASSUME k \in DOMAIN found
        PROVE  /\ k \in Kernels /\ Names(k) # {}
               /\ wanted = {} \/ ({k} \cup Names(k)) \cap wanted # {}
    <3>1. PICK l \in R : l.kernel = k /\ l.mangled = found[k]
      BY <1>1, <2>1 DEF Selection
    <3>2. k \in Kernels /\ found[k] \in Names(k) /\ Asked(k, found[k])
      BY <1>1, <1>2, <1>3, <2>1, <3>1 DEF Selection
    <3> QED BY <3>2 DEF Asked
  <2>2. ASSUME Names(k) # {}, wanted = {} \/ ({k} \cup Names(k)) \cap wanted # {}
        PROVE  k \in DOMAIN found
    <3>1. PICK m : m \in Names(k) /\ Asked(k, m)
      BY <2>2 DEF Asked
    <3>2. PICK l \in R : l.kernel = k /\ l.mangled = m
      BY <1>3, <3>1
    <3> QED BY <1>1, <3>1, <3>2 DEF Selection
  <2> QED BY <2>1, <2>2
<1>6. ASSUME NEW k \in DOMAIN found
      PROVE  IF Names(k) = {Discovery!NoName} THEN found[k] = Discovery!NoName
             ELSE found[k] \in Names(k) \ {Discovery!NoName}
  <2>1. found[k] \in Names(k)
    BY <1>1, <1>3 DEF Selection
  <2>2. \A m \in Names(k) : m \in {Discovery!NoName, found[k]}
    BY <1>1, <1>3 DEF Selection
  <2> QED BY <2>1, <2>2
<1>7. DOMAIN found = {k \in Kernels :
                        /\ Names(k) # {}
                        /\ wanted = {} \/ ({k} \cup Names(k)) \cap wanted # {}}
  BY <1>5
<1> QED BY <1>1, <1>4, <1>6, <1>7, Zenon DEF Discovery!ManifestMatchesEvents, R, found, Names

(* A manifest is what the published event files say, whatever their number *)
(* and their order, the deaths of the worker and the filters: every wanted *)
(* kernel that was launched, no other, each with its one mangled name      *)
(* (_read_kernels, _selected_kernels, _publish_discovery).                 *)
THEOREM ManifestsMatchEvents == Spec => []ManifestMatchesEvents
<1>1. DiscoveryInvOfKind => ManifestMatchesEvents
  BY GoodManifestMatches DEF DiscoveryInvOfKind, ManifestMatchesEvents,
     Discovery!ManifestMatchesEvents
<1> QED BY <1>1, DiscoveryInvariant, PTL

LEMMA DiscoveryAccepted == ASSUME DiscoveryInv PROVE Discovery!ManifestAccepted
<1> SUFFICES ASSUME discovered.is = "discovered"
             PROVE  Discovery!AcceptsManifest(discovered)
  BY DEF Discovery!ManifestAccepted
<1>1. GoodManifest(discovered)
  BY DEF DiscoveryInv
<1>2. /\ DOMAIN discovered.kernels # {} /\ DOMAIN discovered.files # {}
      /\ Cardinality(DOMAIN discovered.kernels) <= MaxKernels
      /\ discovered.filters = wanted
  BY <1>1 DEF GoodManifest, Selection
<1> QED BY <1>2, DiscoveryCardinality, Zenon DEF Discovery!AcceptsManifest

LEMMA TracesAccepted == ASSUME TraceInv PROVE Trace!TraceAccepted
BY ProducedIsGood DEF GoodResult, Trace!TraceAccepted

(* Every result of every adapter passes the session's validation; of a     *)
(* trace whose target failed with blank last words everything but that     *)
(* error does (_validate_sanitizer_result, _validate_trace_result,         *)
(* KernelDiscoveryManifest, _target_failure_detail).                       *)
THEOREM ResultsAreAcceptedBySession == Spec => []SessionAccepts
<1>1. SweepInvOfKind /\ TraceInvOfKind /\ DiscoveryInvOfKind => SessionAccepts
  BY SweepAccepted, TracesAccepted, DiscoveryAccepted
     DEF SessionAccepts, SweepInvOfKind, TraceInvOfKind, DiscoveryInvOfKind
<1> QED BY <1>1, SweepInvariant, TraceInvariant, DiscoveryInvariant, PTL

-----------------------------------------------------------------------------
(* The documents.  What the process holds is an object its constructor     *)
(* accepts and leaves as it is, with no value in a legacy spelling; what   *)
(* is read is such an object again, so the first save and every later one  *)
(* are the same case.                                                      *)

KeptKeys == {"mangled_name", "instrument_modes", "capture_summaries", "omitted_capture_summaries",
             "admission_input_digest", "published_report"}

LEMMA KeptNames == \A c : KeptOf(c) \subseteq KeptKeys
<1> SUFFICES ASSUME NEW c \in DOMAIN Kept PROVE Kept[c] \subseteq KeptKeys
  BY DEF KeptOf
<1> QED BY DEF Kept, KeptKeys

LEMMA KeptDefault == \A c, d : \A k \in KeptKeys : Default(c, d, k) = "dflt"
BY DEF KeptKeys, Default

LEMMA FixedKept ==
    \A c \in DOMAIN Schemas : KeptOf(c) \cap Schemas[c].need = {}
<1>1. Schemas["KernelId"].need \cap KeptKeys = {}
  BY DEF Schemas, Schema, KernelId, KeptKeys
<1>2. Schemas["TraceOptions"].need \cap KeptKeys = {}
  BY DEF Schemas, Schema, TraceOptions, KeptKeys
<1>3. Schemas["TraceAnalysisEvidence"].need \cap KeptKeys = {}
  BY DEF Schemas, Schema, TraceAnalysisEvidence, KeptKeys
<1>4. Schemas["ExperimentRequest"].need \cap KeptKeys = {}
  BY DEF Schemas, Schema, ExperimentRequest, KeptKeys
<1>5. Schemas["AnalysisSession"].need \cap KeptKeys = {}
  BY DEF Schemas, Schema, AnalysisSession, KeptKeys
<1>6. DOMAIN Kept = {"KernelId", "TraceOptions", "TraceAnalysisEvidence", "ExperimentRequest",
                     "AnalysisSession"}
  BY DEF Kept
<1> QED BY <1>1, <1>2, <1>3, <1>4, <1>5, <1>6, KeptNames DEF KeptOf

LEMMA FromWireAgain == \A k, v : FromWire(k, FromWire(k, v)) = FromWire(k, v)
BY DEF FromWire

LEMMA DefaultIsCurrent == \A c, d, k : FromWire(k, Default(c, d, k)) = Default(c, d, k)
BY DEF FromWire, Default, DerivedRate

(* The spellings of other releases.                                        *)
Legacy == {"RAW", "replay_failed", "failed", "primary", "older"}

LEMMA CurrentIsKept == \A k : \A v : v \notin Legacy => FromWire(k, v) = v
BY DEF FromWire, Legacy

LEMMA ChoicesAreCurrent ==
    \A c \in DOMAIN Choices : \A k \in DOMAIN Choices[c] : Choices[c][k] \cap Legacy = {}
BY DEF Choices, Legacy


(* trace and traces[0] are one artifact, or there is none.                 *)
AliasFits(o) == /\ o["trace"] = "set" => o["traces"] # "dflt"
                /\ o["traces"] # "dflt" => o["trace"] = "set"

WellFormed(c, o) ==
    /\ o = [k \in Fields(c) |-> o[k]]
    /\ \A k \in Fields(c) : FromWire(k, o[k]) = o[k]
    /\ c = "TraceExperimentResult" => AliasFits(o)
    /\ Constructible(c, o)

LEMMA TraceFields == {"trace", "traces"} \subseteq Fields("TraceExperimentResult")
<1>1. {"trace", "traces"} \subseteq Schemas["TraceExperimentResult"].opt
  BY DEF Schemas, Schema, TraceExperimentResult
<1> QED BY <1>1 DEF Fields

LEMMA SessionFields == "status" \in Schemas["AnalysisSession"].need
                       /\ "report_publication" \in Fields("AnalysisSession")
<1>1. "status" \in Schemas["AnalysisSession"].need
  BY DEF Schemas, Schema, AnalysisSession
<1>2. "report_publication" \in Schemas["AnalysisSession"].opt
  BY DEF Schemas, Schema, AnalysisSession
<1> QED BY <1>1, <1>2 DEF Fields

LEMMA NormalFacts ==
    ASSUME NEW S, NEW c, NEW o, o = [k \in S |-> o[k]],
           c = "TraceExperimentResult" => {"trace", "traces"} \subseteq S
    PROVE  LET n == Normal(c, o)
           IN  /\ DOMAIN n = S
               /\ n = [k \in S |-> n[k]]
               /\ \A k \in S : k \notin {"trace", "traces"} => n[k] = o[k]
               /\ c # "TraceExperimentResult" => n = o
               /\ c = "TraceExperimentResult" =>
                     /\ n["traces"] = IF o["trace"] = "set" /\ o["traces"] = "dflt" THEN "one"
                                      ELSE o["traces"]
                     /\ n["trace"] = IF o["traces"] # "dflt" THEN "set" ELSE o["trace"]
BY DEF Normal

LEMMA NormalFits ==
    ASSUME NEW S, NEW o, o = [k \in S |-> o[k]], {"trace", "traces"} \subseteq S
    PROVE  AliasFits(Normal("TraceExperimentResult", o))
BY NormalFacts DEF AliasFits

LEMMA FitsIsNormal ==
    ASSUME NEW S, NEW c, NEW o, o = [k \in S |-> o[k]],
           c = "TraceExperimentResult" => {"trace", "traces"} \subseteq S /\ AliasFits(o)
    PROVE  Normal(c, o) = o
BY DEF AliasFits, Normal

(* What from_dict has read before the constructor normalises it.           *)
RawRead(c, d) ==
    [k \in Fields(c) |-> IF k \in DOMAIN d THEN FromWire(k, d[k]) ELSE Default(c, d, k)]

LEMMA RawReadFacts ==
    ASSUME NEW c, NEW d
    PROVE  LET r == RawRead(c, d)
           IN  /\ r = [k \in Fields(c) |-> r[k]]
               /\ \A k \in Fields(c) : k \in DOMAIN d => r[k] = FromWire(k, d[k])
               /\ \A k \in Fields(c) : k \notin DOMAIN d => r[k] = Default(c, d, k)
               /\ \A k \in Fields(c) : FromWire(k, r[k]) = r[k]
<1> DEFINE r == RawRead(c, d)
<1>1. /\ r = [k \in Fields(c) |-> r[k]]
      /\ \A k \in Fields(c) : k \in DOMAIN d => r[k] = FromWire(k, d[k])
      /\ \A k \in Fields(c) : k \notin DOMAIN d => r[k] = Default(c, d, k)
  BY DEF RawRead
<1> HIDE DEF r
<1>2. \A k \in Fields(c) : FromWire(k, r[k]) = r[k]
  BY <1>1, FromWireAgain, DefaultIsCurrent
<1> QED BY <1>1, <1>2 DEF r

LEMMA DecodeIs ==
    ASSUME NEW c, NEW d, NEW h
    PROVE  LET n == Normal(c, RawRead(c, d))
           IN  Decode(c, d, h) =
                 IF /\ Schemas[c].need \subseteq DOMAIN d
                    /\ c = "RunSessionSummary" => DOMAIN d \subseteq Fields(c)
                    /\ Constructible(c, n)
                    /\ c = "RunInput" => Payload(n) = h
                 THEN {n} ELSE {}
BY Zenon DEF Decode, RawRead

LEMMA AliasCurrent == \A v : FromWire("trace", v) = v /\ FromWire("traces", v) = v
BY DEF FromWire

(* The constructor leaves an object this release could have built.         *)
LEMMA NormalIsWellFormed ==
    ASSUME NEW c, NEW r, r = [k \in Fields(c) |-> r[k]],
           \A k \in Fields(c) : FromWire(k, r[k]) = r[k],
           Constructible(c, Normal(c, r))
    PROVE  WellFormed(c, Normal(c, r))
<1> DEFINE n == Normal(c, r)
<1>1. c = "TraceExperimentResult" => {"trace", "traces"} \subseteq Fields(c)
  BY TraceFields
<1>2. /\ n = [k \in Fields(c) |-> n[k]]
      /\ \A k \in Fields(c) : k \notin {"trace", "traces"} => n[k] = r[k]
  BY <1>1, NormalFacts
<1>3. c = "TraceExperimentResult" => AliasFits(n)
  BY <1>1, NormalFits
<1> HIDE DEF n
<1>4. \A k \in Fields(c) : FromWire(k, n[k]) = n[k]
  BY <1>2, AliasCurrent
<1>5. Constructible(c, n)
  BY Zenon DEF n
<1> QED BY <1>2, <1>3, <1>4, <1>5, Zenon DEF WellFormed, n

LEMMA DecodedIsWellFormed ==
    ASSUME NEW c, NEW d, NEW h, NEW o \in Decode(c, d, h)
    PROVE  WellFormed(c, o)
<1> DEFINE r == RawRead(c, d)
<1>1. o = Normal(c, r) /\ Constructible(c, Normal(c, r))
  BY DecodeIs
<1>2. /\ r = [k \in Fields(c) |-> r[k]]
      /\ \A k \in Fields(c) : FromWire(k, r[k]) = r[k]
  BY RawReadFacts
<1> HIDE DEF r
<1>3. WellFormed(c, Normal(c, r))
  BY <1>1, <1>2, NormalIsWellFormed
<1> QED BY <1>1, <1>3, Zenon

LEMMA EncodeFacts ==
    ASSUME NEW c, NEW o
    PROVE  /\ DOMAIN Encode(c, o) = {k \in Fields(c) : Written(c, o, k)}
           /\ \A k \in DOMAIN Encode(c, o) : Encode(c, o)[k] = o[k]
BY DEF Encode

(* A document this release wrote reads back as the object it was written   *)
(* from, for every contract and every object its constructor accepts,      *)
(* whatever the values of its keys (to_dict and from_dict of contracts.py  *)
(* and run_contracts.py).                                                  *)
THEOREM RoundTrip ==
    ASSUME NEW c \in DOMAIN Schemas, NEW o, WellFormed(c, o)
    PROVE  Decode(c, Encode(c, o), Payload(Encode(c, o))) = {o}
<1> DEFINE d == Encode(c, o)
           r == RawRead(c, d)
<1>1. /\ DOMAIN d = {k \in Fields(c) : Written(c, o, k)}
      /\ \A k \in DOMAIN d : d[k] = o[k]
  BY EncodeFacts
<1> HIDE DEF d
<1>2. \A k \in Fields(c) : k \notin DOMAIN d => k \in KeptOf(c) /\ o[k] = "dflt"
  BY <1>1 DEF Written
<1>3. \A k \in Fields(c) : k \notin DOMAIN d => Default(c, d, k) = "dflt"
  BY <1>2, KeptNames, KeptDefault
<1>4. /\ r = [k \in Fields(c) |-> r[k]]
      /\ \A k \in Fields(c) : k \in DOMAIN d => r[k] = FromWire(k, d[k])
      /\ \A k \in Fields(c) : k \notin DOMAIN d => r[k] = Default(c, d, k)
  BY RawReadFacts
<1> HIDE DEF r
<1>5. o = [k \in Fields(c) |-> o[k]] /\ \A k \in Fields(c) : FromWire(k, o[k]) = o[k]
  BY DEF WellFormed
<1>6. r = o
  <2>1. \A k \in Fields(c) : r[k] = o[k]
    BY <1>1, <1>2, <1>3, <1>4, <1>5, Zenon
  <2>2. [k \in Fields(c) |-> r[k]] = [k \in Fields(c) |-> o[k]]
    BY <2>1
  <2> QED BY <1>4, <1>5, <2>2, Zenon
<1>7. Normal(c, o) = o
  <2>1. c = "TraceExperimentResult" => {"trace", "traces"} \subseteq Fields(c) /\ AliasFits(o)
    BY TraceFields DEF WellFormed
  <2> QED BY <1>5, <2>1, FitsIsNormal
<1>8. Schemas[c].need \subseteq DOMAIN d /\ DOMAIN d \subseteq Fields(c)
  BY <1>1, FixedKept DEF Written, Fields
<1>9. c = "RunInput" => Payload(o) = Payload(d)
  <2> SUFFICES ASSUME c = "RunInput" PROVE Payload(o) = Payload(d)
    OBVIOUS
  <2>1. KeptOf(c) = {}
    BY DEF KeptOf, Kept
  <2>2. DOMAIN d = Fields(c)
    BY <1>1, <2>1 DEF Written
  <2>3. DOMAIN o = DOMAIN d /\ \A k \in DOMAIN d : d[k] = o[k]
    BY <1>1, <1>5, <2>2
  <2> QED BY <2>3 DEF Payload
<1>10. Constructible(c, o)
  BY DEF WellFormed
<1>11. Normal(c, RawRead(c, d)) = o
  BY <1>6, <1>7, Zenon DEF r
<1>12. Decode(c, d, Payload(d)) = {o}
  BY <1>8, <1>9, <1>10, <1>11, DecodeIs, Zenon
<1> QED BY <1>12 DEF d

(* What a document says of the alias, when it has both of its keys.        *)
DocFits(c, d) == c = "TraceExperimentResult" /\ {"trace", "traces"} \subseteq DOMAIN d
                    => AliasFits(d)

(* A document is read as what it says, key by key.                         *)
LEMMA DecodedAgrees ==
    ASSUME NEW c, NEW d, NEW h, DocFits(c, d), NEW o \in Decode(c, d, h),
           NEW k \in DOMAIN d \cap Fields(c)
    PROVE  o[k] = FromWire(k, d[k])
<1> DEFINE r == RawRead(c, d)
           n == Normal(c, r)
<1>1. o = n
  BY DecodeIs
<1>2. /\ r = [j \in Fields(c) |-> r[j]]
      /\ \A j \in Fields(c) : j \in DOMAIN d => r[j] = FromWire(j, d[j])
      /\ \A j \in Fields(c) : j \notin DOMAIN d => r[j] = Default(c, d, j)
  BY RawReadFacts
<1>3. c = "TraceExperimentResult" => {"trace", "traces"} \subseteq Fields(c)
  BY TraceFields
<1>4. Default(c, d, "trace") = "dflt" /\ Default(c, d, "traces") = "dflt"
  BY DEF Default
<1> HIDE DEF r
<1>5. /\ \A j \in Fields(c) : j \notin {"trace", "traces"} => n[j] = r[j]
      /\ c # "TraceExperimentResult" => n = r
      /\ c = "TraceExperimentResult" =>
            /\ n["traces"] = IF r["trace"] = "set" /\ r["traces"] = "dflt" THEN "one"
                             ELSE r["traces"]
            /\ n["trace"] = IF r["traces"] # "dflt" THEN "set" ELSE r["trace"]
  BY <1>2, <1>3, NormalFacts
<1> HIDE DEF n
<1>6. n[k] = r[k]
  <2>1. CASE c # "TraceExperimentResult" \/ k \notin {"trace", "traces"}
    BY <1>5, <2>1
  <2>2. CASE c = "TraceExperimentResult" /\ k = "traces"
    <3>1. r["traces"] = d["traces"]
      BY <1>2, <2>2, AliasCurrent
    <3>2. "trace" \in DOMAIN d => r["trace"] = d["trace"]
      BY <1>2, <1>3, <2>2, AliasCurrent
    <3>3. "trace" \notin DOMAIN d => r["trace"] = "dflt"
      BY <1>2, <1>3, <1>4, <2>2
    <3> QED BY <1>5, <2>2, <3>1, <3>2, <3>3 DEF DocFits, AliasFits
  <2>3. CASE c = "TraceExperimentResult" /\ k = "trace"
    <3>1. r["trace"] = d["trace"]
      BY <1>2, <2>3, AliasCurrent
    <3>2. "traces" \in DOMAIN d => r["traces"] = d["traces"]
      BY <1>2, <1>3, <2>3, AliasCurrent
    <3>3. "traces" \notin DOMAIN d => r["traces"] = "dflt"
      BY <1>2, <1>3, <1>4, <2>3
    <3> QED BY <1>5, <2>3, <3>1, <3>2, <3>3 DEF DocFits, AliasFits
  <2> QED BY <2>1, <2>2, <2>3
<1> QED BY <1>1, <1>2, <1>6

LEMMA StatusIsCurrent == \A v : FromWire("status", v) = v /\ FromWire("report_publication", v) = v
BY DEF FromWire

(* A session without a publication status is published when it ended.      *)
LEMMA EndedIsPublished ==
    ASSUME NEW d, NEW h, "report_publication" \notin DOMAIN d,
           NEW o \in Decode("AnalysisSession", d, h)
    PROVE  (o["status"] = "ended") = (o["report_publication"] = "PUBLISHED")
<1> DEFINE c == "AnalysisSession"
           r == RawRead(c, d)
<1>1. o = Normal(c, r) /\ Schemas[c].need \subseteq DOMAIN d
  BY DecodeIs
<1>2. "status" \in Fields(c) /\ "report_publication" \in Fields(c) /\ "status" \in DOMAIN d
  BY <1>1, SessionFields DEF Fields
<1>3. /\ \A j \in Fields(c) : j \in DOMAIN d => r[j] = FromWire(j, d[j])
      /\ \A j \in Fields(c) : j \notin DOMAIN d => r[j] = Default(c, d, j)
  BY RawReadFacts
<1>4. o = r
  BY <1>1 DEF Normal
<1> HIDE DEF r
<1>5. o["status"] = d["status"]
  BY <1>2, <1>3, <1>4, StatusIsCurrent
<1>6. o["report_publication"] = IF d["status"] = "ended" THEN "PUBLISHED" ELSE "NOT_READY"
  BY <1>2, <1>3, <1>4 DEF Default
<1> QED BY <1>5, <1>6

-----------------------------------------------------------------------------
WireInv ==
    /\ contract \in DOMAIN Schemas /\ WellFormed(contract, object)
    /\ stage \in {"held", "saved", "read"}
    /\ stage # "held" => hashed = Payload(doc) /\ DocFits(contract, doc)
    /\ stage = "read" => reading = Decode(contract, doc, hashed)

LEMMA BuiltFields ==
    ASSUME NEW c, NEW g \in Picks(c), NEW base \in {"dflt", "set"}, NEW odd
    PROVE  LET b == Build(c, g, base, odd)
           IN  /\ b = [k \in Fields(c) |-> b[k]]
               /\ \A k \in Fields(c) : FromWire(k, b[k]) = b[k]
<1> DEFINE b == Build(c, g, base, odd)
<1>1. /\ b = [k \in Fields(c) |-> b[k]]
      /\ \A k \in Fields(c) : \/ k \in DOMAIN ChoicesOf(c) /\ b[k] = g[k]
                              \/ b[k] = "set" \/ b[k] = "dflt"
  BY DEF Build
<1>2. \A k \in DOMAIN ChoicesOf(c) : g[k] \notin Legacy
  <2> SUFFICES ASSUME NEW k \in DOMAIN ChoicesOf(c) PROVE g[k] \notin Legacy
    OBVIOUS
  <2>1. g[k] \in ChoicesOf(c)[k]
    BY DEF Picks
  <2>2. c \in DOMAIN Choices
    BY DEF ChoicesOf
  <2>3. ChoicesOf(c) = Choices[c]
    BY <2>2 DEF ChoicesOf
  <2> QED BY <2>1, <2>2, <2>3, ChoicesAreCurrent
<1> HIDE DEF b
<1>3. "set" \notin Legacy /\ "dflt" \notin Legacy
  BY DEF Legacy
<1>4. \A k \in Fields(c) : FromWire(k, b[k]) = b[k]
  BY <1>1, <1>2, <1>3, CurrentIsKept
<1> QED BY <1>1, <1>4 DEF b

LEMMA WireStarts == ASSUME WireInit PROVE WireInv
<1>1. PICK g \in Picks(contract), base \in {"dflt", "set"}, odd \in Fields(contract) :
        object = Normal(contract, Build(contract, g, base, odd))
  BY DEF WireInit
<1>2. /\ contract \in DOMAIN Schemas /\ Constructible(contract, object) /\ stage = "held"
  BY DEF WireInit
<1> DEFINE b == Build(contract, g, base, odd)
<1>3. /\ b = [k \in Fields(contract) |-> b[k]]
      /\ \A k \in Fields(contract) : FromWire(k, b[k]) = b[k]
  BY BuiltFields
<1>4. object = Normal(contract, b)
  BY <1>1
<1> HIDE DEF b
<1>5. Constructible(contract, Normal(contract, b))
  BY <1>2, <1>4, Zenon
<1>6. WellFormed(contract, Normal(contract, b))
  BY <1>3, <1>5, NormalIsWellFormed
<1>7. WellFormed(contract, object)
  BY <1>4, <1>6, Zenon
<1> QED BY <1>2, <1>7 DEF WireInv

LEMMA DocumentFits ==
    ASSUME NEW c, NEW o, NEW d, WellFormed(c, o),
           \A k \in DOMAIN d : c = "TraceExperimentResult" /\ k \in {"trace", "traces"} =>
               d[k] = o[k]
    PROVE  DocFits(c, d)
BY DEF DocFits, WellFormed, AliasFits

LEMMA WriteStep ==
    ASSUME NEW o, NEW d, contract \in DOMAIN Schemas, WellFormed(contract, o),
           \A k \in DOMAIN d : contract = "TraceExperimentResult" /\ k \in {"trace", "traces"} =>
               d[k] = o[k],
           Write(d), object' = o, UNCHANGED contract
    PROVE  WireInv'
<1>1. DocFits(contract, d)
  BY DocumentFits
<1>2. doc' = d /\ hashed' = Payload(d) /\ stage' = "saved"
  BY DEF Write
<1>3. contract' \in DOMAIN Schemas /\ WellFormed(contract', object')
  BY Zenon
<1>4. DocFits(contract', doc') /\ hashed' = Payload(doc')
  BY <1>1, <1>2, Zenon
<1> QED BY <1>2, <1>3, <1>4, Zenon DEF WireInv

LEMMA SaveStep == ASSUME WireInv, Save PROVE WireInv'
<1>1. \A k \in DOMAIN Encode(contract, object) : Encode(contract, object)[k] = object[k]
  BY EncodeFacts
<1> QED BY <1>1, WriteStep DEF Save, WireInv

LEMMA SaveOlderStep == ASSUME WireInv, SaveOlder PROVE WireInv'
<1>1. PICK gone : Write([k \in DOMAIN Encode(contract, object) \ gone |-> object[k]])
  BY DEF SaveOlder
<1> DEFINE d == [k \in DOMAIN Encode(contract, object) \ gone |-> object[k]]
<1>2. \A k \in DOMAIN d : d[k] = object[k]
  OBVIOUS
<1> HIDE DEF d
<1>3. Write(d) /\ object' = object /\ UNCHANGED contract
  BY <1>1 DEF SaveOlder, d
<1> QED BY <1>2, <1>3, WriteStep DEF WireInv

LEMMA SaveRespelledStep == ASSUME WireInv, SaveRespelled PROVE WireInv'
<1>1. PICK k \in DOMAIN RespelledOf(contract) : \E v \in RespelledOf(contract)[k] :
        Write([x \in DOMAIN Encode(contract, object) \cup {k} |-> IF x = k THEN v ELSE object[x]])
  BY DEF SaveRespelled
<1>2. PICK v :
        Write([x \in DOMAIN Encode(contract, object) \cup {k} |-> IF x = k THEN v ELSE object[x]])
  BY <1>1
<1> DEFINE d == [x \in DOMAIN Encode(contract, object) \cup {k} |-> IF x = k THEN v ELSE object[x]]
<1>3. contract # "TraceExperimentResult"
  BY DEF RespelledOf, Respelled
<1> HIDE DEF d
<1>4. Write(d) /\ object' = object /\ UNCHANGED contract
  BY <1>2 DEF SaveRespelled, d
<1> QED BY <1>3, <1>4, WriteStep DEF WireInv

LEMMA SaveNewerStep == ASSUME WireInv, SaveNewer PROVE WireInv'
<1> DEFINE d == [k \in DOMAIN Encode(contract, object) \cup {"of_a_later_release"} |->
                    IF k \in Fields(contract) THEN object[k] ELSE "set"]
<1>1. \A k \in DOMAIN d : contract = "TraceExperimentResult" /\ k \in {"trace", "traces"} =>
         d[k] = object[k]
  BY TraceFields
<1>2. Write(d) /\ object' = object /\ UNCHANGED contract
  BY DEF SaveNewer
<1> HIDE DEF d
<1> QED BY <1>1, <1>2, WriteStep DEF WireInv

LEMMA ReadStep == ASSUME WireInv, Read PROVE WireInv'
BY DEF WireInv, Read

LEMMA ResaveStep == ASSUME WireInv, Resave PROVE WireInv'
<1>1. PICK o \in reading : object' = o /\ Write(Encode(contract, o)) /\ UNCHANGED contract
  BY DEF Resave
<1>2. WellFormed(contract, o)
  BY DecodedIsWellFormed DEF WireInv, Resave
<1>3. \A k \in DOMAIN Encode(contract, o) : Encode(contract, o)[k] = o[k]
  BY EncodeFacts
<1> QED BY <1>1, <1>2, <1>3, WriteStep DEF WireInv

LEMMA WireSteps == ASSUME WireInv, [WireNext]_wvars PROVE WireInv'
<1>1. CASE UNCHANGED wvars
  BY <1>1, Zenon DEF WireInv, wvars
<1> QED BY <1>1, SaveStep, SaveOlderStep, SaveRespelledStep, SaveNewerStep, ReadStep, ResaveStep, Zenon
           DEF WireNext

LEMMA ReadingIsFaithful == ASSUME WireInv PROVE ReadsBack
<1> SUFFICES ASSUME stage = "read" PROVE ReadsBack
  BY DEF ReadsBack
<1>1. /\ contract \in DOMAIN Schemas /\ WellFormed(contract, object)
      /\ hashed = Payload(doc) /\ DocFits(contract, doc)
      /\ reading = Decode(contract, doc, hashed)
  BY DEF WireInv
<1>2. doc = Encode(contract, object) => reading = {object}
  BY <1>1, RoundTrip
<1>3. \A o \in reading : \A k \in DOMAIN doc \cap Fields(contract) : o[k] = FromWire(k, doc[k])
  BY <1>1, DecodedAgrees
<1>4. contract = "AnalysisSession" /\ "report_publication" \notin DOMAIN doc =>
        \A o \in reading : (o["status"] = "ended") = (o["report_publication"] = "PUBLISHED")
  BY <1>1, EndedIsPublished
<1> QED BY <1>2, <1>3, <1>4, Zenon DEF ReadsBack

WireInvOfKind == IF kind = "document" THEN WireInv ELSE stage = "idle"

(* The invariant of the documents: through any sequence of saves, readings *)
(* and savings of what was read, a document of this or of another release, *)
(* the process holds an object its contract accepts (contracts.py,         *)
(* run_contracts.py).                                                      *)
THEOREM WireInvariant == Spec => []WireInvOfKind
<1>1. Init => WireInvOfKind
  BY WireStarts DEF Init, WireInvOfKind, NoWire
<1>2. WireInvOfKind /\ [Next]_<<kind, sweep, trace, discovery, wvars>> => WireInvOfKind'
  <2> SUFFICES ASSUME WireInvOfKind, [Next]_<<kind, sweep, trace, discovery, wvars>>
               PROVE  WireInvOfKind'
    OBVIOUS
  <2>1. CASE kind = "document" /\ kind' = kind /\ [WireNext]_wvars
    BY <2>1, WireSteps DEF WireInvOfKind
  <2>2. CASE kind # "document" /\ kind' = kind /\ UNCHANGED wvars
    BY <2>2 DEF WireInvOfKind, wvars
  <2> QED BY <2>1, <2>2 DEF Next, RunSanitizer, RunTrace, DiscoverWorkUnits, Exchange
<1> QED BY <1>1, <1>2, PTL DEF Spec

(* A document reads back as the object it was written from, also after it  *)
(* was read and saved again; one of another release is refused or read as  *)
(* what it says; a session that ended before publication was tracked       *)
(* counts as published (to_dict, from_dict).                               *)
THEOREM DocumentsReadBack == Spec => []ReadsBack
<1>1. WireInvOfKind => ReadsBack
  BY ReadingIsFaithful DEF WireInvOfKind, ReadsBack
<1> QED BY <1>1, WireInvariant, PTL

=============================================================================
