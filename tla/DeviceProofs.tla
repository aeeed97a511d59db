---------------------------- MODULE DeviceProofs ----------------------------
(***************************************************************************)
(* For any number of launches, records, kernels, processes and any         *)
(* timeouts: the watchdogs, the delay configuration and the trace footers  *)
(* of a process under CUTracer.                                            *)
(***************************************************************************)
EXTENDS DeviceAnalyses, FiniteSetTheorems, SequenceTheorems, TLAPS

(* The launches the application thread is inside of.                       *)
Live ==
    IF host.pc \in {"kernel", "flush", "request"}
    THEN IF host.graph THEN Elements(graph_launches) ELSE {host.launch}
    ELSE {}

Requests == Elements(pending) \cup Elements(taken)

Requested == {q.launch : q \in Requests}

(* Records of launch l in a sequence.                                      *)
CountOf(s, l) == Cardinality({i \in DOMAIN s : s[i].launch = l})

Total(w) == w.written + w.dropped + w.buffered

(* A writer that failed holds nothing back; one that met no fault.         *)
Sane(w) == ~w.enabled => w.buffered = 0
Sound(w) == w.enabled /\ w.accepting /\ ~w.errors /\ w.dropped = 0

-----------------------------------------------------------------------------
(* The inductive invariant.                                                *)

HostStates ==
    [pc : {"idle", "kernel", "flush", "request", "waiting", "stopping", "down"},
     graph : BOOLEAN, launch : Nat, completed : BOOLEAN, drained : BOOLEAN, awaited : Nat]

RequestRecord == [launch : Nat, completed : BOOLEAN, drained : BOOLEAN]

HostType ==
    /\ host \in HostStates
    /\ nextId \in Nat \ {0}
    /\ rpc \in {"take", "finish", "recv", "parse", "last_finish", "close", "exited"}
    /\ barrier \in Nat /\ taken_barrier \in Nat /\ finished_barrier \in Nat
    /\ recv_thread_done \in {"WORKING", "STOP", "FINISHED"}

QueueType ==
    /\ device \in Seq(Records) /\ chunk \in Seq(Records)
    /\ taken \in Seq(RequestRecord) /\ pending \in Seq(RequestRecord)
    /\ graph_launches \in Seq(Launches)

FileType ==
    /\ pushed \in [Launches -> Nat]
    /\ writers \in [Launches -> Writer \cup {None}]
    /\ footer \in [Launches -> FooterRecord \cup {None}]
    /\ tables \subseteq Launches
    /\ harmed \subseteq Nat

CaptureType == HostType /\ QueueType /\ FileType

(* Where the threads are: only the parsing receiver holds records, the     *)
(* nodes of a graph are those of the launch under way, and nothing is      *)
(* requested after the receiver took its last requests.                    *)
ThreadsAgree ==
    /\ rpc # "parse" => chunk = <<>>
    /\ (host.pc \notin {"kernel", "flush", "request"} \/ ~host.graph) => graph_launches = <<>>
    /\ rpc \in {"last_finish", "close", "exited"} => recv_thread_done # "WORKING" /\ pending = <<>>
    /\ rpc \notin {"finish", "last_finish"} => taken = <<>>
    /\ recv_thread_done # "WORKING" => host.pc \in {"stopping", "down"}

(* A boundary the receiver begins after an unload finds the channel empty. *)
BoundariesAreClean ==
    /\ finished_barrier <= taken_barrier /\ taken_barrier <= barrier
    /\ ~channel_failed /\ host.pc \notin {"kernel", "flush"} => device = <<>>
    /\ ~channel_failed /\ host.pc = "waiting" /\ taken_barrier >= host.awaited => chunk = <<>>

(* Ids are given once, in order, and a launch is left before it is         *)
(* requested.                                                              *)
IdsInOrder ==
    /\ \A l \in Live \cup Requested : l \in Launches /\ l < nextId
    /\ Live \cap Requested = {}

CapturesInOrder ==
    \A l \in Launches :
       /\ writers[l] # None => l \in Live \cup Requested
       /\ footer[l] # None => l < nextId /\ l \notin Live
       /\ l >= nextId => pushed[l] = 0

RecordsInOrder ==
    /\ \A r \in Elements(device) \cup Elements(chunk) : r.launch < nextId
    /\ ~channel_failed => \A r \in Elements(device) : r.launch \in Live
    /\ Elements(graph_launches) \subseteq tables
    /\ Elements(graph_launches) \subseteq harmed

LaunchesInOrder == IdsInOrder /\ CapturesInOrder /\ RecordsInOrder

(* While the channel is trusted every record is somewhere.                 *)
RecordsAreKept ==
    ~channel_failed =>
       \A l \in Launches : writers[l] # None =>
          pushed[l] = CountOf(device, l) + CountOf(chunk, l) + Total(writers[l])

(* A writer's fault is a fault of its launch.                              *)
FaultsAreKnown ==
    /\ \A l \in Launches : writers[l] # None =>
         /\ Sane(writers[l])
         /\ ~channel_failed /\ l \notin harmed => Sound(writers[l])
    /\ ~channel_failed => \A q \in Requests :
         (q.completed /\ q.drained) \/ q.launch \in harmed

FilesAgree == FileType /\ RecordsAreKept /\ FaultsAreKnown /\ FootersAreTrue

CaptureInv ==
    /\ CaptureType /\ ThreadsAgree /\ BoundariesAreClean /\ LaunchesInOrder
    /\ FilesAgree /\ TablesOutliveRecords

-----------------------------------------------------------------------------
(* Sequences: their elements and how many records of a launch they hold.   *)

LEMMA EmptyHasNone ==
    /\ Elements(<<>>) = {}
    /\ \A l : CountOf(<<>>, l) = 0
<1>1. DOMAIN <<>> = {}
  OBVIOUS
<1> QED BY <1>1, FS_EmptySet DEF Elements, CountOf

LEMMA ElementsAppend ==
    ASSUME NEW S, NEW s \in Seq(S), NEW x \in S
    PROVE  /\ Append(s, x) \in Seq(S)
           /\ Elements(Append(s, x)) = Elements(s) \cup {x}
<1>1. /\ Append(s, x) \in Seq(S) /\ Len(Append(s, x)) = Len(s) + 1
      /\ DOMAIN s = 1..Len(s) /\ DOMAIN Append(s, x) = 1..(Len(s) + 1)
      /\ Append(s, x)[Len(s) + 1] = x /\ Len(s) \in Nat
      /\ \A i \in 1..Len(s) : Append(s, x)[i] = s[i]
  OBVIOUS
<1>2. 1..(Len(s) + 1) = (1..Len(s)) \cup {Len(s) + 1}
  BY <1>1
<1> QED BY <1>1, <1>2 DEF Elements

LEMMA ConcatParts ==
    ASSUME NEW S, NEW a \in Seq(S), NEW b \in Seq(S)
    PROVE  /\ a \o b \in Seq(S)
           /\ Len(a) \in Nat /\ Len(b) \in Nat
           /\ DOMAIN a = 1..Len(a) /\ DOMAIN b = 1..Len(b)
           /\ DOMAIN (a \o b) = 1..(Len(a) + Len(b))
           /\ \A i \in 1..Len(a) : (a \o b)[i] = a[i]
           /\ \A i \in 1..Len(b) : (a \o b)[Len(a) + i] = b[i]
OBVIOUS

LEMMA ElementsConcat ==
    ASSUME NEW S, NEW a \in Seq(S), NEW b \in Seq(S)
    PROVE  a \o b \in Seq(S) /\ Elements(a \o b) = Elements(a) \cup Elements(b)
<1>1. \A i \in 1..(Len(a) + Len(b)) :
         i \in 1..Len(a) \/ \E j \in 1..Len(b) : i = Len(a) + j
  <2> SUFFICES ASSUME NEW i \in 1..(Len(a) + Len(b)), i \notin 1..Len(a)
               PROVE  \E j \in 1..Len(b) : i = Len(a) + j
    OBVIOUS
  <2>1. i - Len(a) \in 1..Len(b) /\ i = Len(a) + (i - Len(a))
    BY ConcatParts
  <2> QED BY <2>1
<1>2. \A i \in 1..Len(a) : i \in 1..(Len(a) + Len(b))
  BY ConcatParts
<1>3. \A i \in 1..Len(b) : Len(a) + i \in 1..(Len(a) + Len(b))
  BY ConcatParts
<1>4. Elements(a) \cup Elements(b) \subseteq Elements(a \o b)
  <2>1. ASSUME NEW i \in 1..Len(a) PROVE a[i] \in Elements(a \o b)
    BY <1>2, ConcatParts DEF Elements
  <2>2. ASSUME NEW i \in 1..Len(b) PROVE b[i] \in Elements(a \o b)
    BY <1>3, ConcatParts DEF Elements
  <2> QED BY <2>1, <2>2, ConcatParts DEF Elements
<1>5. ASSUME NEW i \in 1..(Len(a) + Len(b)) PROVE (a \o b)[i] \in Elements(a) \cup Elements(b)
  <2>1. CASE i \in 1..Len(a)
    BY <2>1, ConcatParts DEF Elements
  <2>2. ASSUME NEW j \in 1..Len(b), i = Len(a) + j PROVE (a \o b)[i] \in Elements(b)
    BY <2>2, ConcatParts DEF Elements
  <2> QED BY <1>1, <2>1, <2>2
<1>6. Elements(a \o b) \subseteq Elements(a) \cup Elements(b)
  BY <1>5, ConcatParts DEF Elements
<1> QED BY <1>4, <1>6, ConcatParts

(* The records of launch l in a, and in b shifted behind a, are those of   *)
(* a \o b.                                                                 *)
LEMMA CountConcat ==
    ASSUME NEW S, NEW a \in Seq(S), NEW b \in Seq(S), NEW l
    PROVE  CountOf(a \o b, l) = CountOf(a, l) + CountOf(b, l)
<1> DEFINE A == {i \in DOMAIN a : a[i].launch = l}
           B == {i \in DOMAIN b : b[i].launch = l}
           C == {i \in DOMAIN (a \o b) : (a \o b)[i].launch = l}
           shift == [i \in B |-> Len(a) + i]
           T == {Len(a) + i : i \in B}
<1>1. IsFiniteSet(A) /\ IsFiniteSet(B)
  <2>1. IsFiniteSet(1..Len(a)) /\ IsFiniteSet(1..Len(b))
    BY ConcatParts, FS_Interval
  <2> QED BY <2>1, FS_Subset, ConcatParts
<1>2. ExistsBijection(B, T)
  <2>1. \A i \in B : i \in Nat
    BY ConcatParts
  <2>2. shift \in [B -> T]
    OBVIOUS
  <2>3. \A i, j \in B : shift[i] = shift[j] => i = j
    BY <2>1, ConcatParts
  <2>4. \A t \in T : \E i \in B : shift[i] = t
    OBVIOUS
  <2>5. shift \in Bijection(B, T)
    BY <2>2, <2>3, <2>4 DEF Bijection, Injection, Surjection, IsInjective
  <2> QED BY <2>5 DEF ExistsBijection
<1>3. IsFiniteSet(T) /\ Cardinality(T) = Cardinality(B)
  BY <1>1, <1>2, FS_Bijection
<1>4. A \cap T = {}
  BY ConcatParts
<1>5. C = A \cup T
  <2>1. ASSUME NEW i \in C PROVE i \in A \cup T
    <3>1. i \in 1..(Len(a) + Len(b)) /\ (a \o b)[i].launch = l
      BY ConcatParts
    <3>2. CASE i \in 1..Len(a)
      BY <3>1, <3>2, ConcatParts
    <3>3. CASE i \notin 1..Len(a)
      <4>1. i - Len(a) \in 1..Len(b) /\ i = Len(a) + (i - Len(a))
        BY <3>1, <3>3, ConcatParts
      <4>2. b[i - Len(a)] = (a \o b)[i]
        BY <4>1, ConcatParts
      <4>3. i - Len(a) \in B
        BY <3>1, <4>1, <4>2, ConcatParts
      <4> QED BY <4>1, <4>3
    <3> QED BY <3>2, <3>3
  <2>2. ASSUME NEW i \in A PROVE i \in C
    <3>1. i \in 1..Len(a) /\ i \in 1..(Len(a) + Len(b))
      BY ConcatParts
    <3> QED BY <3>1, ConcatParts
  <2>3. ASSUME NEW i \in B PROVE Len(a) + i \in C
    <3>1. i \in 1..Len(b) /\ Len(a) + i \in 1..(Len(a) + Len(b))
      BY ConcatParts
    <3> QED BY <3>1, ConcatParts
  <2> QED BY <2>1, <2>2, <2>3
<1>6. Cardinality(A \cup T) = Cardinality(A) + Cardinality(T) - Cardinality(A \cap T)
  BY <1>1, <1>3, FS_Union
<1>7. Cardinality(A) \in Nat /\ Cardinality(T) \in Nat /\ Cardinality(A \cap T) = 0
  BY <1>1, <1>3, <1>4, FS_CardinalityType, FS_EmptySet
<1>8. CountOf(a \o b, l) = Cardinality(C) /\ CountOf(a, l) = Cardinality(A)
      /\ CountOf(b, l) = Cardinality(B)
  BY DEF CountOf
<1> HIDE DEF A, B, C, T
<1> QED BY <1>3, <1>5, <1>6, <1>7, <1>8

LEMMA CountType ==
    ASSUME NEW S, NEW s \in Seq(S), NEW l
    PROVE  CountOf(s, l) \in Nat
<1>1. DOMAIN s = 1..Len(s) /\ Len(s) \in Nat
  OBVIOUS
<1>2. IsFiniteSet(1..Len(s)) /\ {i \in DOMAIN s : s[i].launch = l} \in SUBSET (1..Len(s))
  BY <1>1, FS_Interval
<1>3. IsFiniteSet({i \in DOMAIN s : s[i].launch = l})
  BY <1>2, FS_Subset
<1> QED BY <1>3, FS_CardinalityType DEF CountOf

(* A launch with no element has no records.                                *)
LEMMA CountNone ==
    ASSUME NEW s, NEW l, \A r \in Elements(s) : r.launch # l
    PROVE  CountOf(s, l) = 0
<1>1. {i \in DOMAIN s : s[i].launch = l} = {}
  BY DEF Elements
<1> QED BY <1>1, FS_EmptySet DEF CountOf

LEMMA CountSingleton ==
    ASSUME NEW x, NEW l
    PROVE  CountOf(<<x>>, l) = IF x.launch = l THEN 1 ELSE 0
<1>1. DOMAIN <<x>> = {1} /\ <<x>>[1] = x
  OBVIOUS
<1>2. {i \in {1} : <<x>>[i].launch = l} = IF x.launch = l THEN {1} ELSE {}
  BY <1>1
<1> QED BY <1>1, <1>2, FS_Singleton, FS_EmptySet DEF CountOf

LEMMA CountAppend ==
    ASSUME NEW S, NEW s \in Seq(S), NEW x \in S, NEW l
    PROVE  CountOf(Append(s, x), l) = CountOf(s, l) + IF x.launch = l THEN 1 ELSE 0
<1>1. <<x>> \in Seq(S) /\ Append(s, x) = s \o <<x>>
  OBVIOUS
<1>2. CountOf(s \o <<x>>, l) = CountOf(s, l) + CountOf(<<x>>, l)
  BY <1>1, CountConcat
<1> QED BY <1>1, <1>2, CountSingleton

LEMMA HeadAndTail ==
    ASSUME NEW S, NEW s \in Seq(S), s # <<>>
    PROVE  /\ Head(s) \in S /\ Tail(s) \in Seq(S)
           /\ Elements(s) = {Head(s)} \cup Elements(Tail(s))
           /\ \A l : CountOf(s, l) = CountOf(Tail(s), l) + IF Head(s).launch = l THEN 1 ELSE 0
<1>1. Head(s) \in S /\ Tail(s) \in Seq(S) /\ <<Head(s)>> \in Seq(S)
  OBVIOUS
<1>2. s = <<Head(s)>> \o Tail(s)
  OBVIOUS
<1>3. Elements(<<Head(s)>>) = {Head(s)}
  BY DEF Elements
<1> DEFINE h == <<Head(s)>>
           t == Tail(s)
<1>4. Elements(s) = {Head(s)} \cup Elements(t)
  <2>1. h \in Seq(S) /\ t \in Seq(S) /\ s = h \o t /\ Elements(h) = {Head(s)}
    BY <1>1, <1>2, <1>3
  <2> HIDE DEF h, t
  <2>2. Elements(h \o t) = Elements(h) \cup Elements(t)
    BY <2>1, ElementsConcat
  <2> QED BY <2>1, <2>2
<1>5. ASSUME NEW l
      PROVE  CountOf(s, l) = CountOf(Tail(s), l) + IF Head(s).launch = l THEN 1 ELSE 0
  <2>1. /\ h \in Seq(S) /\ t \in Seq(S) /\ s = h \o t
        /\ CountOf(h, l) = IF Head(s).launch = l THEN 1 ELSE 0
    BY <1>1, <1>2, CountSingleton
  <2> HIDE DEF h, t
  <2>2. CountOf(h \o t, l) = CountOf(h, l) + CountOf(t, l)
    BY <2>1, CountConcat
  <2>3. CountOf(t, l) \in Nat
    BY <2>1, CountType
  <2>4. CountOf(s, l) = CountOf(t, l) + IF Head(s).launch = l THEN 1 ELSE 0
    BY <2>1, <2>2, <2>3
  <2> QED BY <2>4 DEF t
<1> QED BY <1>1, <1>4, <1>5

LEMMA SplitAt ==
    ASSUME NEW S, NEW s \in Seq(S), NEW n \in 0..Len(s)
    PROVE  /\ SubSeq(s, 1, n) \in Seq(S) /\ SubSeq(s, n + 1, Len(s)) \in Seq(S)
           /\ Elements(s) = Elements(SubSeq(s, 1, n)) \cup Elements(SubSeq(s, n + 1, Len(s)))
           /\ \A l : CountOf(s, l) = CountOf(SubSeq(s, 1, n), l)
                                        + CountOf(SubSeq(s, n + 1, Len(s)), l)
<1> DEFINE a == SubSeq(s, 1, n)
           b == SubSeq(s, n + 1, Len(s))
<1>1. a \in Seq(S) /\ b \in Seq(S)
  OBVIOUS
<1>2. s = a \o b
  <2>1. 1 \in 1..(Len(s) + 1) /\ n \in (1 - 1)..Len(s) /\ Len(s) \in n..Len(s)
    OBVIOUS
  <2>2. a \o b = SubSeq(s, 1, Len(s))
    BY <2>1, ConcatAdjacentSubSeq
  <2> QED BY <2>2, SubSeqFull
<1> HIDE DEF a, b
<1>3. Elements(s) = Elements(a) \cup Elements(b)
  BY <1>1, <1>2, ElementsConcat
<1>4. ASSUME NEW l PROVE CountOf(s, l) = CountOf(a, l) + CountOf(b, l)
  BY <1>1, <1>2, CountConcat
<1> QED BY <1>1, <1>3, <1>4 DEF a, b

-----------------------------------------------------------------------------
(* The writer's operations lose no record and count none twice.            *)

LEMMA OutcomesAreBoolean == DiskOutcomes \subseteq BOOLEAN
BY DEF DiskOutcomes

LEMMA NewWriterIs ==
    ASSUME NEW opened \in BOOLEAN
    PROVE  LET w == NewWriter(opened) IN
             w \in Writer /\ Sane(w) /\ Total(w) = 0 /\ (opened => Sound(w))
BY DEF NewWriter, Writer, Sane, Total, Sound

LEMMA FlushKeeps ==
    ASSUME NEW w \in Writer, Sane(w), NEW ok \in BOOLEAN
    PROVE  LET f == Flush(w, ok) IN
             /\ f \in Writer /\ Sane(f) /\ Total(f) = Total(w) /\ f.buffered = 0
             /\ w.errors => f.errors
             /\ ok /\ Sound(w) => Sound(f)
<1> DEFINE f == Flush(w, ok)
<1>1. CASE ~w.enabled
  <2>1. f = w /\ w.buffered = 0 /\ ~Sound(w)
    BY <1>1 DEF Flush, Sane, Sound
  <2> HIDE DEF f
  <2> QED BY <2>1 DEF f
<1>2. CASE w.enabled /\ ok
  <2>1. /\ f \in Writer /\ f.errors = w.errors /\ f.enabled = w.enabled
        /\ f.accepting = w.accepting
        /\ f.buffered = 0 /\ f.written = w.written + w.buffered /\ f.dropped = w.dropped
        /\ w.buffered \in Nat /\ w.written \in Nat /\ w.dropped \in Nat
    <3>1. f = [w EXCEPT !.written = @ + w.buffered, !.buffered = 0]
      BY <1>2 DEF Flush
    <3> HIDE DEF f
    <3>2. f = [enabled |-> w.enabled, accepting |-> w.accepting, errors |-> w.errors,
               buffered |-> 0, written |-> w.written + w.buffered, dropped |-> w.dropped]
      BY <3>1 DEF Writer
    <3> QED BY <3>2 DEF Writer
  <2> HIDE DEF f
  <2>2. Sane(f) /\ Total(f) = Total(w) /\ (w.errors => f.errors) /\ (Sound(w) => Sound(f))
    BY <2>1 DEF Sane, Total, Sound
  <2> QED BY <2>1, <2>2 DEF f
<1>3. CASE w.enabled /\ ~ok
  <2>1. /\ f \in Writer /\ f.errors = TRUE
        /\ f.buffered = 0 /\ f.written = w.written /\ f.dropped = w.dropped + w.buffered
        /\ w.buffered \in Nat /\ w.written \in Nat /\ w.dropped \in Nat
    <3>1. f = [w EXCEPT !.dropped = @ + w.buffered, !.buffered = 0, !.errors = TRUE,
                        !.enabled = FALSE]
      BY <1>3 DEF Flush
    <3> HIDE DEF f
    <3>2. f = [enabled |-> FALSE, accepting |-> w.accepting, errors |-> TRUE, buffered |-> 0,
               written |-> w.written, dropped |-> w.dropped + w.buffered]
      BY <3>1 DEF Writer
    <3> QED BY <3>2 DEF Writer
  <2> HIDE DEF f
  <2>2. Sane(f) /\ Total(f) = Total(w) /\ f.errors
    BY <2>1 DEF Sane, Total
  <2> QED BY <1>3, <2>1, <2>2 DEF f
<1> QED BY <1>1, <1>2, <1>3

LEMMA MarkKeeps ==
    ASSUME NEW w \in Writer, Sane(w)
    PROVE  LET f == MarkCaptureError(w) IN
             f \in Writer /\ Sane(f) /\ Total(f) = Total(w) /\ f.errors
<1> DEFINE f == MarkCaptureError(w)
<1>1. /\ f \in Writer /\ f.errors = TRUE /\ f.enabled = w.enabled
      /\ f.buffered = w.buffered /\ f.written = w.written /\ f.dropped = w.dropped
  BY DEF MarkCaptureError, Writer
<1> HIDE DEF f
<1>2. Sane(f) /\ Total(f) = Total(w) /\ f.errors
  BY <1>1 DEF Sane, Total
<1> QED BY <1>1, <1>2 DEF f

LEMMA BufferAdds ==
    ASSUME NEW w \in Writer, w.enabled, NEW e \in BOOLEAN
    PROVE  LET v == [w EXCEPT !.buffered = @ + 1, !.errors = e] IN
             /\ v \in Writer /\ Sane(v) /\ Total(v) = Total(w) + 1
             /\ ~e /\ Sound(w) => Sound(v)
<1> DEFINE v == [w EXCEPT !.buffered = @ + 1, !.errors = e]
<1>1. v = [w EXCEPT !.buffered = @ + 1, !.errors = e]
  OBVIOUS
<1> HIDE DEF v
<1>2. v = [enabled |-> w.enabled, accepting |-> w.accepting, errors |-> e,
           buffered |-> w.buffered + 1, written |-> w.written, dropped |-> w.dropped]
  BY <1>1 DEF Writer
<1>3. /\ v \in Writer /\ v.errors = e /\ v.enabled = w.enabled /\ v.accepting = w.accepting
      /\ v.buffered = w.buffered + 1 /\ v.written = w.written /\ v.dropped = w.dropped
  BY <1>2 DEF Writer
<1>4. w.buffered \in Nat /\ w.written \in Nat /\ w.dropped \in Nat
  BY DEF Writer
<1>5. Sane(v) /\ Total(v) = Total(w) + 1 /\ (~e /\ Sound(w) => Sound(v))
  BY <1>3, <1>4 DEF Sane, Total, Sound
<1> QED BY <1>3, <1>5 DEF v

LEMMA WriteAdds ==
    ASSUME NEW w \in Writer, Sane(w), NEW known \in BOOLEAN, NEW full \in BOOLEAN,
           NEW ok \in BOOLEAN
    PROVE  LET f == WriteTrace(w, known, full, ok) IN
             /\ f \in Writer /\ Sane(f) /\ Total(f) = Total(w) + 1
             /\ known /\ (full => ok) /\ Sound(w) => Sound(f)
<1> DEFINE v == [w EXCEPT !.buffered = @ + 1, !.errors = @ \/ ~known]
<1>1. CASE ~is_enabled(w)
  BY <1>1 DEF WriteTrace, is_enabled, Writer, Sane, Total, Sound
<1>2. CASE is_enabled(w)
  <2>1. PICK e \in BOOLEAN : e = (w.errors \/ ~known)
    OBVIOUS
  <2>2. v = [w EXCEPT !.buffered = @ + 1, !.errors = e] /\ w.enabled
    BY <1>2, <2>1, Zenon DEF is_enabled
  <2> HIDE DEF v
  <2>3. /\ v \in Writer /\ Sane(v) /\ Total(v) = Total(w) + 1
        /\ ~e /\ Sound(w) => Sound(v)
    BY <2>2, BufferAdds
  <2>4. known /\ Sound(w) => Sound(v)
    BY <2>1, <2>3 DEF Sound
  <2>5. WriteTrace(w, known, full, ok) = IF full THEN Flush(v, ok) ELSE v
    BY <1>2 DEF WriteTrace, v
  <2> QED BY <2>3, <2>4, <2>5, FlushKeeps
<1> QED BY <1>1, <1>2

LEMMA DropAdds ==
    ASSUME NEW w \in Writer, Sane(w)
    PROVE  LET f == DropRecord(w) IN
             f \in Writer /\ Sane(f) /\ Total(f) = Total(w) + 1
<1> DEFINE f == DropRecord(w)
<1>1. w.buffered \in Nat /\ w.written \in Nat /\ w.dropped \in Nat
  BY DEF Writer
<1>2. f = [w EXCEPT !.errors = TRUE, !.dropped = w.dropped + 1]
  BY DEF DropRecord
<1> HIDE DEF f
<1>3. f = [enabled |-> w.enabled, accepting |-> w.accepting, errors |-> TRUE,
           buffered |-> w.buffered, written |-> w.written, dropped |-> w.dropped + 1]
  BY <1>1, <1>2 DEF Writer
<1>4. /\ f \in Writer /\ f.enabled = w.enabled
      /\ f.buffered = w.buffered /\ f.written = w.written /\ f.dropped = w.dropped + 1
  BY <1>1, <1>3 DEF Writer
<1>5. Sane(f) /\ Total(f) = Total(w) + 1
  BY <1>1, <1>4 DEF Sane, Total
<1> QED BY <1>4, <1>5 DEF f

LEMMA DisableKeeps ==
    ASSUME NEW w \in Writer, Sane(w), NEW ok \in BOOLEAN
    PROVE  LET f == Disable(w, ok) IN f \in Writer /\ Sane(f) /\ Total(f) = Total(w)
<1> DEFINE v == [w EXCEPT !.errors = TRUE]
           f == Flush(v, ok)
<1>1. v \in Writer /\ Sane(v) /\ Total(v) = Total(w)
  BY DEF Writer, Sane, Total
<1>2. f \in Writer /\ Sane(f) /\ Total(f) = Total(w)
  <2> HIDE DEF v
  <2> QED BY <1>1, FlushKeeps
<1>3. Disable(w, ok) = [f EXCEPT !.accepting = FALSE]
  BY DEF Disable
<1> HIDE DEF f
<1> QED BY <1>2, <1>3 DEF Writer, Sane, Total

(* finish accounts for every record the writer was given, and is complete  *)
(* exactly when nothing went wrong.                                        *)
LEMMA FooterAccounts ==
    ASSUME NEW w \in Writer, Sane(w), NEW completed \in BOOLEAN, NEW drained \in BOOLEAN,
           NEW ok \in BOOLEAN
    PROVE  LET f == Footer(w, completed, drained, ok) IN
             /\ f \in FooterRecord
             /\ f.written + f.dropped = Total(w)
             /\ f.status = "complete" => f.dropped = 0 /\ ~w.errors
             /\ Sound(w) /\ completed /\ drained /\ ok => f.status = "complete"
<1> DEFINE v == Flush(w, ok)
<1>1. /\ v \in Writer /\ Total(v) = Total(w) /\ v.buffered = 0
      /\ w.errors => v.errors
      /\ ok /\ Sound(w) => Sound(v)
  BY FlushKeeps
<1>2. Footer(w, completed, drained, ok) =
        [status |-> IF ~v.enabled THEN "unavailable"
                    ELSE IF v.errors \/ ~completed \/ ~drained \/ v.dropped > 0
                    THEN "incomplete" ELSE "complete",
         written |-> v.written, dropped |-> v.dropped]
  BY DEF Footer
<1> HIDE DEF v
<1> QED BY <1>1, <1>2 DEF FooterRecord, Writer, Total, Sound

-----------------------------------------------------------------------------
LEMMA CaptureStart == Init => CaptureInv
<1> SUFFICES ASSUME Init PROVE CaptureInv
  OBVIOUS
<1> USE DEF Init
<1>1. CaptureType
  <2>1. IdleHost \in HostStates
    BY DEF IdleHost, HostStates
  <2>2. HostType
    <3>1. /\ host = IdleHost /\ nextId = 1 /\ rpc = "take"
          /\ barrier = 0 /\ taken_barrier = 0 /\ finished_barrier = 0
          /\ recv_thread_done = "WORKING"
      OBVIOUS
    <3> QED BY <2>1, <3>1 DEF HostType
  <2>3. QueueType
    BY DEF QueueType
  <2>4. FileType
    BY DEF FileType
  <2> QED BY <2>2, <2>3, <2>4 DEF CaptureType
<1>2. Live = {} /\ Requests = {} /\ Requested = {}
  BY EmptyHasNone DEF Live, Requests, Requested, IdleHost
<1>3. ThreadsAgree /\ BoundariesAreClean
  BY DEF ThreadsAgree, BoundariesAreClean, IdleHost
<1>4. LaunchesInOrder
  BY <1>2, EmptyHasNone DEF LaunchesInOrder, IdsInOrder, CapturesInOrder, RecordsInOrder
<1>5. RecordsAreKept /\ FaultsAreKnown /\ FootersAreTrue /\ TablesOutliveRecords
  BY <1>2, EmptyHasNone
     DEF RecordsAreKept, FaultsAreKnown, FootersAreTrue, TablesOutliveRecords
<1> QED BY <1>1, <1>3, <1>4, <1>5 DEF CaptureInv, CaptureType, FilesAgree

-----------------------------------------------------------------------------
(* Where each step takes the application thread.                           *)

LEMMA IdleIs ==
    /\ IdleHost \in HostStates
    /\ IdleHost.pc = "idle" /\ IdleHost.graph = FALSE
BY DEF IdleHost, HostStates

LEMMA ReachesIs ==
    ASSUME host \in HostStates,
           NEW p \in {"idle", "kernel", "flush", "request", "waiting", "stopping", "down"}
    PROVE  /\ Reaches(p) \in HostStates
           /\ Reaches(p).pc = p /\ Reaches(p).graph = host.graph /\ Reaches(p).launch = host.launch
BY DEF Reaches, HostStates

LEMMA EnterKernelHost ==
    ASSUME EnterKernelLaunch, nextId \in Nat
    PROVE  /\ host' \in HostStates
           /\ host'.pc = "kernel" /\ host'.graph = FALSE /\ host'.launch = nextId
BY DEF EnterKernelLaunch, IdleHost, HostStates

LEMMA EnterGraphHost ==
    ASSUME EnterGraphLaunch
    PROVE  host' \in HostStates /\ host'.pc = "kernel" /\ host'.graph = TRUE
BY DEF EnterGraphLaunch, IdleHost, HostStates

LEMMA SynchronizeHost ==
    ASSUME SynchronizeKernel, host \in HostStates
    PROVE  /\ host' \in HostStates
           /\ host'.graph = host.graph /\ host'.launch = host.launch
           /\ \/ host'.pc = "flush" /\ UNCHANGED channel_failed
              \/ host'.pc = "request" /\ channel_failed' = TRUE
<1>1. ASSUME NEW succeeded \in BOOLEAN, host' = [Reaches("flush") EXCEPT !.completed = succeeded],
             UNCHANGED channel_failed
      PROVE  host' \in HostStates /\ host'.graph = host.graph /\ host'.launch = host.launch
             /\ host'.pc = "flush"
  BY <1>1, ReachesIs DEF HostStates
<1> QED BY <1>1, ReachesIs DEF SynchronizeKernel

LEMMA FlushHost ==
    ASSUME FlushChannel, host \in HostStates
    PROVE  /\ host' \in HostStates
           /\ host'.pc = "request" /\ host'.graph = host.graph /\ host'.launch = host.launch
           /\ \/ device = <<>> /\ UNCHANGED channel_failed
              \/ channel_failed' = TRUE
<1>1. ASSUME host' = [Reaches("request") EXCEPT !.drained = TRUE]
      PROVE  host' \in HostStates /\ host'.graph = host.graph /\ host'.launch = host.launch
             /\ host'.pc = "request"
  BY <1>1, ReachesIs DEF HostStates
<1> QED BY <1>1, ReachesIs DEF FlushChannel

LEMMA UnloadHost ==
    ASSUME UnloadModule, barrier \in Nat
    PROVE  host' \in HostStates /\ host'.pc = "waiting" /\ host'.graph = FALSE
           /\ host'.awaited = barrier + 1
<1>1. host' = [IdleHost EXCEPT !.pc = "waiting", !.awaited = barrier + 1]
  BY DEF UnloadModule
<1>2. host' = [pc |-> "waiting", graph |-> FALSE, launch |-> 0, completed |-> FALSE,
               drained |-> FALSE, awaited |-> barrier + 1]
  BY <1>1 DEF IdleHost
<1> QED BY <1>2 DEF HostStates

LEMMA RequestIs ==
    ASSUME host \in HostStates, NEW l \in Nat
    PROVE  /\ Request(l) \in RequestRecord /\ Request(l).launch = l
           /\ Request(l).completed = host.completed /\ Request(l).drained = host.drained
<1>1. host.completed \in BOOLEAN /\ host.drained \in BOOLEAN
  BY DEF HostStates
<1>2. Request(l) = [launch |-> l, completed |-> host.completed, drained |-> host.drained]
  BY DEF Request
<1>3. /\ Request(l).launch = l
      /\ Request(l).completed = host.completed /\ Request(l).drained = host.drained
  BY <1>1, <1>2
<1>4. Request(l) \in RequestRecord
  BY <1>1, <1>2 DEF RequestRecord
<1> QED BY <1>3, <1>4

(* The steps of the application thread that only move it.                  *)
LEMMA HostTypeStep == ASSUME CaptureInv, [Next]_vars PROVE HostType'
<1> USE DEF CaptureInv, CaptureType, HostType, receiver, barriers, files, context
<1>1. CASE EnterKernelLaunch
  <2>1. nextId' = nextId + 1 /\ UNCHANGED <<receiver, barriers, channel_failed, context>>
    BY <1>1 DEF EnterKernelLaunch
  <2> QED BY <1>1, <2>1, EnterKernelHost
<1>2. CASE EnterGraphLaunch
  <2>1. UNCHANGED <<nextId, receiver, barriers, context>>
    BY <1>2 DEF EnterGraphLaunch
  <2> QED BY <1>2, <2>1, EnterGraphHost
<1>3. CASE GraphNodeLaunch
  <2>1. nextId' = nextId + 1 /\ UNCHANGED <<host, receiver, barriers, channel_failed, context>>
    BY <1>3 DEF GraphNodeLaunch
  <2> QED BY <2>1
<1>14. CASE UnsupportedGraphLaunch
  BY <1>14 DEF UnsupportedGraphLaunch
<1>4. CASE \E l \in Launches : KernelPush(l)
  BY <1>4 DEF KernelPush
<1>5. CASE SynchronizeKernel
  BY <1>5, SynchronizeHost DEF SynchronizeKernel
<1>6. CASE FlushChannel
  BY <1>6, FlushHost DEF FlushChannel
<1>7. CASE RequestCompletion \/ RetireModule
  <2>1. host' = IdleHost /\ UNCHANGED <<nextId, receiver, barriers, context>>
    BY <1>7 DEF RequestCompletion, RetireModule
  <2>2. UNCHANGED channel_failed \/ channel_failed' = TRUE
    BY <1>7 DEF RequestCompletion, RetireModule
  <2> QED BY <2>1, <2>2, IdleIs
<1>8. CASE UnloadModule
  <2>1. barrier' = barrier + 1 /\ UNCHANGED <<nextId, rpc, taken_barrier, finished_barrier,
                                              recv_thread_done>>
    BY <1>8 DEF UnloadModule
  <2> QED BY <1>8, <2>1, UnloadHost
<1>9. CASE TerminateContext \/ ContextGone
  BY <1>9, ReachesIs DEF TerminateContext, ContextGone
<1>10. CASE TakeRequests \/ FinishBoundary
  BY <1>10 DEF TakeRequests, FinishBoundary, FinishedBarrier, AtChunkBoundary
<1>11. CASE FinishRequested \/ ReceiveChunk \/ CloseWriters
  BY <1>11 DEF FinishRequested, ReceiveChunk, CloseWriters
<1>12. CASE ParseCorrupt \/ ParseOrphan \/ ParseRecord \/ PeriodicChecks
  BY <1>12 DEF ParseCorrupt, ParseOrphan, ParseRecord, PeriodicChecks, ChannelFailure
<1>13. CASE UNCHANGED vars
  BY <1>13 DEF vars
<1> QED BY <1>1, <1>2, <1>3, <1>4, <1>5, <1>6, <1>7, <1>8, <1>9, <1>10, <1>11, <1>12, <1>13, <1>14
        DEF Next, Receiver, HostReturns, HostCalls

-----------------------------------------------------------------------------
(* What each step does to the queues.                                      *)

LEMMA GraphNodeQueue ==
    ASSUME CaptureInv, GraphNodeLaunch
    PROVE  /\ graph_launches' \in Seq(Launches)
           /\ Elements(graph_launches') =
                 Elements(graph_launches) \cup (IF channel_failed THEN {} ELSE {nextId})
<1>1. graph_launches \in Seq(Launches) /\ nextId \in Launches
  BY DEF CaptureInv, CaptureType, QueueType, GraphNodeLaunch
<1>2. graph_launches' = IF channel_failed THEN graph_launches ELSE Append(graph_launches, nextId)
  BY DEF GraphNodeLaunch
<1> QED BY <1>1, <1>2, ElementsAppend

LEMMA PushQueue ==
    ASSUME CaptureInv, NEW l \in Launches, KernelPush(l)
    PROVE  /\ device' \in Seq(Records)
           /\ \E r \in Records :
                 r.launch = l /\ Elements(device') = Elements(device) \cup {r}
           /\ \A m : CountOf(device', m) = CountOf(device, m) + IF l = m THEN 1 ELSE 0
<1>1. PICK form \in {"good", "invalid", "corrupt"} :
              device' = Append(device, [launch |-> l, form |-> form])
  BY DEF KernelPush
<1> DEFINE x == [launch |-> l, form |-> form]
<1>2. x \in Records /\ x.launch = l /\ device \in Seq(Records)
  BY DEF Records, CaptureInv, CaptureType, QueueType
<1>3. device' = Append(device, x)
  BY <1>1
<1> HIDE DEF x
<1>4. device' \in Seq(Records) /\ Elements(device') = Elements(device) \cup {x}
  BY <1>2, <1>3, ElementsAppend
<1>5. ASSUME NEW m PROVE CountOf(device', m) = CountOf(device, m) + IF l = m THEN 1 ELSE 0
  BY <1>2, <1>3, CountAppend
<1> QED BY <1>2, <1>4, <1>5

LEMMA RequestQueue ==
    ASSUME CaptureInv, RequestCompletion
    PROVE  /\ pending' \in Seq(RequestRecord)
           /\ Elements(pending') = Elements(pending) \cup {Request(l) : l \in Live}
           /\ graph_launches' = <<>>
<1>1. /\ pending \in Seq(RequestRecord) /\ graph_launches \in Seq(Launches)
      /\ host \in HostStates /\ host.pc = "request"
  BY DEF CaptureInv, CaptureType, QueueType, HostType, RequestCompletion
<1>2. CASE host.graph
  <2> DEFINE new == [i \in DOMAIN graph_launches |-> Request(graph_launches[i])]
  <2>1. pending' = pending \o new /\ graph_launches' = <<>>
    BY <1>2 DEF RequestCompletion
  <2>2. \A i \in DOMAIN graph_launches : Request(graph_launches[i]) \in RequestRecord
    <3>1. \A i \in DOMAIN graph_launches : graph_launches[i] \in Nat
      BY <1>1, LenProperties, ElementOfSeq, CaptureAssumption DEF Launches
    <3> QED BY <1>1, <3>1, RequestIs
  <2>3. new \in Seq(RequestRecord)
    <3>1. DOMAIN graph_launches = 1..Len(graph_launches) /\ Len(graph_launches) \in Nat
      BY <1>1, LenProperties
    <3> HIDE DEF Request
    <3> QED BY <2>2, <3>1
  <2>4. Elements(new) = {Request(l) : l \in Elements(graph_launches)}
    BY DEF Elements
  <2>5. Live = Elements(graph_launches)
    BY <1>1, <1>2 DEF Live
  <2> HIDE DEF new
  <2> QED BY <1>1, <2>1, <2>3, <2>4, <2>5, ElementsConcat
<1>3. CASE ~host.graph
  <2>1. pending' = Append(pending, Request(host.launch)) /\ UNCHANGED graph_launches
    BY <1>3 DEF RequestCompletion
  <2>2. graph_launches = <<>> /\ Live = {host.launch} /\ host.launch \in Nat
    BY <1>1, <1>3 DEF CaptureInv, ThreadsAgree, Live, HostStates
  <2>3. Request(host.launch) \in RequestRecord
    BY <1>1, <2>2, RequestIs
  <2> QED BY <1>1, <2>1, <2>2, <2>3, ElementsAppend
<1> QED BY <1>2, <1>3

LEMMA ReceiveQueue ==
    ASSUME CaptureInv, ReceiveChunk
    PROVE  /\ chunk' \in Seq(Records) /\ device' \in Seq(Records)
           /\ Elements(chunk') \cup Elements(device') = Elements(device)
           /\ device = <<>> => device' = <<>> /\ chunk' = <<>>
           /\ \A l : CountOf(chunk', l) + CountOf(device', l) = CountOf(device, l)
<1>1. chunk = <<>> /\ device \in Seq(Records)
  BY DEF CaptureInv, CaptureType, QueueType, ThreadsAgree, ReceiveChunk
<1>2. PICK n \in 0..Len(device) : chunk' = chunk \o SubSeq(device, 1, n)
                                 /\ device' = SubSeq(device, n + 1, Len(device))
  BY DEF ReceiveChunk
<1>3. SubSeq(device, 1, n) \in Seq(Records)
  BY <1>1, <1>2, SplitAt
<1>4. chunk' = SubSeq(device, 1, n)
  BY <1>1, <1>2, <1>3, ConcatEmptySeq
<1>5. device = <<>> => device' = <<>> /\ chunk' = <<>>
  BY <1>2, <1>4
<1>6. device' \in Seq(Records) /\ Elements(chunk') \cup Elements(device') = Elements(device)
  BY <1>1, <1>2, <1>4, SplitAt
<1>7. \A l : CountOf(device, l) = CountOf(chunk', l) + CountOf(device', l)
  BY <1>1, <1>2, <1>4, SplitAt
<1> QED BY <1>3, <1>4, <1>5, <1>6, <1>7

LEMMA QueueTypeStep == ASSUME CaptureInv, [Next]_vars PROVE QueueType'
<1> USE DEF CaptureInv, CaptureType, QueueType
<1>1. CASE GraphNodeLaunch
  BY <1>1, GraphNodeQueue DEF GraphNodeLaunch, receiver
<1>2. ASSUME NEW l \in Launches, KernelPush(l) PROVE QueueType'
  BY <1>2, PushQueue DEF KernelPush, receiver
<1>3. CASE RequestCompletion
  <2>1. UNCHANGED <<device, receiver>>
    BY <1>3 DEF RequestCompletion
  <2> QED BY <1>3, <2>1, RequestQueue DEF receiver
<1>4. CASE TakeRequests
  BY <1>4 DEF TakeRequests
<1>5. CASE FinishRequested
  <2>1. taken' = Tail(taken) /\ taken # <<>> /\ UNCHANGED <<device, chunk, pending, graph_launches>>
    BY <1>5 DEF FinishRequested
  <2> QED BY <2>1, HeadAndTail
<1>6. CASE ReceiveChunk
  BY <1>6, ReceiveQueue DEF ReceiveChunk
<1>7. CASE ParseCorrupt \/ ParseOrphan \/ ParseRecord
  <2>1. /\ chunk' = Tail(chunk) \/ chunk' = <<>>
        /\ chunk # <<>> /\ UNCHANGED <<device, taken, pending, graph_launches>>
    BY <1>7 DEF ParseCorrupt, ParseOrphan, ParseRecord
  <2>2. Tail(chunk) \in Seq(Records) /\ <<>> \in Seq(Records)
    BY <2>1, HeadAndTail
  <2> QED BY <2>1, <2>2
<1>8. CASE UNCHANGED <<device, chunk, taken, pending, graph_launches>>
  BY <1>8
<1>9. \/ EnterKernelLaunch \/ EnterGraphLaunch \/ UnsupportedGraphLaunch \/ SynchronizeKernel
      \/ FlushChannel \/ UnloadModule \/ RetireModule \/ TerminateContext \/ ContextGone
      => UNCHANGED <<device, chunk, taken, pending, graph_launches>>
  BY DEF EnterKernelLaunch, EnterGraphLaunch, UnsupportedGraphLaunch, SynchronizeKernel,
         FlushChannel, UnloadModule, RetireModule, TerminateContext, ContextGone, receiver
<1>10. FinishBoundary \/ PeriodicChecks \/ CloseWriters \/ UNCHANGED vars
       => UNCHANGED <<device, chunk, taken, pending, graph_launches>>
  BY DEF FinishBoundary, PeriodicChecks, CloseWriters, vars, receiver
<1> QED BY <1>1, <1>2, <1>3, <1>4, <1>5, <1>6, <1>7, <1>8, <1>9, <1>10
        DEF Next, Receiver, HostReturns, HostCalls

-----------------------------------------------------------------------------
(* The threads and the boundaries.                                         *)

LEMMA ThreadsStep == ASSUME CaptureInv, [Next]_vars PROVE ThreadsAgree'
<1> USE DEF CaptureInv, ThreadsAgree
<1>0. host \in HostStates /\ nextId \in Nat /\ barrier \in Nat
      /\ rpc \in {"take", "finish", "recv", "parse", "last_finish", "close", "exited"}
  BY DEF CaptureType, HostType
<1>1. CASE EnterKernelLaunch
  <2>1. host.pc = "idle" /\ UNCHANGED <<receiver, pending, graph_launches, context>>
    BY <1>1 DEF EnterKernelLaunch
  <2> QED BY <1>0, <1>1, <2>1, EnterKernelHost DEF receiver, context
<1>2. CASE EnterGraphLaunch
  <2>1. host.pc = "idle" /\ UNCHANGED <<receiver, pending, graph_launches, context>>
    BY <1>2 DEF EnterGraphLaunch
  <2> QED BY <1>0, <1>2, <2>1, EnterGraphHost DEF receiver, context
<1>3. CASE GraphNodeLaunch
  <2>1. host.pc = "kernel" /\ host.graph /\ UNCHANGED <<host, receiver, pending, context>>
    BY <1>3 DEF GraphNodeLaunch
  <2> QED BY <2>1 DEF receiver, context
<1>4. CASE UnsupportedGraphLaunch \/ \E l \in Launches : KernelPush(l)
  <2>1. UNCHANGED <<host, receiver, pending, graph_launches, context>>
    BY <1>4 DEF UnsupportedGraphLaunch, KernelPush
  <2> QED BY <2>1 DEF receiver, context
<1>5. CASE SynchronizeKernel
  <2>1. host.pc = "kernel" /\ UNCHANGED <<receiver, pending, graph_launches, context>>
    BY <1>5 DEF SynchronizeKernel
  <2> QED BY <1>0, <1>5, <2>1, SynchronizeHost DEF receiver, context
<1>6. CASE FlushChannel
  <2>1. host.pc = "flush" /\ UNCHANGED <<receiver, pending, graph_launches, context>>
    BY <1>6 DEF FlushChannel
  <2> QED BY <1>0, <1>6, <2>1, FlushHost DEF receiver, context
<1>7. CASE RequestCompletion
  <2>1. host.pc = "request" /\ UNCHANGED <<receiver, context>>
    BY <1>7 DEF RequestCompletion
  <2> QED BY <1>7, <2>1, RequestQueue DEF receiver, context
<1>8. CASE UnloadModule
  <2>1. host.pc = "idle" /\ UNCHANGED <<receiver, pending, graph_launches, recv_thread_done>>
    BY <1>8 DEF UnloadModule
  <2> QED BY <1>0, <1>8, <2>1, UnloadHost DEF receiver
<1>9. CASE RetireModule
  <2>1. /\ host.pc = "waiting" /\ host' = IdleHost
        /\ UNCHANGED <<receiver, pending, graph_launches, context>>
    BY <1>9 DEF RetireModule
  <2> QED BY <2>1, IdleIs DEF receiver, context
<1>10. CASE TerminateContext \/ ContextGone
  <2>1. /\ host.pc \in {"idle", "stopping"} /\ UNCHANGED <<receiver, pending, graph_launches>>
        /\ host' = Reaches("stopping") \/ host' = Reaches("down")
        /\ recv_thread_done' \in {"STOP", recv_thread_done}
        /\ recv_thread_done' # "WORKING"
    BY <1>10 DEF TerminateContext, ContextGone, context
  <2> QED BY <1>0, <2>1, ReachesIs DEF receiver
<1>11. CASE TakeRequests
  BY <1>0, <1>11 DEF TakeRequests, AtChunkBoundary, context
<1>12. CASE FinishRequested
  <2>1. /\ rpc \in {"finish", "last_finish"}
        /\ UNCHANGED <<host, rpc, chunk, pending, graph_launches, context>>
    BY <1>12 DEF FinishRequested
  <2> QED BY <2>1 DEF context
<1>13. CASE FinishBoundary
  BY <1>13 DEF FinishBoundary, context
<1>14. CASE ReceiveChunk
  <2>1. rpc = "recv" /\ rpc' = "parse" /\ UNCHANGED <<host, taken, pending, graph_launches, context>>
    BY <1>14 DEF ReceiveChunk
  <2> QED BY <2>1 DEF context
<1>15. CASE ParseCorrupt \/ ParseOrphan \/ ParseRecord
  <2>1. rpc = "parse" /\ UNCHANGED <<host, rpc, taken, pending, graph_launches, context>>
    BY <1>15 DEF ParseCorrupt, ParseOrphan, ParseRecord
  <2> QED BY <2>1 DEF context
<1>16. CASE PeriodicChecks
  <2>1. /\ rpc = "parse" /\ chunk = <<>> /\ rpc' = "take"
        /\ UNCHANGED <<host, chunk, taken, pending, graph_launches, context>>
    BY <1>16 DEF PeriodicChecks
  <2> QED BY <2>1 DEF context
<1>17. CASE CloseWriters
  <2>1. /\ rpc = "close" /\ rpc' = "exited" /\ recv_thread_done' = "FINISHED"
        /\ UNCHANGED <<host, chunk, taken, pending, graph_launches>>
    BY <1>17 DEF CloseWriters
  <2> QED BY <2>1
<1>18. CASE UNCHANGED vars
  BY <1>18 DEF vars, receiver, context
<1> QED BY <1>1, <1>2, <1>3, <1>4, <1>5, <1>6, <1>7, <1>8, <1>9, <1>10, <1>11, <1>12, <1>13,
           <1>14, <1>15, <1>16, <1>17, <1>18 DEF Next, Receiver, HostReturns, HostCalls

LEMMA BoundariesStep == ASSUME CaptureInv, [Next]_vars PROVE BoundariesAreClean'
<1> USE DEF CaptureInv, BoundariesAreClean
<1>0. /\ host \in HostStates /\ nextId \in Nat
      /\ barrier \in Nat /\ taken_barrier \in Nat /\ finished_barrier \in Nat
  BY DEF CaptureType, HostType
<1>1. CASE EnterKernelLaunch
  <2>1. UNCHANGED <<device, chunk, barriers, channel_failed>>
    BY <1>1 DEF EnterKernelLaunch, receiver
  <2> QED BY <1>0, <1>1, <2>1, EnterKernelHost DEF barriers
<1>2. CASE EnterGraphLaunch
  <2>1. UNCHANGED <<device, chunk, barriers, channel_failed>>
    BY <1>2 DEF EnterGraphLaunch, receiver
  <2> QED BY <1>0, <1>2, <2>1, EnterGraphHost DEF barriers
<1>3. ASSUME NEW l \in Launches, KernelPush(l) PROVE BoundariesAreClean'
  <2>1. host.pc = "kernel" /\ UNCHANGED <<host, chunk, barriers, channel_failed>>
    BY <1>3 DEF KernelPush, receiver
  <2> QED BY <2>1 DEF barriers
<1>4. CASE SynchronizeKernel
  <2>1. UNCHANGED <<device, chunk, barriers>>
    BY <1>4 DEF SynchronizeKernel, receiver
  <2> QED BY <1>0, <1>4, <2>1, SynchronizeHost DEF barriers
<1>5. CASE FlushChannel
  <2>1. UNCHANGED <<device, chunk, barriers>>
    BY <1>5 DEF FlushChannel, receiver
  <2> QED BY <1>0, <1>5, <2>1, FlushHost DEF barriers
<1>6. CASE RequestCompletion
  <2>1. /\ host.pc = "request" /\ host' = IdleHost
        /\ UNCHANGED <<device, chunk, barriers, channel_failed>>
    BY <1>6 DEF RequestCompletion, receiver
  <2> QED BY <2>1, IdleIs DEF barriers
<1>7. CASE UnloadModule
  <2>1. /\ host.pc = "idle" /\ barrier' = barrier + 1
        /\ UNCHANGED <<device, chunk, taken_barrier, finished_barrier, channel_failed>>
    BY <1>7 DEF UnloadModule, receiver
  <2> QED BY <1>0, <1>7, <2>1, UnloadHost
<1>8. CASE RetireModule
  <2>1. /\ host.pc = "waiting" /\ host' = IdleHost /\ UNCHANGED <<device, chunk, barriers>>
        /\ ~channel_failed' => ~channel_failed
    BY <1>8 DEF RetireModule, receiver
  <2> QED BY <2>1, IdleIs DEF barriers
<1>9. CASE TerminateContext \/ ContextGone
  <2>1. /\ host.pc \in {"idle", "stopping"}
        /\ host' = Reaches("stopping") \/ host' = Reaches("down")
        /\ UNCHANGED <<device, chunk, barriers, channel_failed>>
    BY <1>9 DEF TerminateContext, ContextGone, receiver
  <2> QED BY <1>0, <2>1, ReachesIs DEF barriers
<1>10. CASE TakeRequests
  <2>1. /\ chunk = <<>> /\ taken_barrier' = barrier
        /\ UNCHANGED <<host, device, chunk, barrier, finished_barrier, channel_failed>>
    BY <1>10 DEF TakeRequests, AtChunkBoundary, ThreadsAgree
  <2> QED BY <1>0, <2>1
<1>11. CASE FinishBoundary
  <2>1. /\ finished_barrier' = taken_barrier
        /\ UNCHANGED <<host, device, chunk, barrier, taken_barrier, channel_failed>>
    BY <1>11 DEF FinishBoundary, FinishedBarrier
  <2> QED BY <1>0, <2>1
<1>12. CASE ReceiveChunk
  <2>1. UNCHANGED <<host, barriers, channel_failed>>
    BY <1>12 DEF ReceiveChunk
  <2> QED BY <1>12, <2>1, ReceiveQueue DEF barriers
<1>13. CASE ParseCorrupt \/ ParseOrphan
  <2>1. channel_failed' = TRUE /\ UNCHANGED barriers
    BY <1>13 DEF ParseCorrupt, ParseOrphan, ChannelFailure
  <2> QED BY <2>1 DEF barriers
<1>14. CASE ParseRecord
  <2>1. chunk # <<>> /\ UNCHANGED <<host, device, barriers, channel_failed>>
    BY <1>14 DEF ParseRecord
  <2> QED BY <2>1 DEF barriers
<1>15. CASE UnsupportedGraphLaunch
  <2>1. channel_failed' = TRUE /\ UNCHANGED barriers
    BY <1>15 DEF UnsupportedGraphLaunch
  <2> QED BY <2>1 DEF barriers
<1>16. CASE GraphNodeLaunch \/ FinishRequested \/ PeriodicChecks \/ CloseWriters
            \/ UNCHANGED vars
  <2>1. UNCHANGED <<host, device, chunk, barriers, channel_failed>>
    BY <1>16 DEF GraphNodeLaunch, FinishRequested, PeriodicChecks, CloseWriters, vars, receiver
  <2> QED BY <2>1 DEF barriers
<1> QED BY <1>1, <1>2, <1>3, <1>4, <1>5, <1>6, <1>7, <1>8, <1>9, <1>10, <1>11, <1>12, <1>13,
           <1>14, <1>15, <1>16 DEF Next, Receiver, HostReturns, HostCalls

(* The tables are retired when nothing is left in the channel.             *)
LEMMA TablesStep == ASSUME CaptureInv, [Next]_vars PROVE TablesOutliveRecords'
<1> USE DEF CaptureInv, TablesOutliveRecords
<1>0. host \in HostStates /\ nextId \in Nat /\ chunk \in Seq(Records)
      /\ barrier \in Nat /\ taken_barrier \in Nat /\ finished_barrier \in Nat
  BY DEF CaptureType, HostType, QueueType
<1>1. CASE EnterKernelLaunch \/ GraphNodeLaunch
  <2>1. UNCHANGED <<device, chunk, channel_failed>> /\ tables \subseteq tables'
    BY <1>1 DEF EnterKernelLaunch, GraphNodeLaunch, CreateWriter, receiver
  <2> QED BY <2>1
<1>2. ASSUME NEW l \in Launches, KernelPush(l) PROVE TablesOutliveRecords'
  <2>1. l \in Running /\ UNCHANGED <<chunk, channel_failed, tables>>
    BY <1>2 DEF KernelPush, receiver
  <2>2. l \in tables
    BY <2>1 DEF Running, LaunchesInOrder, RecordsInOrder
  <2> QED BY <1>2, <2>1, <2>2, PushQueue
<1>3. CASE RetireModule
  <2>1. UNCHANGED <<device, chunk>> /\ host.pc = "waiting"
        /\ (~channel_failed' => ~channel_failed /\ finished_barrier >= host.awaited)
    BY <1>3 DEF RetireModule, ReachedBoundary, receiver
  <2>2. host.awaited \in Nat
    BY <1>0 DEF HostStates
  <2>3. ~channel_failed' => device = <<>> /\ chunk = <<>>
    BY <1>0, <2>1, <2>2 DEF BoundariesAreClean
  <2> QED BY <2>1, <2>3, EmptyHasNone
<1>4. CASE ReceiveChunk
  <2>1. UNCHANGED <<channel_failed, tables>>
    BY <1>4 DEF ReceiveChunk
  <2> QED BY <1>4, <2>1, ReceiveQueue
<1>5. CASE ParseCorrupt \/ ParseOrphan \/ UnsupportedGraphLaunch
  <2>1. channel_failed' = TRUE
    BY <1>5 DEF ParseCorrupt, ParseOrphan, UnsupportedGraphLaunch, ChannelFailure
  <2> QED BY <2>1
<1>6. CASE ParseRecord
  <2>1. chunk # <<>> /\ chunk' = Tail(chunk) /\ UNCHANGED <<device, channel_failed, tables>>
    BY <1>6 DEF ParseRecord
  <2> QED BY <1>0, <2>1, HeadAndTail
<1>7. CASE SynchronizeKernel \/ FlushChannel
  <2>1. UNCHANGED <<device, chunk, tables>> /\ (~channel_failed' => ~channel_failed)
    BY <1>7 DEF SynchronizeKernel, FlushChannel, receiver
  <2> QED BY <2>1
<1>8. CASE UNCHANGED <<device, chunk, channel_failed, tables>>
  BY <1>8
<1>9. \/ EnterGraphLaunch \/ RequestCompletion \/ UnloadModule \/ TerminateContext
      \/ ContextGone \/ TakeRequests \/ FinishRequested \/ FinishBoundary \/ PeriodicChecks
      \/ CloseWriters \/ UNCHANGED vars
      => UNCHANGED <<device, chunk, channel_failed, tables>>
  BY DEF EnterGraphLaunch, RequestCompletion, UnloadModule, TerminateContext, ContextGone,
         TakeRequests, FinishRequested, FinishBoundary, PeriodicChecks, CloseWriters, vars,
         receiver
<1> QED BY <1>1, <1>2, <1>3, <1>4, <1>5, <1>6, <1>7, <1>8, <1>9
        DEF Next, Receiver, HostReturns, HostCalls

-----------------------------------------------------------------------------
(* Launches, requests and captures.                                        *)

(* The launches and requests after a step, from what it leaves alone.      *)
LEMMA LiveOutside ==
    host.pc \notin {"kernel", "flush", "request"} => Live = {}
BY DEF Live

LEMMA LiveKept ==
    ASSUME UNCHANGED <<host, graph_launches>> PROVE Live' = Live
BY DEF Live, Elements

LEMMA RequestsKept ==
    ASSUME UNCHANGED <<pending, taken>> PROVE Requests' = Requests /\ Requested' = Requested
BY DEF Requests, Requested, Elements

LEMMA OutsideLive ==
    ASSUME host'.pc \notin {"kernel", "flush", "request"} PROVE Live' = {}
BY DEF Live

LEMMA RunningIsLive == ASSUME host.pc = "kernel" PROVE Running \subseteq Live
BY DEF Running, Live

(* Only finishing a capture closes a writer, only a launch opens one.      *)
LEMMA WritersStayOpen ==
    ASSUME CaptureInv, ParseCorrupt \/ ParseOrphan \/ ParseRecord \/ PeriodicChecks
    PROVE  \A l \in Launches : writers'[l] # None => writers[l] # None
<1>0. writers \in [Launches -> Writer \cup {None}]
  BY DEF CaptureInv, CaptureType, FileType
<1>1. CASE ParseCorrupt \/ ParseOrphan
  <2>1. writers' = [l \in Launches |-> IF l \in Open THEN MarkCaptureError(writers[l]) ELSE None]
    BY <1>1 DEF ParseCorrupt, ParseOrphan, ChannelFailure
  <2> QED BY <2>1 DEF Open
<1>2. CASE ParseRecord
  <2>1. PICK new : /\ writers' = [writers EXCEPT ![Head(chunk).launch] = new]
                   /\ Head(chunk).launch \in Open
    BY <1>2 DEF ParseRecord
  <2> QED BY <1>0, <2>1 DEF Open
<1>3. CASE PeriodicChecks
  <2>1. CASE UNCHANGED writers
    BY <2>1
  <2>2. ASSUME NEW ok, writers' = [l \in Launches |->
                                     IF l \in Open THEN Flush(writers[l], ok) ELSE None]
        PROVE  \A l \in Launches : writers'[l] # None => writers[l] # None
    BY <2>2 DEF Open
  <2>3. ASSUME NEW l \in Open, NEW ok, writers' = [writers EXCEPT ![l] = Disable(@, ok)]
        PROVE  \A m \in Launches : writers'[m] # None => writers[m] # None
    BY <1>0, <2>3 DEF Open
  <2> QED BY <1>3, <2>1, <2>2, <2>3 DEF PeriodicChecks
<1> QED BY <1>1, <1>2, <1>3

LEMMA OrderStep == ASSUME CaptureInv, [Next]_vars PROVE LaunchesInOrder'
<1> USE DEF CaptureInv, LaunchesInOrder, IdsInOrder, CapturesInOrder, RecordsInOrder
<1>0. /\ host \in HostStates /\ nextId \in Nat \ {0}
      /\ pushed \in [Launches -> Nat] /\ Launches \subseteq Nat
      /\ writers \in [Launches -> Writer \cup {None}]
      /\ footer \in [Launches -> FooterRecord \cup {None}]
      /\ chunk \in Seq(Records) /\ pending \in Seq(RequestRecord) /\ taken \in Seq(RequestRecord)
      /\ \A l \in Live \cup Requested : l \in Nat
      /\ barrier \in Nat
  <2>1. \A q \in Requests : q.launch \in Nat
    <3>1. Elements(pending) \subseteq RequestRecord /\ Elements(taken) \subseteq RequestRecord
      BY LenProperties, ElementOfSeq DEF CaptureType, QueueType, Elements
    <3> QED BY <3>1 DEF Requests, RequestRecord
  <2>2. Launches \subseteq Nat /\ Elements(graph_launches) \subseteq Launches
    BY LenProperties, ElementOfSeq, CaptureAssumption DEF CaptureType, QueueType, Elements, Launches
  <2>3. \A l \in Live : l \in Nat
    BY <2>2 DEF Live, CaptureType, HostType, HostStates
  <2> QED BY <2>1, <2>2, <2>3 DEF CaptureType, HostType, QueueType, FileType, Requested
<1>16. \A r \in Elements(device) \cup Elements(chunk) : r.launch \in Nat
  <2>1. Elements(device) \subseteq Records /\ Elements(chunk) \subseteq Records
    BY LenProperties, ElementOfSeq DEF CaptureType, QueueType, Elements
  <2> QED BY <1>0, <2>1 DEF Records
<1>1. CASE EnterKernelLaunch
  <2>1. /\ nextId' = nextId + 1 /\ nextId \in Launches /\ host.pc = "idle"
        /\ tables \subseteq tables' /\ harmed \subseteq harmed'
        /\ UNCHANGED <<device, pushed, chunk, taken, pending, graph_launches, footer,
                       channel_failed>>
    BY <1>1 DEF EnterKernelLaunch, CreateWriter, receiver
  <2>2. \A l \in Launches : writers'[l] # None => writers[l] # None \/ l = nextId
    BY <1>0, <1>1 DEF EnterKernelLaunch, CreateWriter
  <2>3. Live = {} /\ Live' = {nextId} /\ Requested' = Requested /\ graph_launches = <<>>
    BY <1>0, <1>1, <2>1, EnterKernelHost, RequestsKept DEF Live, ThreadsAgree
  <2>4. ~channel_failed => device = <<>>
    BY <2>1 DEF BoundariesAreClean
  <2>5. IdsInOrder'
    BY <1>0, <2>1, <2>3
  <2>6. CapturesInOrder'
    <3> SUFFICES ASSUME NEW l \in Launches
                 PROVE  /\ writers'[l] # None => l \in Live' \cup Requested'
                        /\ footer'[l] # None => l < nextId' /\ l \notin Live'
                        /\ l >= nextId' => pushed'[l] = 0
      BY DEF CapturesInOrder
    <3>1. writers'[l] # None => l \in Live' \cup Requested'
      BY <1>0, <2>1, <2>2, <2>3
    <3>2. footer'[l] # None => l < nextId' /\ l \notin Live'
      BY <1>0, <2>1, <2>2, <2>3
    <3>3. l >= nextId' => pushed'[l] = 0
      BY <1>0, <2>1
    <3> QED BY <3>1, <3>2, <3>3
  <2>7. RecordsInOrder'
    BY <1>0, <1>16, <2>1, <2>3, <2>4, EmptyHasNone
  <2> QED BY <2>5, <2>6, <2>7
<1>2. CASE EnterGraphLaunch
  <2>1. /\ host.pc = "idle"
        /\ UNCHANGED <<nextId, device, pushed, chunk, taken, pending, graph_launches, writers,
                       footer, channel_failed, tables, harmed>>
    BY <1>2 DEF EnterGraphLaunch, receiver, files
  <2>2. Live = {} /\ Live' = {} /\ Requested' = Requested
    BY <1>2, <2>1, EnterGraphHost, RequestsKept, EmptyHasNone DEF Live, ThreadsAgree
  <2>3. ~channel_failed => device = <<>>
    BY <2>1 DEF BoundariesAreClean
  <2> QED BY <1>0, <2>1, <2>2, <2>3, EmptyHasNone
<1>3. CASE GraphNodeLaunch
  <2>1. /\ nextId' = nextId + 1 /\ nextId \in Launches /\ host.pc = "kernel" /\ host.graph
        /\ UNCHANGED <<host, device, pushed, chunk, taken, pending, footer, channel_failed>>
    BY <1>3 DEF GraphNodeLaunch, receiver
  <2>2. /\ \A l \in Launches : writers'[l] # None =>
              writers[l] # None \/ (~channel_failed /\ l = nextId)
        /\ tables \subseteq tables' /\ harmed \subseteq harmed'
        /\ ~channel_failed => nextId \in tables' /\ nextId \in harmed'
    BY <1>0, <1>3 DEF GraphNodeLaunch, CreateWriter
  <2>3. Live = Elements(graph_launches) /\ Live' = Elements(graph_launches')
    BY <2>1 DEF Live
  <2>4. Elements(graph_launches') =
           Elements(graph_launches) \cup (IF channel_failed THEN {} ELSE {nextId})
    BY <1>3, GraphNodeQueue
  <2>5. Requested' = Requested
    BY <2>1, RequestsKept
  <2>6. IdsInOrder'
    BY <1>0, <2>1, <2>3, <2>4, <2>5
  <2>7. CapturesInOrder'
    <3> SUFFICES ASSUME NEW l \in Launches
                 PROVE  /\ writers'[l] # None => l \in Live' \cup Requested'
                        /\ footer'[l] # None => l < nextId' /\ l \notin Live'
                        /\ l >= nextId' => pushed'[l] = 0
      BY DEF CapturesInOrder
    <3>1. writers'[l] # None => l \in Live' \cup Requested'
      BY <1>0, <2>1, <2>2, <2>3, <2>4, <2>5
    <3>2. footer'[l] # None => l < nextId' /\ l \notin Live'
      BY <1>0, <2>1, <2>2, <2>3, <2>4, <2>5
    <3>3. l >= nextId' => pushed'[l] = 0
      BY <1>0, <2>1
    <3> QED BY <3>1, <3>2, <3>3
  <2>8. RecordsInOrder'
    BY <1>0, <1>16, <2>1, <2>2, <2>3, <2>4
  <2> QED BY <2>6, <2>7, <2>8
<1>4. CASE UnsupportedGraphLaunch
  <2>1. /\ channel_failed' = TRUE
        /\ UNCHANGED <<host, nextId, device, pushed, chunk, taken, pending, graph_launches, writers,
                       footer, tables, harmed>>
    BY <1>4 DEF UnsupportedGraphLaunch, receiver, files
  <2> QED BY <1>0, <2>1, LiveKept, RequestsKept
<1>5. ASSUME NEW l \in Launches, KernelPush(l) PROVE LaunchesInOrder'
  <2>1. /\ l \in Running /\ host.pc = "kernel" /\ pushed' = [pushed EXCEPT ![l] = @ + 1]
        /\ UNCHANGED <<host, nextId, chunk, taken, pending, graph_launches, writers,
                       footer, channel_failed, tables, harmed>>
    BY <1>5 DEF KernelPush, receiver, files
  <2>2. l \in Live
    BY <2>1, RunningIsLive
  <2>3. Live' = Live /\ Requested' = Requested
    BY <2>1, LiveKept, RequestsKept
  <2>4. PICK r \in Records : r.launch = l /\ Elements(device') = Elements(device) \cup {r}
    BY <1>5, PushQueue
  <2> QED BY <1>0, <2>1, <2>2, <2>3, <2>4
<1>6. CASE SynchronizeKernel \/ FlushChannel
  <2>1. /\ host.pc \in {"kernel", "flush"} /\ (~channel_failed' => ~channel_failed)
        /\ UNCHANGED <<nextId, device, pushed, chunk, taken, pending, graph_launches, writers,
                       footer, tables, harmed>>
    BY <1>6 DEF SynchronizeKernel, FlushChannel, receiver, files
  <2>2. host'.pc \in {"flush", "request"} /\ host'.graph = host.graph /\ host'.launch = host.launch
    BY <1>0, <1>6, SynchronizeHost, FlushHost
  <2>3. Live' = Live /\ Requested' = Requested
    BY <2>1, <2>2, RequestsKept DEF Live, Elements
  <2> QED BY <1>0, <2>1, <2>3
<1>7. CASE RequestCompletion
  <2>1. /\ host.pc = "request" /\ host' = IdleHost /\ harmed \subseteq harmed'
        /\ UNCHANGED <<nextId, device, pushed, chunk, taken, writers, footer, channel_failed, tables>>
    BY <1>7 DEF RequestCompletion, receiver, files
  <2>2. Live' = {} /\ graph_launches' = <<>>
    BY <1>7, <2>1, IdleIs, OutsideLive, RequestQueue
  <2>3. Requested' = Requested \cup Live
    <3>1. Elements(pending') = Elements(pending) \cup {Request(l) : l \in Live}
      BY <1>7, RequestQueue
    <3>2. \A l \in Live : Request(l).launch = l
      BY <1>0, RequestIs
    <3>3. Elements(taken') = Elements(taken)
      BY <2>1
    <3> QED BY <3>1, <3>2, <3>3 DEF Requested, Requests
  <2>4. ~channel_failed => device = <<>>
    BY <2>1 DEF BoundariesAreClean
  <2> QED BY <1>0, <2>1, <2>2, <2>3, <2>4, EmptyHasNone
<1>8. CASE UnloadModule \/ RetireModule \/ TerminateContext \/ ContextGone
  <2>1. /\ host.pc \in {"idle", "waiting", "stopping"}
        /\ (~channel_failed' => ~channel_failed)
        /\ UNCHANGED <<nextId, device, pushed, chunk, taken, pending, graph_launches, writers,
                       footer, harmed>>
    BY <1>8 DEF UnloadModule, RetireModule, TerminateContext, ContextGone, receiver, files
  <2>2. host'.pc \in {"idle", "waiting", "stopping", "down"}
    <3>1. UnloadModule => host'.pc = "waiting"
      BY <1>0, UnloadHost
    <3>2. RetireModule => host'.pc = "idle"
      BY IdleIs DEF RetireModule
    <3>3. TerminateContext \/ ContextGone => host'.pc \in {"stopping", "down"}
      BY <1>0, ReachesIs DEF TerminateContext, ContextGone
    <3> QED BY <1>8, <3>1, <3>2, <3>3
  <2>3. Live = {} /\ Live' = {} /\ Requested' = Requested
    BY <2>1, <2>2, LiveOutside, OutsideLive, RequestsKept
  <2>4. graph_launches = <<>> /\ (~channel_failed => device = <<>>)
    BY <2>1 DEF ThreadsAgree, BoundariesAreClean
  <2> QED BY <1>0, <2>1, <2>3, <2>4, EmptyHasNone
<1>9. CASE TakeRequests
  <2>1. /\ taken = <<>> /\ taken' = pending /\ pending' = <<>>
        /\ UNCHANGED <<host, nextId, device, pushed, chunk, graph_launches, writers,
                       footer, channel_failed, tables, harmed>>
    BY <1>9 DEF TakeRequests, AtChunkBoundary, ThreadsAgree, files
  <2>2. Requested' = Requested /\ Live' = Live
    BY <2>1, LiveKept DEF Requested, Requests
  <2> QED BY <1>0, <2>1, <2>2
<1>10. CASE FinishRequested
  <2> DEFINE l == Head(taken).launch
  <2>1. /\ taken # <<>> /\ taken' = Tail(taken)
        /\ UNCHANGED <<host, nextId, device, pushed, chunk, pending, graph_launches,
                       channel_failed, tables>>
    BY <1>10 DEF FinishRequested
  <2>2. Head(taken) \in Requests /\ l \in Requested
    BY <1>0, <2>1, HeadAndTail DEF Requests, Requested
  <2>3. Requested' \subseteq Requested /\ Requested \subseteq Requested' \cup {l}
    <3>1. Elements(taken) = {Head(taken)} \cup Elements(Tail(taken))
      BY <1>0, <2>1, HeadAndTail
    <3>2. Elements(pending') = Elements(pending) /\ Elements(taken') = Elements(Tail(taken))
      BY <2>1
    <3> QED BY <3>1, <3>2 DEF Requested, Requests
  <2>4. \A m \in Launches : /\ writers'[m] # None => writers[m] # None /\ m # l
                            /\ footer'[m] # None => footer[m] # None \/ m = l
    <3>1. CASE writers[l] = None
      BY <1>10, <3>1 DEF FinishRequested, files
    <3>2. CASE writers[l] # None
      <4>1. PICK f : /\ writers' = [writers EXCEPT ![l] = None]
                     /\ footer' = [footer EXCEPT ![l] = f]
        BY <1>10, <3>2 DEF FinishRequested, Finish
      <4> QED BY <1>0, <4>1
    <3> QED BY <3>1, <3>2
  <2>5. Live' = Live
    BY <2>1, LiveKept
  <2> HIDE DEF l
  <2>6. ASSUME NEW m \in Launches
        PROVE  /\ writers'[m] # None => m \in Live' \cup Requested'
               /\ footer'[m] # None => m < nextId /\ m \notin Live'
    BY <2>2, <2>3, <2>4, <2>5
  <2>7. IdsInOrder'
    BY <1>0, <2>1, <2>3, <2>5
  <2>8. CapturesInOrder'
    BY <1>0, <2>1, <2>6
  <2>9. harmed \subseteq harmed'
    BY <1>10 DEF FinishRequested, Finish
  <2>10. RecordsInOrder'
    BY <1>0, <2>1, <2>5, <2>9
  <2> QED BY <2>7, <2>8, <2>10
<1>11. CASE FinishBoundary
  <2>1. UNCHANGED <<host, nextId, device, pushed, chunk, taken, pending, graph_launches, writers,
                    footer, channel_failed, tables, harmed>>
    BY <1>11 DEF FinishBoundary, files
  <2> QED BY <1>0, <2>1, LiveKept, RequestsKept
<1>12. CASE ReceiveChunk
  <2>1. UNCHANGED <<host, nextId, pushed, taken, pending, graph_launches, writers,
                    footer, channel_failed, tables, harmed>>
    BY <1>12 DEF ReceiveChunk, files
  <2>2. Elements(chunk') \cup Elements(device') = Elements(device)
    BY <1>12, ReceiveQueue
  <2> QED BY <1>0, <2>1, <2>2, LiveKept, RequestsKept
<1>13. CASE ParseCorrupt \/ ParseOrphan \/ ParseRecord \/ PeriodicChecks
  <2>1. /\ \/ chunk' = <<>> \/ UNCHANGED chunk
           \/ chunk # <<>> /\ chunk' = Tail(chunk)
        /\ (~channel_failed' => ~channel_failed) /\ harmed \subseteq harmed'
        /\ UNCHANGED <<host, nextId, device, pushed, taken, pending, graph_launches,
                       footer, tables>>
    BY <1>13 DEF ParseCorrupt, ParseOrphan, ParseRecord, PeriodicChecks, ChannelFailure
  <2>2. Elements(chunk') \subseteq Elements(chunk)
    <3>1. chunk # <<>> => Elements(Tail(chunk)) \subseteq Elements(chunk)
      BY <1>0, HeadAndTail
    <3> QED BY <2>1, <3>1, EmptyHasNone
  <2>3. Live' = Live /\ Requested' = Requested
    BY <2>1, LiveKept, RequestsKept
  <2> QED BY <1>0, <1>13, <2>1, <2>2, <2>3, WritersStayOpen
<1>14. CASE CloseWriters
  <2>1. /\ rpc = "close" /\ \A l \in Launches : writers'[l] = None
        /\ UNCHANGED <<host, nextId, device, pushed, chunk, taken, pending, graph_launches,
                       channel_failed, tables, harmed>>
    BY <1>14 DEF CloseWriters
  <2>2. Live = {} /\ Requested = {}
    BY <1>0, <2>1, EmptyHasNone, LiveOutside DEF ThreadsAgree, Requested, Requests
  <2>3. \A l \in Launches : footer'[l] # None => footer[l] # None
    BY <1>14, <2>2 DEF CloseWriters, Open
  <2>4. Live' = Live /\ Requested' = Requested
    BY <2>1, LiveKept, RequestsKept
  <2> QED BY <1>0, <2>1, <2>2, <2>3, <2>4
<1>15. CASE UNCHANGED vars
  <2>1. UNCHANGED <<host, nextId, device, pushed, chunk, taken, pending, graph_launches, writers,
                    footer, channel_failed, tables, harmed>>
    BY <1>15 DEF vars, receiver, files
  <2> QED BY <1>0, <2>1, LiveKept, RequestsKept
<1> QED BY <1>1, <1>2, <1>3, <1>4, <1>5, <1>6, <1>7, <1>8, <1>9, <1>10, <1>11, <1>12, <1>13,
           <1>14, <1>15 DEF Next, Receiver, HostReturns, HostCalls

-----------------------------------------------------------------------------
(* Writers and footers.                                                    *)

LEMMA OpenWriters ==
    ASSUME CaptureInv, NEW l \in Launches, writers[l] # None
    PROVE  writers[l] \in Writer /\ Sane(writers[l])
BY DEF CaptureInv, FilesAgree, FileType, FaultsAreKnown

(* A step that touches no footer and after which every open writer is in   *)
(* order leaves all of them in order.                                      *)
LEMMA FilesChange ==
    ASSUME CaptureInv, UNCHANGED <<pushed, footer>>,
           writers' \in [Launches -> Writer \cup {None}],
           harmed \subseteq harmed', harmed' \subseteq Nat, tables' \subseteq Launches,
           ~channel_failed' => ~channel_failed,
           ~channel_failed' => \A q \in Requests' :
              q \in Requests \/ (q.completed /\ q.drained) \/ q.launch \in harmed',
           \A l \in Launches : writers'[l] # None =>
              /\ Sane(writers'[l])
              /\ ~channel_failed' =>
                    /\ pushed[l] = CountOf(device', l) + CountOf(chunk', l) + Total(writers'[l])
                    /\ l \notin harmed' => Sound(writers'[l])
    PROVE  FilesAgree'
<1> USE DEF CaptureInv, FilesAgree
<1>1. FileType'
  BY DEF FileType
<1>2. RecordsAreKept'
  BY DEF RecordsAreKept
<1>3. FaultsAreKnown'
  BY DEF FaultsAreKnown
<1>4. FootersAreTrue'
  BY DEF FootersAreTrue
<1> QED BY <1>1, <1>2, <1>3, <1>4

LEMMA FilesKept ==
    ASSUME CaptureInv, UNCHANGED <<pushed, footer, writers>>,
           harmed \subseteq harmed', harmed' \subseteq Nat, tables' \subseteq Launches,
           ~channel_failed' => ~channel_failed,
           ~channel_failed' => \A q \in Requests' :
              q \in Requests \/ (q.completed /\ q.drained) \/ q.launch \in harmed',
           \A l : CountOf(device', l) + CountOf(chunk', l) = CountOf(device, l) + CountOf(chunk, l)
    PROVE  FilesAgree'
<1>1. writers' \in [Launches -> Writer \cup {None}]
  BY DEF CaptureInv, FilesAgree, FileType
<1>2. ASSUME NEW l \in Launches, writers'[l] # None
      PROVE  /\ Sane(writers'[l])
             /\ ~channel_failed' =>
                   /\ pushed[l] = CountOf(device', l) + CountOf(chunk', l) + Total(writers'[l])
                   /\ l \notin harmed' => Sound(writers'[l])
  BY <1>2 DEF CaptureInv, FilesAgree, RecordsAreKept, FaultsAreKnown
<1> QED BY <1>1, <1>2, FilesChange

LEMMA CreateFiles ==
    ASSUME CaptureInv, nextId \in Launches, NEW w \in Writer, Sane(w), Total(w) = 0,
           CreateWriter(nextId, w), harmed \subseteq harmed', harmed' \subseteq Nat,
           nextId \in harmed' \/ Sound(w),
           UNCHANGED <<pushed, footer, device, chunk, taken, pending, channel_failed>>
    PROVE  FilesAgree'
<1>1. /\ writers' = [writers EXCEPT ![nextId] = w] /\ tables' = tables \cup {nextId}
      /\ writers \in [Launches -> Writer \cup {None}] /\ tables \subseteq Launches
  BY DEF CreateWriter, CaptureInv, FilesAgree, FileType
<1>2. pushed[nextId] = 0 /\ CountOf(device, nextId) = 0 /\ CountOf(chunk, nextId) = 0
  <2>1. nextId \in Nat
    BY DEF CaptureInv, CaptureType, HostType
  <2>2. \A r \in Elements(device) \cup Elements(chunk) : r.launch # nextId
    BY <2>1 DEF CaptureInv, LaunchesInOrder, RecordsInOrder
  <2> QED BY <2>1, <2>2, CountNone DEF CaptureInv, LaunchesInOrder, CapturesInOrder
<1>3. ASSUME NEW l \in Launches, writers'[l] # None
      PROVE  /\ Sane(writers'[l])
             /\ ~channel_failed' =>
                   /\ pushed[l] = CountOf(device', l) + CountOf(chunk', l) + Total(writers'[l])
                   /\ l \notin harmed' => Sound(writers'[l])
  <2>1. CASE l = nextId
    BY <1>1, <1>2, <2>1
  <2>2. CASE l # nextId
    BY <1>1, <1>3, <2>2 DEF CaptureInv, FilesAgree, RecordsAreKept, FaultsAreKnown
  <2> QED BY <2>1, <2>2
<1>4. Requests' = Requests
  BY RequestsKept
<1>5. writers' \in [Launches -> Writer \cup {None}] /\ tables' \subseteq Launches
  BY <1>1
<1> QED BY <1>3, <1>4, <1>5, FilesChange

LEMMA LaunchFiles ==
    ASSUME CaptureInv, EnterKernelLaunch \/ GraphNodeLaunch
    PROVE  FilesAgree'
<1>1. /\ harmed \subseteq Nat /\ tables \subseteq Launches /\ nextId \in Nat
  BY DEF CaptureInv, CaptureType, HostType, FileType
<1>2. UNCHANGED <<pushed, footer, device, chunk, taken, pending, channel_failed>>
      /\ nextId \in Launches
  BY DEF EnterKernelLaunch, GraphNodeLaunch, receiver
<1>3. Requests' = Requests
  BY <1>2, RequestsKept
<1>4. CASE channel_failed
  <2>1. UNCHANGED <<writers, tables, harmed>>
    BY <1>4 DEF EnterKernelLaunch, GraphNodeLaunch
  <2> QED BY <1>1, <1>2, <1>3, <2>1, FilesKept
<1>5. CASE ~channel_failed /\ EnterKernelLaunch
  <2>1. PICK opened \in DiskOutcomes :
               /\ CreateWriter(nextId, NewWriter(opened))
               /\ harmed' = IF opened THEN harmed ELSE harmed \cup {nextId}
    BY <1>5 DEF EnterKernelLaunch
  <2>2. opened \in BOOLEAN
    BY <2>1, OutcomesAreBoolean
  <2>3. /\ NewWriter(opened) \in Writer /\ Sane(NewWriter(opened)) /\ Total(NewWriter(opened)) = 0
        /\ opened => Sound(NewWriter(opened))
    BY <2>2, NewWriterIs
  <2>4. harmed \subseteq harmed' /\ harmed' \subseteq Nat /\ (~opened => nextId \in harmed')
    BY <1>1, <2>1
  <2> QED BY <1>2, <2>1, <2>3, <2>4, CreateFiles
<1>6. CASE ~channel_failed /\ GraphNodeLaunch
  <2>1. PICK opened \in DiskOutcomes :
               CreateWriter(nextId, MarkCaptureError(NewWriter(opened)))
    BY <1>6 DEF GraphNodeLaunch
  <2>2. harmed' = harmed \cup {nextId}
    BY <1>6 DEF GraphNodeLaunch
  <2>3. opened \in BOOLEAN
    BY <2>1, OutcomesAreBoolean
  <2> DEFINE n == NewWriter(opened)
             w == MarkCaptureError(n)
  <2>4. n \in Writer /\ Sane(n) /\ Total(n) = 0
    BY <2>3, NewWriterIs
  <2> HIDE DEF n
  <2>5. w \in Writer /\ Sane(w) /\ Total(w) = 0
    BY <2>4, MarkKeeps
  <2>6. CreateWriter(nextId, w)
    BY <2>1 DEF n
  <2> HIDE DEF w
  <2> QED BY <1>1, <1>2, <2>2, <2>5, <2>6, CreateFiles
<1> QED BY <1>4, <1>5, <1>6

LEMMA PushFiles ==
    ASSUME CaptureInv, NEW l \in Launches, KernelPush(l)
    PROVE  FilesAgree'
<1> USE DEF CaptureInv, FilesAgree
<1>1. /\ l \in Running /\ host.pc = "kernel" /\ pushed' = [pushed EXCEPT ![l] = @ + 1]
      /\ UNCHANGED <<chunk, taken, pending, writers, footer, channel_failed, tables, harmed>>
  BY DEF KernelPush, receiver, files
<1>2. footer[l] = None
  BY <1>1, RunningIsLive DEF LaunchesInOrder, CapturesInOrder
<1>3. \A m : CountOf(device', m) = CountOf(device, m) + IF l = m THEN 1 ELSE 0
  BY PushQueue
<1>4. pushed \in [Launches -> Nat]
  BY DEF FileType
<1>5. FileType'
  BY <1>1 DEF FileType
<1>6. RecordsAreKept'
  <2> SUFFICES ASSUME ~channel_failed, NEW m \in Launches, writers[m] # None
               PROVE  pushed'[m] = CountOf(device', m) + CountOf(chunk, m) + Total(writers[m])
    BY <1>1 DEF RecordsAreKept
  <2>1. pushed[m] = CountOf(device, m) + CountOf(chunk, m) + Total(writers[m])
    BY DEF RecordsAreKept
  <2>2. CountOf(device, m) \in Nat /\ CountOf(chunk, m) \in Nat
    BY CountType DEF CaptureType, QueueType
  <2>3. Total(writers[m]) \in Nat
    BY OpenWriters DEF Total, Writer
  <2> QED BY <1>1, <1>3, <1>4, <2>1, <2>2, <2>3
<1>7. FaultsAreKnown'
  BY <1>1, RequestsKept DEF FaultsAreKnown
<1>8. FootersAreTrue'
  BY <1>1, <1>2, <1>4 DEF FootersAreTrue
<1> QED BY <1>5, <1>6, <1>7, <1>8

(* A capture is finished between two chunks, after its launch was left:    *)
(* every record its kernel sent is with the writer.                        *)
LEMMA FinishFiles ==
    ASSUME CaptureInv, FinishRequested
    PROVE  FilesAgree'
<1> USE DEF CaptureInv, FilesAgree
<1> DEFINE q == Head(taken)
           l == q.launch
<1>1. /\ rpc \in {"finish", "last_finish"} /\ taken # <<>> /\ taken' = Tail(taken)
      /\ UNCHANGED <<device, pushed, chunk, pending, channel_failed, tables>>
  BY DEF FinishRequested
<1>2. taken \in Seq(RequestRecord) /\ pushed \in [Launches -> Nat]
      /\ writers \in [Launches -> Writer \cup {None}]
      /\ footer \in [Launches -> FooterRecord \cup {None}]
      /\ tables \subseteq Launches /\ harmed \subseteq Nat
  BY DEF CaptureType, QueueType, FileType
<1>3. /\ q \in RequestRecord /\ q \in Requests /\ l \in Requested
      /\ Requests' \subseteq Requests
  <2>1. /\ Head(taken) \in RequestRecord
        /\ Elements(taken) = {Head(taken)} \cup Elements(Tail(taken))
    BY <1>1, <1>2, HeadAndTail
  <2>2. Elements(pending') = Elements(pending) /\ Elements(taken') = Elements(Tail(taken))
    BY <1>1
  <2> QED BY <2>1, <2>2 DEF Requests, Requested
<1>4. CASE writers[l] = None
  <2>1. UNCHANGED <<writers, footer, harmed>>
    BY <1>4 DEF FinishRequested, files
  <2> QED BY <1>1, <1>2, <1>3, <2>1, FilesKept
<1>5. CASE writers[l] # None /\ l \in Launches
  <2> DEFINE w == IF channel_failed THEN MarkCaptureError(writers[l]) ELSE writers[l]
  <2>1. PICK ok \in DiskOutcomes : Finish(l, w, q.completed, q.drained, ok)
    BY <1>5 DEF FinishRequested
  <2>2. ok \in BOOLEAN /\ q.completed \in BOOLEAN /\ q.drained \in BOOLEAN
    BY <1>3, <2>1, OutcomesAreBoolean DEF RequestRecord
  <2>3. /\ w \in Writer /\ Sane(w) /\ Total(w) = Total(writers[l])
        /\ channel_failed => w.errors
        /\ ~channel_failed => w = writers[l]
    BY <1>5, OpenWriters, MarkKeeps
  <2> DEFINE f == Footer(w, q.completed, q.drained, ok)
  <2>4. /\ writers' = [writers EXCEPT ![l] = None] /\ footer' = [footer EXCEPT ![l] = f]
        /\ harmed' = IF ok THEN harmed ELSE harmed \cup {l}
    BY <2>1 DEF Finish
  <2> HIDE DEF w
  <2>5. /\ f \in FooterRecord
        /\ f.written + f.dropped = Total(w)
        /\ f.status = "complete" => f.dropped = 0 /\ ~w.errors
        /\ Sound(w) /\ q.completed /\ q.drained /\ ok => f.status = "complete"
    BY <2>2, <2>3, FooterAccounts
  <2> HIDE DEF f
  <2>6. ~channel_failed => pushed[l] = Total(writers[l])
    <3> SUFFICES ASSUME ~channel_failed PROVE pushed[l] = Total(writers[l])
      OBVIOUS
    <3>1. CountOf(chunk, l) = 0
      BY <1>1, EmptyHasNone DEF ThreadsAgree
    <3>2. l \notin Live
      BY <1>3 DEF LaunchesInOrder, IdsInOrder
    <3>3. CountOf(device, l) = 0
      BY <3>2, CountNone DEF LaunchesInOrder, RecordsInOrder
    <3>4. pushed[l] = CountOf(device, l) + CountOf(chunk, l) + Total(writers[l])
      BY <1>5 DEF RecordsAreKept
    <3>5. Total(writers[l]) \in Nat
      BY <1>5, OpenWriters DEF Total, Writer
    <3> QED BY <3>1, <3>3, <3>4, <3>5
  <2>7. ~channel_failed /\ l \notin harmed' => f.status = "complete"
    BY <1>3, <1>5, <2>3, <2>4, <2>5 DEF FaultsAreKnown
  <2>8. f.status = "complete" => f.written = pushed[l] /\ f.dropped = 0
    BY <2>3, <2>5, <2>6 DEF FooterRecord
  <2> HIDE DEF l, q
  <2>9. harmed \subseteq harmed' /\ harmed' \subseteq Nat
    BY <1>2, <1>5, <2>4, CaptureAssumption DEF Launches
  <2>10. FileType'
    BY <1>1, <1>2, <1>5, <2>4, <2>5, <2>9 DEF FileType
  <2>11. RecordsAreKept'
    BY <1>1, <1>2, <1>5, <2>4 DEF RecordsAreKept
  <2>12. FaultsAreKnown'
    BY <1>1, <1>2, <1>3, <1>5, <2>4, <2>9 DEF FaultsAreKnown
  <2>13. FootersAreTrue'
    <3> SUFFICES ASSUME NEW m \in Launches, footer'[m] # None
                 PROVE  /\ footer'[m].status = "complete" =>
                              footer'[m].written = pushed[m] /\ footer'[m].dropped = 0
                        /\ ~channel_failed =>
                              /\ footer'[m].written + footer'[m].dropped = pushed[m]
                              /\ m \notin harmed' => footer'[m].status = "complete"
      BY <1>1 DEF FootersAreTrue
    <3>1. CASE m = l
      <4>1. footer'[m] = f
        BY <1>2, <1>5, <2>4, <3>1
      <4> QED BY <2>3, <2>5, <2>6, <2>7, <2>8, <3>1, <4>1
    <3>2. CASE m # l
      <4>1. footer'[m] = footer[m]
        BY <1>2, <2>4, <3>2
      <4> QED BY <2>9, <4>1 DEF FootersAreTrue
    <3> QED BY <3>1, <3>2
  <2> QED BY <2>10, <2>11, <2>12, <2>13
<1>6. writers[l] # None => l \in Launches
  BY <1>3 DEF LaunchesInOrder, IdsInOrder
<1> QED BY <1>4, <1>5, <1>6

LEMMA KnownOrNot == ASSUME NEW x, NEW S PROVE \E b \in BOOLEAN : b = (x \in S)
<1>1. (x \in S) \in BOOLEAN
  OBVIOUS
<1> QED BY <1>1

LEMMA ParseRecordFiles ==
    ASSUME CaptureInv, ParseRecord
    PROVE  FilesAgree'
<1> DEFINE r == Head(chunk)
           l == r.launch
<1>1. /\ chunk # <<>> /\ chunk' = Tail(chunk) /\ l \in Open
      /\ UNCHANGED <<device, pushed, taken, pending, footer, channel_failed, tables>>
  BY DEF ParseRecord
<1>2. /\ chunk \in Seq(Records) /\ device \in Seq(Records)
      /\ writers \in [Launches -> Writer \cup {None}]
      /\ tables \subseteq Launches /\ harmed \subseteq Nat
  BY DEF CaptureInv, CaptureType, QueueType, FileType
<1>3. l \in Launches /\ writers[l] # None /\ writers[l] \in Writer /\ Sane(writers[l])
  BY <1>1, OpenWriters DEF Open
<1>4. PICK full \in BOOLEAN, ok \in DiskOutcomes :
         /\ writers' = [writers EXCEPT ![l] =
               IF r.form = "good" THEN WriteTrace(writers[l], l \in tables, full, ok)
               ELSE DropRecord(writers[l])]
         /\ harmed' = IF r.form = "good" /\ l \in tables /\ (full => ok)
                      THEN harmed ELSE harmed \cup {l}
  BY DEF ParseRecord
<1>5. PICK known \in BOOLEAN : known = (l \in tables)
  BY KnownOrNot
<1> DEFINE w == writers[l]
           new == IF r.form = "good" THEN WriteTrace(w, l \in tables, full, ok)
                  ELSE DropRecord(w)
<1>6. writers' = [writers EXCEPT ![l] = new]
  BY <1>2, <1>3, <1>4
<1>7. /\ new \in Writer /\ Sane(new) /\ Total(new) = Total(w) + 1
      /\ l \notin harmed' /\ Sound(w) => Sound(new)
  <2>1. CASE r.form = "good"
    <3>1. new = WriteTrace(w, known, full, ok)
      BY <1>5, <2>1
    <3>2. ok \in BOOLEAN
      BY <1>4, OutcomesAreBoolean
    <3>3. l \notin harmed' => known /\ (full => ok)
      BY <1>4, <1>5, <2>1
    <3>4. /\ WriteTrace(w, known, full, ok) \in Writer /\ Sane(WriteTrace(w, known, full, ok))
          /\ Total(WriteTrace(w, known, full, ok)) = Total(w) + 1
          /\ known /\ (full => ok) /\ Sound(w) => Sound(WriteTrace(w, known, full, ok))
      BY <1>3, <1>4, <1>5, <3>2, WriteAdds
    <3> HIDE DEF new
    <3> QED BY <3>1, <3>3, <3>4
  <2>2. CASE r.form # "good"
    <3>1. new = DropRecord(w) /\ l \in harmed'
      BY <1>4, <2>2
    <3> HIDE DEF new
    <3> QED BY <1>3, <3>1, DropAdds
  <2> QED BY <2>1, <2>2
<1> HIDE DEF new
<1>8. \A m : CountOf(chunk, m) = CountOf(chunk', m) + IF l = m THEN 1 ELSE 0
  BY <1>1, <1>2, HeadAndTail
<1>9. harmed \subseteq harmed' /\ harmed' \subseteq Nat
  <2>1. l \in Nat
    BY <1>3, CaptureAssumption DEF Launches
  <2>2. harmed' = harmed \/ harmed' = harmed \cup {l}
    BY <1>4
  <2> HIDE DEF l
  <2> QED BY <1>2, <2>1, <2>2
<1>10. Requests' = Requests
  BY <1>1, RequestsKept
<1>11. writers' \in [Launches -> Writer \cup {None}]
  BY <1>2, <1>6, <1>7
<1>12. ASSUME NEW m \in Launches, writers'[m] # None
       PROVE  /\ Sane(writers'[m])
              /\ ~channel_failed' =>
                    /\ pushed[m] = CountOf(device', m) + CountOf(chunk', m) + Total(writers'[m])
                    /\ m \notin harmed' => Sound(writers'[m])
  <2>1. CountOf(device, m) \in Nat /\ CountOf(chunk', m) \in Nat
    <3>1. chunk' \in Seq(Records)
      BY <1>1, <1>2, HeadAndTail
    <3> QED BY <1>2, <3>1, CountType
  <2>2. CASE m = l
    <3>1. writers'[m] = new
      BY <1>2, <1>3, <1>6, <2>2
    <3>2. Total(w) \in Nat
      BY <1>3 DEF Total, Writer
    <3>3. ~channel_failed => /\ pushed[m] = CountOf(device, m) + CountOf(chunk, m) + Total(w)
                             /\ m \notin harmed => Sound(w)
      BY <1>3, <2>2 DEF CaptureInv, FilesAgree, RecordsAreKept, FaultsAreKnown
    <3>4. CountOf(chunk, m) = CountOf(chunk', m) + 1 /\ CountOf(device', m) = CountOf(device, m)
      BY <1>1, <1>8, <2>2
    <3>5. Sane(new) /\ Total(new) = Total(w) + 1
      BY <1>7
    <3>6. ASSUME m \notin harmed', ~channel_failed PROVE Sound(new)
      BY <1>7, <1>9, <2>2, <3>3, <3>6
    <3>7. ~channel_failed' => ~channel_failed
      BY <1>1
    <3> HIDE DEF w, l
    <3>8. ~channel_failed => pushed[m] = CountOf(device', m) + CountOf(chunk', m) + Total(new)
      BY <2>1, <3>2, <3>3, <3>4, <3>5
    <3> QED BY <3>1, <3>5, <3>6, <3>7, <3>8
  <2>3. CASE m # l
    <3>1. writers'[m] = writers[m]
      BY <1>2, <1>6, <2>3
    <3>2. CountOf(chunk, m) = CountOf(chunk', m) /\ CountOf(device', m) = CountOf(device, m)
      BY <1>1, <1>8, <2>1, <2>3
    <3> QED BY <1>1, <1>9, <1>12, <3>1, <3>2
            DEF CaptureInv, FilesAgree, RecordsAreKept, FaultsAreKnown
  <2> QED BY <2>2, <2>3
<1> HIDE DEF l
<1> QED BY <1>1, <1>2, <1>9, <1>10, <1>11, <1>12, FilesChange

LEMMA FailureFiles ==
    ASSUME CaptureInv, ParseCorrupt \/ ParseOrphan
    PROVE  FilesAgree'
<1>1. /\ channel_failed' = TRUE
      /\ writers' = [l \in Launches |-> IF l \in Open THEN MarkCaptureError(writers[l]) ELSE None]
      /\ UNCHANGED <<pushed, footer, tables, harmed>>
  BY DEF ParseCorrupt, ParseOrphan, ChannelFailure
<1>2. ASSUME NEW l \in Launches
      PROVE  /\ writers'[l] \in Writer \cup {None}
             /\ writers'[l] # None => Sane(writers'[l])
  BY <1>1, OpenWriters, MarkKeeps DEF Open
<1>3. writers' \in [Launches -> Writer \cup {None}]
  BY <1>1, <1>2
<1>4. harmed \subseteq Nat /\ tables \subseteq Launches
  BY DEF CaptureInv, FilesAgree, FileType
<1> QED BY <1>1, <1>2, <1>3, <1>4, FilesChange

LEMMA PeriodicFiles ==
    ASSUME CaptureInv, PeriodicChecks
    PROVE  FilesAgree'
<1>1. UNCHANGED <<device, pushed, chunk, taken, pending, footer, channel_failed, tables>>
  BY DEF PeriodicChecks
<1>2. /\ writers \in [Launches -> Writer \cup {None}]
      /\ harmed \subseteq Nat /\ tables \subseteq Launches
  BY DEF CaptureInv, FilesAgree, FileType
<1>3. Requests' = Requests
  BY <1>1, RequestsKept
<1>4. ASSUME writers' \in [Launches -> Writer \cup {None}],
             harmed \subseteq harmed', harmed' \subseteq Nat,
             \A l \in Launches : writers'[l] # None =>
                /\ writers[l] # None /\ Sane(writers'[l])
                /\ Total(writers'[l]) = Total(writers[l])
                /\ l \notin harmed' /\ Sound(writers[l]) => Sound(writers'[l])
      PROVE  FilesAgree'
  <2>1. ASSUME NEW l \in Launches, writers'[l] # None
        PROVE  /\ Sane(writers'[l])
               /\ ~channel_failed' =>
                     /\ pushed[l] = CountOf(device', l) + CountOf(chunk', l) + Total(writers'[l])
                     /\ l \notin harmed' => Sound(writers'[l])
    BY <1>1, <1>4, <2>1 DEF CaptureInv, FilesAgree, RecordsAreKept, FaultsAreKnown
  <2> QED BY <1>1, <1>2, <1>3, <1>4, <2>1, FilesChange
<1>5. CASE UNCHANGED <<writers, harmed>>
  BY <1>1, <1>2, <1>3, <1>5, FilesKept
<1>6. ASSUME NEW ok \in DiskOutcomes,
             writers' = [l \in Launches |-> IF l \in Open THEN Flush(writers[l], ok) ELSE None],
             harmed' = IF ok THEN harmed ELSE harmed \cup Open
      PROVE  FilesAgree'
  <2>1. ok \in BOOLEAN
    BY OutcomesAreBoolean
  <2>2. ASSUME NEW l \in Launches
        PROVE  /\ writers'[l] \in Writer \cup {None}
               /\ writers'[l] # None =>
                  /\ writers[l] # None /\ Sane(writers'[l])
                  /\ Total(writers'[l]) = Total(writers[l])
                  /\ l \notin harmed' /\ Sound(writers[l]) => Sound(writers'[l])
    <3>1. CASE l \in Open
      <4>1. writers'[l] = Flush(writers[l], ok) /\ writers[l] # None
        BY <1>6, <3>1 DEF Open
      <4>2. l \notin harmed' => ok
        BY <1>6, <3>1
      <4>3. writers[l] \in Writer /\ Sane(writers[l])
        BY <4>1, OpenWriters
      <4> QED BY <2>1, <4>1, <4>2, <4>3, FlushKeeps
    <3>2. CASE l \notin Open
      BY <1>6, <3>2
    <3> QED BY <3>1, <3>2
  <2>3. writers' \in [Launches -> Writer \cup {None}]
    <3> DEFINE F(l) == IF l \in Open THEN Flush(writers[l], ok) ELSE None
    <3>1. writers' = [l \in Launches |-> F(l)]
      BY <1>6
    <3>2. ASSUME NEW l \in Launches PROVE F(l) \in Writer \cup {None}
      <4>1. writers'[l] = F(l)
        BY <3>1
      <4> HIDE DEF F
      <4> QED BY <2>2, <4>1
    <3> HIDE DEF F
    <3> QED BY <3>1, <3>2
  <2>4. harmed \subseteq harmed' /\ harmed' \subseteq Nat
    <3>1. Open \subseteq Nat
      BY CaptureAssumption DEF Open, Launches
    <3>2. ok \in BOOLEAN
      BY <2>1
    <3>3. CASE ok
      BY <1>2, <1>6, <3>3
    <3>4. CASE ~ok
      BY <1>2, <1>6, <3>1, <3>4
    <3> QED BY <3>3, <3>4
  <2> QED BY <1>4, <2>2, <2>3, <2>4
<1>7. ASSUME NEW l \in Open, NEW ok \in DiskOutcomes,
             writers' = [writers EXCEPT ![l] = Disable(@, ok)], harmed' = harmed \cup {l}
      PROVE  FilesAgree'
  <2> DEFINE new == Disable(writers[l], ok)
  <2>1. ok \in BOOLEAN /\ l \in Launches /\ writers[l] # None
    BY OutcomesAreBoolean DEF Open
  <2>2. new \in Writer /\ Sane(new) /\ Total(new) = Total(writers[l])
    BY <2>1, OpenWriters, DisableKeeps
  <2>3. writers' = [writers EXCEPT ![l] = new]
    BY <1>7
  <2> HIDE DEF new
  <2>4. writers' \in [Launches -> Writer \cup {None}]
    BY <1>2, <2>2, <2>3
  <2>5. harmed \subseteq harmed' /\ harmed' \subseteq Nat
    BY <1>2, <1>7, <2>1, CaptureAssumption DEF Launches
  <2>6. ASSUME NEW m \in Launches, writers'[m] # None
        PROVE  /\ writers[m] # None /\ Sane(writers'[m])
               /\ Total(writers'[m]) = Total(writers[m])
               /\ m \notin harmed' /\ Sound(writers[m]) => Sound(writers'[m])
    <3>1. CASE m = l
      BY <1>2, <1>7, <2>1, <2>2, <2>3, <3>1
    <3>2. CASE m # l
      <4>1. writers'[m] = writers[m]
        BY <1>2, <2>3, <3>2
      <4> QED BY <2>6, <4>1, OpenWriters
    <3> QED BY <3>1, <3>2
  <2> QED BY <1>4, <2>4, <2>5, <2>6
<1> QED BY <1>5, <1>6, <1>7 DEF PeriodicChecks

(* The nodes of a graph are faults of their own already; a kernel that did *)
(* not complete, or whose records were not drained, becomes one.           *)
LEMMA RequestFiles ==
    ASSUME CaptureInv, RequestCompletion
    PROVE  FilesAgree'
<1>1. /\ host \in HostStates /\ harmed \subseteq Nat /\ tables \subseteq Launches
      /\ graph_launches \in Seq(Launches)
      /\ Elements(graph_launches) \subseteq harmed /\ Live \subseteq Launches
  BY DEF CaptureInv, CaptureType, HostType, QueueType, FileType, LaunchesInOrder, IdsInOrder,
         RecordsInOrder
<1>2. /\ UNCHANGED <<device, pushed, chunk, taken, writers, footer, channel_failed, tables>>
      /\ host.pc = "request"
      /\ IF host.graph THEN harmed' = harmed
         ELSE harmed' = IF host.completed /\ host.drained THEN harmed
                        ELSE harmed \cup {host.launch}
  BY DEF RequestCompletion, receiver, files
<1>3. host.launch \in Nat /\ Launches \subseteq Nat
  BY <1>1, CaptureAssumption DEF HostStates, Launches
<1>4. harmed \subseteq harmed' /\ harmed' \subseteq Nat
  BY <1>1, <1>2, <1>3
<1>5. ASSUME NEW l \in Live
      PROVE  \/ Request(l).completed /\ Request(l).drained
             \/ Request(l).launch \in harmed'
  <2>1. l \in Nat
    BY <1>1, <1>3
  <2>2. /\ Request(l).launch = l
        /\ Request(l).completed = host.completed /\ Request(l).drained = host.drained
    BY <1>1, <2>1, RequestIs
  <2>3. CASE host.graph
    BY <1>1, <1>2, <2>2, <2>3 DEF Live
  <2>4. CASE ~host.graph
    <3>1. l = host.launch
      BY <1>2, <2>4 DEF Live
    <3> QED BY <1>2, <2>2, <2>4, <3>1
  <2> QED BY <2>3, <2>4
<1>6. Requests' = Requests \cup {Request(l) : l \in Live}
  <2>1. Elements(pending') = Elements(pending) \cup {Request(l) : l \in Live}
    BY RequestQueue
  <2>2. Elements(taken') = Elements(taken)
    BY <1>2
  <2> QED BY <2>1, <2>2 DEF Requests
<1>7. \A q \in Requests' :
         q \in Requests \/ (q.completed /\ q.drained) \/ q.launch \in harmed'
  BY <1>5, <1>6
<1> QED BY <1>1, <1>2, <1>4, <1>7, FilesKept

(* When the receiver ends, every capture has been finished.                *)
LEMMA CloseFiles ==
    ASSUME CaptureInv, CloseWriters
    PROVE  FilesAgree'
<1>1. /\ rpc = "close" /\ writers' = [l \in Launches |-> None]
      /\ UNCHANGED <<device, pushed, chunk, taken, pending, channel_failed, tables, harmed>>
  BY DEF CloseWriters
<1>2. pending = <<>> /\ taken = <<>> /\ host.pc \in {"stopping", "down"}
  BY <1>1 DEF CaptureInv, ThreadsAgree
<1>3. Live = {} /\ Requested = {}
  BY <1>2, EmptyHasNone, LiveOutside DEF Requested, Requests
<1>4. Open = {}
  BY <1>3 DEF CaptureInv, LaunchesInOrder, CapturesInOrder, Open
<1>5. /\ writers \in [Launches -> Writer \cup {None}] /\ harmed \subseteq Nat
      /\ footer \in [Launches -> FooterRecord \cup {None}] /\ tables \subseteq Launches
  BY DEF CaptureInv, FilesAgree, FileType
<1>6. writers' = writers
  BY <1>1, <1>4, <1>5 DEF Open
<1>7. footer' = footer
  <2>1. footer' = [l \in Launches |-> footer[l]]
    BY <1>4 DEF CloseWriters
  <2> QED BY <1>5, <2>1
<1>8. Requests' = Requests
  BY <1>1, RequestsKept
<1> QED BY <1>1, <1>5, <1>6, <1>7, <1>8, FilesKept

LEMMA ReceiveFiles ==
    ASSUME CaptureInv, ReceiveChunk
    PROVE  FilesAgree'
<1>1. UNCHANGED <<pushed, taken, pending, writers, footer, channel_failed, tables, harmed>>
  BY DEF ReceiveChunk, files
<1>2. harmed \subseteq Nat /\ tables \subseteq Launches /\ device \in Seq(Records)
  BY DEF CaptureInv, CaptureType, QueueType, FileType
<1>3. chunk = <<>>
  BY DEF CaptureInv, ThreadsAgree, ReceiveChunk
<1>4. Requests' = Requests
  BY <1>1, RequestsKept
<1>5. ASSUME NEW l
      PROVE  CountOf(device', l) + CountOf(chunk', l) = CountOf(device, l) + CountOf(chunk, l)
  <2>1. /\ CountOf(chunk', l) + CountOf(device', l) = CountOf(device, l)
        /\ chunk' \in Seq(Records) /\ device' \in Seq(Records)
    BY ReceiveQueue
  <2>2. CountOf(chunk, l) = 0
    BY <1>3, EmptyHasNone
  <2>3. CountOf(device, l) \in Nat /\ CountOf(device', l) \in Nat /\ CountOf(chunk', l) \in Nat
    BY <1>2, <2>1, CountType
  <2> QED BY <2>1, <2>2, <2>3
<1> QED BY <1>1, <1>2, <1>4, <1>5, FilesKept

LEMMA FilesStep == ASSUME CaptureInv, [Next]_vars PROVE FilesAgree'
<1>1. harmed \subseteq Nat /\ tables \subseteq Launches
  BY DEF CaptureInv, FilesAgree, FileType
<1>2. ASSUME UNCHANGED <<device, pushed, chunk, taken, pending, writers, footer, harmed>>,
             ~channel_failed' => ~channel_failed, tables' \subseteq tables
      PROVE  FilesAgree'
  <2>1. Requests' = Requests
    BY <1>2, RequestsKept
  <2> QED BY <1>1, <1>2, <2>1, FilesKept
<1>3. CASE EnterGraphLaunch
  BY <1>2, <1>3 DEF EnterGraphLaunch, receiver, files
<1>4. CASE UnsupportedGraphLaunch
  BY <1>2, <1>4 DEF UnsupportedGraphLaunch, receiver, files
<1>5. CASE SynchronizeKernel
  BY <1>2, <1>5 DEF SynchronizeKernel, receiver, files
<1>6. CASE FlushChannel
  BY <1>2, <1>6 DEF FlushChannel, receiver, files
<1>7. CASE UnloadModule
  BY <1>2, <1>7 DEF UnloadModule, receiver, files
<1>8. CASE RetireModule
  BY <1>2, <1>8 DEF RetireModule, receiver, files
<1>9. CASE TerminateContext \/ ContextGone
  BY <1>2, <1>9 DEF TerminateContext, ContextGone, receiver, files
<1>10. CASE FinishBoundary
  BY <1>2, <1>10 DEF FinishBoundary, files
<1>11. CASE UNCHANGED vars
  BY <1>2, <1>11 DEF vars, receiver, files
<1>12. CASE TakeRequests
  <2>1. /\ taken = <<>> /\ taken' = pending /\ pending' = <<>>
        /\ UNCHANGED <<device, pushed, chunk, writers, footer, channel_failed, tables, harmed>>
    BY <1>12 DEF CaptureInv, ThreadsAgree, TakeRequests, AtChunkBoundary, files
  <2>2. Requests' = Requests
    BY <2>1 DEF Requests
  <2> QED BY <1>1, <2>1, <2>2, FilesKept
<1> QED BY <1>3, <1>4, <1>5, <1>6, <1>7, <1>8, <1>9, <1>10, <1>11, <1>12, LaunchFiles, PushFiles,
           FinishFiles, ParseRecordFiles, FailureFiles, PeriodicFiles, RequestFiles, CloseFiles,
           ReceiveFiles DEF Next, Receiver, HostReturns, HostCalls

LEMMA CaptureStep == ASSUME CaptureInv, [Next]_vars PROVE CaptureInv'
<1>1. HostType' /\ QueueType' /\ FilesAgree'
  BY HostTypeStep, QueueTypeStep, FilesStep
<1>2. ThreadsAgree' /\ BoundariesAreClean' /\ LaunchesInOrder' /\ TablesOutliveRecords'
  BY ThreadsStep, BoundariesStep, OrderStep, TablesStep
<1> QED BY <1>1, <1>2 DEF CaptureInv, CaptureType, FilesAgree

-----------------------------------------------------------------------------
(* The inductive invariant: the threads, the ids, the records in flight    *)
(* and the writers of a context agree at every step of either thread.      *)
THEOREM CaptureInvariant == Spec => []CaptureInv
BY CaptureStart, CaptureStep, PTL DEF Spec

(* A footer never claims more than its file holds, and while the channel   *)
(* is trusted it accounts for every record of its kernel: whatever order   *)
(* the launch callbacks, the receiver's boundaries and its periodic checks *)
(* come in, and whichever write to the disk fails (finish,                 *)
(* finish_requested_captures, take_at_chunk_boundary).                     *)
THEOREM FootersHold == Spec => []FootersAreTrue
<1>1. CaptureInv => FootersAreTrue
  BY DEF CaptureInv, FilesAgree
<1> QED BY <1>1, CaptureInvariant, PTL

(* The SASS tables of a module outlive every record that needs them, while *)
(* the channel is trusted (wait_for_receiver_boundary, retire).            *)
THEOREM TablesHold == Spec => []TablesOutliveRecords
<1>1. CaptureInv => TablesOutliveRecords
  BY DEF CaptureInv
<1> QED BY <1>1, CaptureInvariant, PTL


-----------------------------------------------------------------------------
(* The watchdogs.  When there is a time to count silence from, it is the   *)
(* last time anything was heard, and a kernel is captured.  A record can   *)
(* only continue the kernel last seen if that one sent something before,   *)
(* so the times of that kernel are running already.                        *)

HangTypes ==
    /\ clock \in Nat \ {0} /\ heard \in Nat /\ launched \in Nat
    /\ kernel_start_time \in Nat /\ last_data_received_time \in Nat
    /\ open \subseteq 1..launched /\ sent \subseteq open
    /\ last_seen_kernel_launch_id \in 0..launched

HangInv ==
    /\ HangTypes
    /\ last_seen_kernel_launch_id \in open => last_seen_kernel_launch_id \in sent
    /\ open = {} => kernel_start_time = 0
    /\ IF kernel_start_time = 0 THEN last_data_received_time = 0
       ELSE Hang!ReferenceTime = heard
    /\ Hang!WatchdogArmed
    /\ Hang!NoDataIsSilence

LEMMA HangInit == Hang!Init => HangInv
BY DEF Hang!Init, HangInv, HangTypes, Hang!NoDataIsSilence, Hang!WatchdogArmed,
       Hang!ReferenceTime

(* A graph launch only adds nodes.                                         *)
LEMMA NodesGrow ==
    ASSUME Hang!LaunchGraphNode
    PROVE  Hang!GraphNodes' = Hang!GraphNodes \cup {launched + 1}
<1>1. graphs' = (graphs \ {running}) \cup {running \cup {launched + 1}}
  BY DEF Hang!LaunchGraphNode
<1>2. running = {} \/ running \in graphs
  BY DEF Hang!LaunchGraphNode
<1> QED BY <1>1, <1>2 DEF Hang!GraphNodes

LEMMA HangStep == HangInv /\ [Hang!Next]_hang => HangInv'
<1> SUFFICES ASSUME HangInv, [Hang!Next]_hang PROVE HangInv'
  OBVIOUS
<1> USE DEF HangInv, HangTypes, Hang!NoDataIsSilence, Hang!WatchdogArmed,
            Hang!ReferenceTime
<1>1. CASE Hang!Tick
  <2>1. /\ clock' = clock + 1
        /\ UNCHANGED <<launched, open, graphs, sent, last_seen_kernel_launch_id,
                       kernel_start_time, last_data_received_time, heard, terminated>>
    BY <1>1 DEF Hang!Tick, Hang!kernels, Hang!times
  <2> QED BY <2>1, DeviceAssumption DEF Hang!GraphNodes
<1>2. CASE Hang!Launch
  BY <1>2 DEF Hang!Launch, Hang!OpenWriter, Hang!Alive, Hang!GraphNodes
<1>3. CASE Hang!LaunchGraphNode
  <2>1. Hang!GraphNodes' = Hang!GraphNodes \cup {launched + 1}
    BY <1>3, NodesGrow
  <2>2. /\ launched' = launched + 1 /\ open' = open \cup {launched + 1}
        /\ terminated = "no"
        /\ UNCHANGED <<clock, sent, last_seen_kernel_launch_id, kernel_start_time,
                       last_data_received_time, heard, terminated>>
    BY <1>3 DEF Hang!LaunchGraphNode, Hang!OpenWriter, Hang!Alive, Hang!times
  <2> QED BY <2>1, <2>2
<1>4. CASE Hang!LaunchEnds
  BY <1>4 DEF Hang!LaunchEnds, Hang!times, Hang!GraphNodes
<1>5. ASSUME NEW k \in Hang!Kernels, Hang!FinishCapture(k) PROVE HangInv'
  <2>1. /\ k \in open /\ terminated = "no"
        /\ open' = open \ {k} /\ sent' = sent \ {k}
        /\ IF open = {k} THEN kernel_start_time' = 0 /\ last_data_received_time' = 0
           ELSE UNCHANGED <<kernel_start_time, last_data_received_time>>
        /\ UNCHANGED <<clock, launched, graphs, last_seen_kernel_launch_id, heard,
                       terminated>>
    BY <1>5 DEF Hang!FinishCapture, Hang!Alive, Hang!ClearsWatchdog
  <2>2. Hang!GraphNodes' = Hang!GraphNodes
    BY <2>1 DEF Hang!GraphNodes
  <2>3. CASE open = {k}
    BY <2>1, <2>3
  <2>4. CASE open # {k}
    <3>1. open' # {}
      BY <2>1, <2>4
    <3>2. UNCHANGED <<kernel_start_time, last_data_received_time>>
      BY <2>1, <2>4
    <3> QED BY <2>1, <2>2, <3>1, <3>2
  <2> QED BY <2>3, <2>4
<1>6. ASSUME NEW k \in Hang!Kernels, NEW w \in Warps, NEW kind, NEW repeats,
             Hang!Record(k, w, kind, repeats)
      PROVE  HangInv'
  <2>1. /\ k \in open /\ terminated = "no"
        /\ kernel_start_time' = IF k # last_seen_kernel_launch_id THEN clock
                                ELSE kernel_start_time
        /\ last_seen_kernel_launch_id' = k
        /\ last_data_received_time' = clock /\ heard' = clock
        /\ sent' = sent \cup {k}
        /\ UNCHANGED <<clock, launched, open, graphs, terminated>>
    BY <1>6 DEF Hang!Record, Hang!kernels, Hang!Alive
  <2>2. kernel_start_time' # 0
    BY <2>1
  <2> QED BY <2>1, <2>2 DEF Hang!GraphNodes
<1>7. CASE Hang!CheckKernelHang
  BY <1>7 DEF Hang!CheckKernelHang, Hang!kernels, Hang!times, Hang!Alive, Hang!GraphNodes
<1>8. CASE Hang!CheckKernelTimeout
  BY <1>8 DEF Hang!CheckKernelTimeout, Hang!kernels, Hang!times, Hang!Alive, Hang!GraphNodes
<1>9. CASE Hang!CheckNoDataTimeout
  BY <1>9, DeviceAssumption
     DEF Hang!CheckNoDataTimeout, Hang!kernels, Hang!times, Hang!Alive, Hang!GraphNodes
<1>10. CASE UNCHANGED hang
  BY <1>10 DEF hang, Hang!GraphNodes
<1> QED BY <1>1, <1>2, <1>3, <1>4, <1>5, <1>6, <1>7, <1>8, <1>9, <1>10 DEF Hang!Next

-----------------------------------------------------------------------------
(* The delay configuration.  Whoever is between reading and replacing the  *)
(* file holds the lock, so nothing is saved that it has not merged.        *)

RunKernels == UNION {proc[q].own : q \in Procs}

(* What a process has merged while it is about to replace the file.        *)
MergedIsCurrent(q) ==
    /\ saved \subseteq proc[q].merged
    /\ proc[q].own \subseteq proc[q].merged
    /\ proc[q].merged \subseteq RunKernels

DumpFile ==
    {Dump!NoFile, Dump!Unreadable}
       \cup {Dump!Config(run, ks) : run \in {"this", "another"}, ks \in SUBSET DumpKernels}

DumpProc == [at : {"running", "save", "read", "replace", "gone"}, last : BOOLEAN,
             own : SUBSET DumpKernels, merged : SUBSET DumpKernels]

DumpInv ==
    /\ dump \in DumpFile /\ saved \in SUBSET DumpKernels
    /\ proc \in [Procs -> DumpProc]
    /\ \A q \in Procs : proc[q].at \in {"read", "replace"} => flock = q
    /\ \A q \in Procs : proc[q].at = "replace" => MergedIsCurrent(q)
    /\ Dump!DumpIsTheRun

LEMMA DumpStart == Dump!DumpInit => DumpInv
<1> SUFFICES ASSUME Dump!DumpInit PROVE DumpInv
  OBVIOUS
<1> USE DEF Dump!DumpInit
<1>1. proc \in [Procs -> DumpProc] /\ \A q \in Procs : proc[q].at = "running"
  BY DEF DumpProc, Dump!Fresh
<1>2. dump \in DumpFile /\ ~(dump.is = "config" /\ dump.run = "this")
  BY DEF DumpFile, Dump!NoFile, Dump!Unreadable, Dump!Config
<1> QED BY <1>1, <1>2 DEF DumpInv, Dump!DumpIsTheRun

(* A process moves and its kernels stay its own: what the run has          *)
(* instrumented only grows.                                                *)
LEMMA ProcMoves ==
    ASSUME proc \in [Procs -> DumpProc], NEW q \in Procs, NEW new \in DumpProc,
           Dump!Move(q, new), proc[q].own \subseteq new.own
    PROVE  /\ proc' \in [Procs -> DumpProc]
           /\ proc'[q] = new
           /\ \A r \in Procs \ {q} : proc'[r] = proc[r]
           /\ RunKernels \subseteq RunKernels'
<1>1. /\ proc' \in [Procs -> DumpProc]
      /\ proc'[q] = new
      /\ \A r \in Procs \ {q} : proc'[r] = proc[r]
  BY DEF Dump!Move
<1>2. \A r \in Procs : proc[r].own \subseteq proc'[r].own
  BY <1>1
<1> QED BY <1>1, <1>2 DEF RunKernels

(* A step of a process that leaves the file alone and after which it is    *)
(* not about to replace it.                                                *)
LEMMA DumpQuietStep ==
    ASSUME DumpInv, NEW q \in Procs, NEW new \in DumpProc, Dump!Move(q, new),
           proc[q].own \subseteq new.own, UNCHANGED <<dump, saved>>,
           new.at # "replace", new.at = "read" => flock' = q,
           flock' = flock \/ Dump!Unlock(q) \/ flock = Dump!Free
    PROVE  DumpInv'
<1>1. /\ proc' \in [Procs -> DumpProc]
      /\ proc'[q] = new
      /\ \A r \in Procs \ {q} : proc'[r] = proc[r]
      /\ RunKernels \subseteq RunKernels'
  BY ProcMoves DEF DumpInv
<1>2. ASSUME NEW r \in Procs, proc'[r].at \in {"read", "replace"} PROVE flock' = r
  BY <1>1, <1>2, DeviceAssumption DEF DumpInv, Dump!Unlock, Dump!Free
<1>3. ASSUME NEW r \in Procs, proc'[r].at = "replace" PROVE MergedIsCurrent(r)'
  <2>1. r # q /\ proc'[r] = proc[r]
    BY <1>1, <1>3
  <2> QED BY <1>1, <1>3, <2>1 DEF DumpInv, MergedIsCurrent
<1>4. Dump!DumpIsTheRun'
  BY <1>1 DEF DumpInv, Dump!DumpIsTheRun, RunKernels
<1> QED BY <1>1, <1>2, <1>3, <1>4 DEF DumpInv

LEMMA DumpStep == DumpInv /\ [Dump!DumpNext]_delays => DumpInv'
<1> SUFFICES ASSUME DumpInv, [Dump!DumpNext]_delays PROVE DumpInv'
  OBVIOUS
<1>1. CASE UNCHANGED delays
  BY <1>1 DEF delays, DumpInv, MergedIsCurrent, RunKernels, Dump!DumpIsTheRun
<1>2. ASSUME NEW q \in Procs,
             \/ \E k \in DumpKernels : Dump!Instrument(q, k)
             \/ Dump!Terminate(q) \/ Dump!Lock(q) \/ Dump!ReadAndMerge(q) \/ Dump!Replace(q)
             \/ Dump!SaveFails(q) \/ Dump!Killed(q)
      PROVE  DumpInv'
  <2> USE DEF Dump!At
  <2>1. proc[q] \in DumpProc
    BY DEF DumpInv
  <2>2. /\ Dump!Returned(q) \in DumpProc
        /\ Dump!Returned(q).own = proc[q].own
        /\ Dump!Returned(q).at \in {"running", "gone"}
    BY <2>1 DEF Dump!Returned, DumpProc
  <2>3. ASSUME NEW k \in DumpKernels, Dump!Instrument(q, k) PROVE DumpInv'
    <3> DEFINE new == [proc[q] EXCEPT !.at = "save", !.own = @ \cup {k}]
    <3>1. new \in DumpProc /\ new.at = "save" /\ proc[q].own \subseteq new.own
      BY <2>1 DEF DumpProc
    <3>2. Dump!Move(q, new) /\ UNCHANGED <<dump, flock, saved>>
      BY <2>3 DEF Dump!Instrument
    <3> HIDE DEF new
    <3> QED BY <3>1, <3>2, DumpQuietStep
  <2>4. CASE Dump!Terminate(q)
    <3> DEFINE new == [proc[q] EXCEPT !.at = "save", !.last = TRUE]
    <3>1. new \in DumpProc /\ new.at = "save" /\ proc[q].own \subseteq new.own
      BY <2>1 DEF DumpProc
    <3>2. Dump!Move(q, new) /\ UNCHANGED <<dump, flock, saved>>
      BY <2>4 DEF Dump!Terminate
    <3> HIDE DEF new
    <3> QED BY <3>1, <3>2, DumpQuietStep
  <2>5. CASE Dump!Lock(q)
    <3> DEFINE new == [proc[q] EXCEPT !.at = "read"]
    <3>1. new \in DumpProc /\ new.at = "read" /\ proc[q].own \subseteq new.own
      BY <2>1 DEF DumpProc
    <3>2. Dump!Move(q, new) /\ UNCHANGED <<dump, saved>> /\ flock = Dump!Free /\ flock' = q
      BY <2>5 DEF Dump!Lock
    <3> HIDE DEF new
    <3> QED BY <3>1, <3>2, DumpQuietStep
  <2>6. CASE Dump!ReadAndMerge(q)
    <3>1. CASE proc[q].own = {} /\ dump # Dump!NoFile
      BY <2>2, <2>6, <3>1, DumpQuietStep DEF Dump!ReadAndMerge
    <3>2. CASE ~(proc[q].own = {} /\ dump # Dump!NoFile)
      <4> DEFINE merged == Dump!SameRunKernels \cup proc[q].own
                 new == [proc[q] EXCEPT !.at = "replace", !.merged = merged]
      <4>1. merged \in SUBSET DumpKernels /\ merged \subseteq RunKernels /\ saved \subseteq merged
        BY <2>1 DEF DumpInv, DumpFile, DumpProc, RunKernels, Dump!SameRunKernels, Dump!Config,
                    Dump!NoFile, Dump!Unreadable, Dump!DumpIsTheRun
      <4>2. new \in DumpProc /\ new.at = "replace" /\ new.own = proc[q].own /\ new.merged = merged
        BY <2>1, <4>1 DEF DumpProc
      <4>3. Dump!Move(q, new) /\ UNCHANGED <<dump, flock, saved>>
        BY <2>6, <3>2 DEF Dump!ReadAndMerge
      <4>4. flock = q
        BY <2>6 DEF Dump!ReadAndMerge, DumpInv
      <4> HIDE DEF new
      <4>5. /\ proc' \in [Procs -> DumpProc]
            /\ proc'[q] = new
            /\ \A r \in Procs \ {q} : proc'[r] = proc[r]
            /\ RunKernels \subseteq RunKernels'
        BY <4>2, <4>3, ProcMoves DEF DumpInv
      <4>6. ASSUME NEW r \in Procs, proc'[r].at \in {"read", "replace"} PROVE flock' = r
        BY <4>3, <4>4, <4>5, <4>6 DEF DumpInv
      <4>8. ASSUME NEW r \in Procs, proc'[r].at = "replace" PROVE MergedIsCurrent(r)'
        <5>1. r = q
          BY <4>3, <4>4, <4>6, <4>8
        <5> QED BY <4>1, <4>2, <4>3, <4>5, <5>1 DEF MergedIsCurrent
      <4>9. Dump!DumpIsTheRun'
        BY <4>3, <4>5 DEF DumpInv, Dump!DumpIsTheRun, RunKernels
      <4> QED BY <4>3, <4>5, <4>6, <4>8, <4>9 DEF DumpInv
    <3> QED BY <3>1, <3>2
  <2>7. CASE Dump!Replace(q)
    <3>1. /\ Dump!Move(q, Dump!Returned(q)) /\ Dump!Unlock(q)
          /\ dump' = Dump!Config("this", proc[q].merged)
          /\ saved' = saved \cup proc[q].own
      BY <2>7 DEF Dump!Replace
    <3>2. flock = q /\ MergedIsCurrent(q)
      BY <2>7 DEF Dump!Replace, DumpInv
    <3>3. /\ proc' \in [Procs -> DumpProc]
          /\ proc'[q] = Dump!Returned(q)
          /\ \A r \in Procs \ {q} : proc'[r] = proc[r]
          /\ RunKernels \subseteq RunKernels'
      BY <2>2, <3>1, ProcMoves DEF DumpInv
    <3>4. ASSUME NEW r \in Procs PROVE ~(proc'[r].at \in {"read", "replace"})
      BY <2>2, <3>2, <3>3 DEF DumpInv
    <3>5. dump' \in DumpFile /\ saved' \in SUBSET DumpKernels
      BY <2>1, <3>1 DEF DumpInv, DumpFile, DumpProc
    <3>6. dump'.is = "config" /\ dump'.run = "this" /\ dump'.kernels = proc[q].merged
      BY <3>1 DEF Dump!Config
    <3>7. Dump!DumpIsTheRun'
      BY <3>1, <3>2, <3>3, <3>6 DEF Dump!DumpIsTheRun, MergedIsCurrent, RunKernels
    <3> QED BY <3>3, <3>4, <3>5, <3>7 DEF DumpInv
  <2>8. CASE Dump!SaveFails(q)
    BY <2>2, <2>8, DumpQuietStep DEF Dump!SaveFails
  <2>9. CASE Dump!Killed(q)
    <3> DEFINE new == [Dump!Returned(q) EXCEPT !.at = "gone"]
    <3>1. new \in DumpProc /\ new.at = "gone" /\ new.own = proc[q].own
      BY <2>2 DEF DumpProc
    <3>2. Dump!Move(q, new) /\ UNCHANGED <<dump, saved>> /\ Dump!Unlock(q)
      BY <2>9 DEF Dump!Killed
    <3> HIDE DEF new
    <3> QED BY <3>1, <3>2, DumpQuietStep
  <2> QED BY <1>2, <2>3, <2>4, <2>5, <2>6, <2>7, <2>8, <2>9
<1> QED BY <1>1, <1>2 DEF Dump!DumpNext

-----------------------------------------------------------------------------
(* The theorems.  Only one analysis runs; what the others keep stays as    *)
(* it was.                                                                 *)

(* The watchdogs guard every kernel that is captured and was launched      *)
(* directly or has sent a record, and kill for no other reason than        *)
(* silence, for any number of launches and graph nodes and any timeouts    *)
(* (enter_kernel_launch, nvbit_at_graph_node_launch,                       *)
(* finish_requested_captures, check_no_data_timeout).                      *)
THEOREM WatchdogsGuardCaptures == DeviceSpec => []WatchdogsAreTrue
<1>1. DeviceInit => HangInv
  BY HangInit DEF DeviceInit
<1>2. HangInv /\ [DeviceNext]_<<analysis, hang, delays, vars>> => HangInv'
  <2>1. [DeviceNext]_<<analysis, hang, delays, vars>> => [Hang!Next]_hang
    BY DEF DeviceNext, Trace, Detect, Delay
  <2> QED BY <2>1, HangStep
<1>3. HangInv => WatchdogsAreTrue
  BY DEF HangInv, WatchdogsAreTrue
<1> QED BY <1>1, <1>2, <1>3, PTL DEF DeviceSpec

(* However the processes of a run interleave, fail and die, the delay      *)
(* configuration they leave holds every kernel one of them saved and none  *)
(* that no process instrumented, for any number of processes and kernels   *)
(* (merge_delay_config_file).                                              *)
THEOREM DumpsMerge == DeviceSpec => []DumpIsTheRun
<1> DEFINE Inv == analysis = "random_delay" => DumpInv
<1>1. DeviceInit => Inv
  BY DumpStart DEF DeviceInit
<1>2. Inv /\ [DeviceNext]_<<analysis, hang, delays, vars>> => Inv'
  <2>1. [DeviceNext]_<<analysis, hang, delays, vars>> =>
            analysis' = analysis /\ (analysis = "random_delay" => [Dump!DumpNext]_delays)
    BY DEF DeviceNext, Trace, Detect, Delay
  <2> QED BY <2>1, DumpStep
<1>3. Inv => DumpIsTheRun
  BY DEF DumpInv, DumpIsTheRun
<1> HIDE DEF Inv
<1> QED BY <1>1, <1>2, <1>3, PTL DEF DeviceSpec

-----------------------------------------------------------------------------
(* The traces.  A process captures as TraceCapture says or not at all.     *)

LEMMA DeviceCaptures == DeviceSpec => Spec
<1>1. DeviceInit => Init
  BY DEF DeviceInit
<1>2. [DeviceNext]_<<analysis, hang, delays, vars>> => [Next]_vars
  BY DEF DeviceNext, Trace, Detect, Delay
<1> QED BY <1>1, <1>2, PTL DEF DeviceSpec, Spec

(* In every process under CUTracer a footer says no more than its file     *)
(* holds, and no less while the channel is trusted (TraceWriter::finish,   *)
(* finish_requested_captures).                                             *)
THEOREM FootersTellTheTruth == DeviceSpec => []FootersAreTrue
BY DeviceCaptures, FootersHold, PTL

(* In every process under CUTracer the tables a record is decoded with are *)
(* there until it is parsed (forget_runtime_module, wait_for_receiver).    *)
THEOREM TablesAreKept == DeviceSpec => []TablesOutliveRecords
BY DeviceCaptures, TablesHold, PTL

=============================================================================
