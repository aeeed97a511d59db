--------------------------- MODULE TraceExperiment ---------------------------
(***************************************************************************)
(* One trace experiment and the checkpoint of its result.                  *)
(* service/experiments/trace.py runs the target under CUTracer in an       *)
(* attempt directory of its own, promotes the log, the traces of the       *)
(* pinned kernel and their cubin to the experiment's directory, hands the  *)
(* capture to the caller as progress, and analyses it                      *)
(* (service/trace_analysis.py).  A later attempt may start from that       *)
(* progress.  The worker (external) seals every result with                *)
(* service/checkpoint.py and may die between any two steps; readers load   *)
(* the checkpoint at any time.                                             *)
(*                                                                         *)
(* The bytes of a file are the number of the capture that wrote them, so a *)
(* digest is that number too; 0 is a file that is not there.               *)
(***************************************************************************)
EXTENDS Naturals, Sequences, FiniteSets

CONSTANTS
    Bindings,       \* ExperimentDispatchBindings that use the directory
    Points,         \* delay points of the config the trace is aimed with
    Ons,            \* what a point's "on" may be
    MaxCaptures,    \* bound: runs of the target
    MaxCrashes,     \* bound: deaths of the worker
    MaxFaults       \* bound: file operations that fail

TraceNames == {"t1", "t2"}
Names == TraceNames \cup {"cubin", "log"}
None == [none |-> TRUE]

VARIABLES
    config,     \* "on" of every point of the resolved trace config
    captures,   \* what every run of the target left in its attempt directory
    dir,        \* the files of out_dir
    att,        \* the running attempt: _TraceRunState and where it is
    progress,   \* the last progress the callback was given
    envelope,   \* experiment_envelope.json
    marker,     \* _SUCCESS
    reader,     \* a load_terminal_checkpoint under way
    loaded,     \* what was ever loaded (history)
    crashes, faults

disk == <<dir, progress, envelope, marker>>
vars == <<config, captures, disk, att, reader, loaded, crashes, faults>>

Ref(name, bytes) == [name |-> name, sha |-> bytes]

-----------------------------------------------------------------------------
(* The config's points.  `on` may be missing, and need not be a boolean.   *)

(* _enabled_point_offset: point.get("on", True) *)
Enabled(point) == config[point] # "false"

(* _config_pc_offsets *)
PcOffsets == {point \in Points : Enabled(point)}

(* A config that enables no point is refused.                              *)
NothingToTrace == Points # {} /\ PcOffsets = {}

-----------------------------------------------------------------------------
(* A run of the target.  What a trace file is to the trace job:            *)
(* "exact", the pinned kernel at a launch of its own; "empty", the same    *)
(* with no record; "other", another kernel or launch; "again", a launch    *)
(* that another file has; "foreign", the kernel's name with another cubin. *)
(* What a failing target writes last are words, or only blanks.            *)

Runs ==
    {run \in [exit : {"ok", "failed", "timeout"}, text : {"words", "blanks"}, limit : BOOLEAN,
              t1 : {"exact", "other"}, t2 : {"exact", "empty", "again", "foreign", "none"},
              cubin : BOOLEAN, targets : {PcOffsets}] :
        /\ run.text = "blanks" => run.exit = "failed"
        /\ run.limit => run.exit = "ok"
        /\ ~run.cubin => run.t2 = "none"}

This == captures[att.n]

(* _selected_capture_outputs: the names to promote, or nothing if it       *)
(* raises: a foreign cubin, targeting that is not the job's, a launch seen *)
(* twice, no trace of the kernel, a cubin that is not there.               *)
Pinned == {name \in TraceNames : This[name] \in {"exact", "empty", "again"}}

SelectionRaises ==
    \/ This.t2 = "foreign"
    \/ This.targets # PcOffsets
    \/ This.t1 = "exact" /\ This.t2 = "again"
    \/ Pinned = {}
    \/ ~This.cubin

AllHaveRecords == \A name \in Pinned : This[name] # "empty"

(* The traces that are pinned, by name, before their cubin.                *)
InOrder(traces) == (IF "t1" \in traces THEN <<"t1">> ELSE <<>>)
                   \o (IF "t2" \in traces THEN <<"t2">> ELSE <<>>) \o <<"cubin">>

-----------------------------------------------------------------------------
(* The attempt.  `todo` holds the names that are still to be promoted.     *)

Idle == [at |-> "idle"]

NewAttempt(b) ==
    [at |-> "capture", binding |-> b, n |-> 0, todo |-> <<>>, traces |-> <<>>,
     cubins |-> <<>>, log |-> None, read |-> <<>>, analysis |-> None, result |-> None]

(* _TraceRunState.result *)
ResultOf(a, status, error, complete) ==
    [binding |-> a.binding, status |-> status, error |-> error,
     completeness |-> IF complete THEN "complete" ELSE "partial",
     traces |-> a.traces, cubins |-> a.cubins, log |-> a.log, analysis |-> a.analysis,
     read |-> a.read]

Finish(a, status, error, complete) ==
    att' = [a EXCEPT !.at = "seal", !.result = ResultOf(a, status, error, complete)]

Fails(a) == Finish(a, "INFRA_ERROR", "words", FALSE)

Init ==
    /\ config \in [Points -> Ons]
    /\ captures = <<>>
    /\ dir = [name \in Names |-> 0]
    /\ att = Idle /\ reader = Idle
    /\ progress = None /\ envelope = None /\ marker = None
    /\ loaded = {}
    /\ crashes = 0 /\ faults = 0

Fault == faults < MaxFaults /\ faults' = faults + 1

-----------------------------------------------------------------------------
(* The checkpoint (checkpoint.py).                                         *)

(* load_terminal_checkpoint, once the marker and the envelope are read:    *)
(* either may be from another dispatch, and the envelope may not be the    *)
(* one the marker commits.                                                 *)
(* Mutant: the dispatch is not compared.                                   *)
LoadsAnyDispatch(m, e, b) == e # None /\ e = m.sha
Loads(m, e, b) == /\ m.key = b
                  /\ e # None /\ e = m.sha
                  /\ e.binding = b

Loaded(b, r) == loaded' = loaded \cup {[binding |-> b, result |-> r]}

(* initialize_terminal_checkpoint: an existing result is returned, a       *)
(* checkpoint of another dispatch raises, anything else is reset.          *)
Initialize(b) ==
    \/ /\ marker # None
       /\ IF Loads(marker, envelope, b) THEN Loaded(b, envelope) ELSE UNCHANGED loaded
       /\ UNCHANGED <<att, envelope, marker>>
    \/ /\ marker = None
       /\ envelope' = None /\ marker' = None
       /\ att' = NewAttempt(b)
       /\ UNCHANGED loaded

Begin ==
    /\ att = Idle
    /\ \E b \in Bindings : Initialize(b)
    /\ UNCHANGED <<config, captures, dir, progress, reader, crashes, faults>>

(* seal_terminal_checkpoint: the old marker goes first, the new one is     *)
(* written last.                                                           *)
SealUnlink ==
    /\ att.at = "seal"
    /\ marker' = None /\ att' = [att EXCEPT !.at = "envelope"]
    /\ UNCHANGED <<config, captures, dir, progress, envelope, reader, loaded, crashes, faults>>

SealEnvelope ==
    /\ att.at = "envelope"
    /\ envelope' = att.result /\ att' = [att EXCEPT !.at = "marker"]
    /\ UNCHANGED <<config, captures, dir, progress, marker, reader, loaded, crashes, faults>>

SealMarker ==
    /\ att.at = "marker"
    /\ marker' = [key |-> att.binding, sha |-> envelope] /\ att' = Idle
    /\ UNCHANGED <<config, captures, dir, progress, envelope, reader, loaded, crashes, faults>>

(* A reader opens the marker, and the envelope later.                      *)
ReadMarker ==
    /\ reader = Idle /\ marker # None
    /\ \E b \in Bindings : reader' = [at |-> "envelope", binding |-> b, marker |-> marker]
    /\ UNCHANGED <<config, captures, disk, att, loaded, crashes, faults>>

ReadEnvelope ==
    /\ reader.at = "envelope"
    /\ IF Loads(reader.marker, envelope, reader.binding)
       THEN Loaded(reader.binding, envelope) ELSE UNCHANGED loaded
    /\ reader' = Idle
    /\ UNCHANGED <<config, captures, disk, att, crashes, faults>>

-----------------------------------------------------------------------------
(* A fresh capture.                                                        *)

(* _run_trace_capture.  The target may also fail to start.                 *)
Capture ==
    /\ att.at = "capture" /\ Len(captures) < MaxCaptures
    /\ \/ /\ ~NothingToTrace
          /\ \E run \in Runs : captures' = Append(captures, run)
          /\ att' = [att EXCEPT !.at = "log", !.n = Len(captures) + 1]
          /\ UNCHANGED faults
       \/ /\ IF NothingToTrace THEN UNCHANGED faults ELSE Fault
          /\ Fails(att)
          /\ UNCHANGED captures
    /\ UNCHANGED <<config, disk, reader, loaded, crashes>>

(* The local fallback reads the config again when it checks the capture.   *)
ConfigChanges ==
    /\ Fault
    /\ att.at = "log"
    /\ config' \in [Points -> Ons] \ {config}
    /\ UNCHANGED <<captures, disk, att, reader, loaded, crashes>>

(* _sealed_log_if_available: whatever log out_dir has.                     *)
SealedLog == IF dir["log"] = 0 THEN None ELSE Ref("log", dir["log"])

(* The sealing raised: _seal_fresh_capture, _seal_timed_out_capture.       *)
SealFails(a) ==
    LET b == [a EXCEPT !.log = SealedLog]
    IN  CASE This.exit = "failed"  -> Finish(b, "FAILED", "words", FALSE)
          [] This.exit = "timeout" -> Finish(b, "TIMED_OUT", "words", FALSE)
          [] OTHER -> Fails(b)

(* _capture_to_log and _promote_artifact.                                  *)
PromoteLog ==
    /\ att.at = "log"
    /\ \/ /\ dir' = [dir EXCEPT !["log"] = att.n]
          /\ att' = [att EXCEPT !.at = "select"]
          /\ UNCHANGED faults
       \/ /\ Fault /\ SealFails(att)
          /\ UNCHANGED dir
    /\ UNCHANGED <<config, captures, progress, envelope, marker, reader, loaded, crashes>>

Select ==
    /\ att.at = "select"
    /\ IF SelectionRaises THEN SealFails(att)
       ELSE att' = [att EXCEPT !.at = "promote", !.todo = InOrder(Pinned)]
    /\ UNCHANGED <<config, captures, disk, reader, loaded, crashes, faults>>

(* _promote_paths: each file atomically, traces before cubins.             *)
Promote ==
    /\ att.at = "promote" /\ att.todo # <<>>
    /\ LET name == Head(att.todo)
           ref  == Ref(name, att.n)
       IN  \/ /\ dir' = [dir EXCEPT ![name] = att.n]
              /\ att' = [att EXCEPT !.todo = Tail(@),
                            !.traces = IF name \in TraceNames THEN Append(@, ref) ELSE @,
                            !.cubins = IF name = "cubin" THEN Append(@, ref) ELSE @]
              /\ UNCHANGED faults
           \/ /\ Fault /\ SealFails(att)
              /\ UNCHANGED dir
    /\ UNCHANGED <<config, captures, progress, envelope, marker, reader, loaded, crashes>>

(* _capture_error: the status and the error of a capture that is no good.  *)
(* A target that failed with only blanks as its last words hands them on   *)
(* as the error (_target_failure_detail).                                  *)
CaptureError ==
    CASE This.exit = "failed"  -> <<"FAILED", This.text>>
      [] This.exit = "timeout" -> <<"TIMED_OUT", "words">>
      [] This.exit = "ok" /\ (This.limit \/ ~AllHaveRecords) -> <<"INFRA_ERROR", "words">>
      [] OTHER -> <<>>

(* The rest of _seal_fresh_capture: the verdict on the capture, then the   *)
(* progress callback.                                                      *)
Judge ==
    /\ att.at = "promote" /\ att.todo = <<>>
    /\ LET a == [att EXCEPT !.log = Ref("log", att.n)]
       IN  IF CaptureError = <<>>
           THEN /\ progress' = ResultOf(a, "SUCCEEDED", "none", FALSE)
                /\ att' = [a EXCEPT !.at = "analyze",
                              !.read = [i \in DOMAIN a.traces |-> dir[a.traces[i].name]]]
           ELSE /\ Finish(a, CaptureError[1], CaptureError[2], FALSE)
                /\ UNCHANGED progress
    /\ UNCHANGED <<config, captures, dir, envelope, marker, reader, loaded, crashes, faults>>

-----------------------------------------------------------------------------
(* A resumed capture: _validate_resume, _resume_analysis_paths.            *)

Sealed(refs) == \A i \in DOMAIN refs : dir[refs[i].name] = refs[i].sha

(* Mutant: the files are taken as the progress describes them.             *)
StagesUnverified(q) == TRUE
Stages(q) == Sealed(q.traces) /\ Sealed(q.cubins) /\ Sealed(<<q.log>>)

Resume ==
    /\ att.at = "capture" /\ progress # None
    /\ LET a == [att EXCEPT !.traces = progress.traces, !.cubins = progress.cubins,
                            !.log = progress.log]
       IN  IF progress.binding # att.binding THEN Fails(att)
           ELSE IF Stages(progress)
           THEN att' = [a EXCEPT !.at = "analyze",
                           !.read = [i \in DOMAIN a.traces |-> dir[a.traces[i].name]]]
           ELSE Fails(a)
    /\ UNCHANGED <<config, captures, disk, reader, loaded, crashes, faults>>

-----------------------------------------------------------------------------
(* trace_analysis.py: every file on its own, then one report.              *)

(* _analyze_trace_file: a file whose analyzer raises or changes its name   *)
(* has no summary; one with a detector that cannot be projected has some.  *)
FileOutcomes == {"ok", "detector", "raises"}

(* run_trace_analysis and _run_trace_analyzer.  With one trace and no      *)
(* payload nothing is written; a report that cannot be written is no       *)
(* artifact; either way the evidence is an infrastructure error.           *)
Evidence(names, outcome, written) ==
    LET ok == \A name \in names : outcome[name] = "ok"
        report == written /\ (Cardinality(names) > 1 \/ \A name \in names :
                                                           outcome[name] # "raises")
    IN  [status |-> IF ok /\ report THEN "SUCCEEDED" ELSE "INFRA_ERROR",
         error |-> IF ok /\ report THEN "none" ELSE "words",
         artifact |-> report,
         files |-> {name \in names : outcome[name] # "raises"}]

(* _analyze_trace_paths *)
Analyze ==
    /\ att.at = "analyze"
    /\ LET names == {att.traces[i].name : i \in DOMAIN att.traces}
       IN  \E outcome \in [names -> FileOutcomes], written \in BOOLEAN :
             LET e == Evidence(names, outcome, written)
                 a == [att EXCEPT !.analysis = e]
             IN  IF e.status = "SUCCEEDED" THEN Finish(a, "SUCCEEDED", "none", TRUE)
                 ELSE Fails(a)
    /\ UNCHANGED <<config, captures, disk, reader, loaded, crashes, faults>>

-----------------------------------------------------------------------------
Crash ==
    /\ att # Idle /\ crashes < MaxCrashes
    /\ crashes' = crashes + 1 /\ att' = Idle
    /\ UNCHANGED <<config, captures, disk, reader, loaded, faults>>

Next ==
    \/ Begin \/ SealUnlink \/ SealEnvelope \/ SealMarker \/ ReadMarker \/ ReadEnvelope
    \/ Capture \/ ConfigChanges \/ PromoteLog \/ Select \/ Promote \/ Judge
    \/ Resume \/ Analyze \/ Crash

Spec == Init /\ [][Next]_vars

-----------------------------------------------------------------------------
(* _validate_trace_result of session.py.                                   *)

SuccessShape(r) ==
    /\ r.traces # <<>> /\ r.error = "none"
    /\ r.completeness = "complete"
    /\ r.cubins # <<>> /\ r.log # None

FailureShape(r) == r.error = "words" /\ r.completeness = "partial"

AnalysisShape(r) ==
    /\ r.analysis.files \subseteq {r.traces[i].name : i \in DOMAIN r.traces}
    /\ \/ r.status = "SUCCEEDED" /\ r.analysis.status = "SUCCEEDED"
       \/ r.status = "INFRA_ERROR" /\ r.completeness = "partial" /\ r.traces # <<>>
    /\ IF r.analysis.status = "SUCCEEDED"
       THEN r.analysis.artifact /\ r.analysis.error = "none"
       ELSE r.analysis.error = "words"

Accepts(r) ==
    /\ IF r.status = "SUCCEEDED" THEN SuccessShape(r) ELSE FailureShape(r)
    /\ Cardinality({r.traces[i].name : i \in DOMAIN r.traces}) = Len(r.traces)
    /\ IF r.analysis = None THEN r.status # "SUCCEEDED" ELSE AnalysisShape(r)

Produced == {x.result : x \in loaded} \cup
            (IF att # Idle /\ att.result # None THEN {att.result} ELSE {})

(* A complete trace is one capture: the log, the cubin and every trace are *)
(* of the same run of the target, that run ended well, within its size     *)
(* limit, and had a record in each trace, and the analysis read the very   *)
(* bytes the result names, however many attempts left files in the         *)
(* directory (run_trace_experiment, _stage_resume_artifacts).              *)
CompleteIsOneCapture ==
    \A r \in Produced : r.completeness = "complete" =>
        LET n == r.log.sha
        IN  /\ \A i \in DOMAIN r.traces : r.traces[i].sha = n /\ r.read[i] = n
            /\ \A i \in DOMAIN r.cubins : r.cubins[i].sha = n
            /\ captures[n].exit = "ok" /\ ~captures[n].limit
            /\ {r.traces[i].name : i \in DOMAIN r.traces} =
                 {name \in TraceNames : captures[n][name] \in {"exact", "again"}}

(* The result of a target that failed and whose last words were blanks.    *)
HandsOnBlanks(r) == r.status = "FAILED" /\ r.error = "blanks"

Worded(r) == IF HandsOnBlanks(r) THEN [r EXCEPT !.error = "words"] ELSE r

(* Every result the adapter builds is one the session accepts              *)
(* (_validate_trace_result), with one exception: a failed target's blank   *)
(* last words are handed on as the error (_target_failure_detail), and     *)
(* that error, nothing else, is what the session refuses.                  *)
TraceAccepted == \A r \in Produced : Accepts(Worded(r))

(* A checkpoint is never taken for another dispatch's, nor read while it   *)
(* is being replaced: what is loaded was sealed for that dispatch, and     *)
(* never changes once it was loaded (load_terminal_checkpoint,             *)
(* initialize_terminal_checkpoint).                                        *)
CommittedIsFinal ==
    /\ \A x \in loaded : x.result.binding = x.binding
    /\ \A x, y \in loaded : x.binding = y.binding => x.result = y.result

=============================================================================
