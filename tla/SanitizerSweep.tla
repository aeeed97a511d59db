--------------------------- MODULE SanitizerSweep ---------------------------
(***************************************************************************)
(* One Compute Sanitizer experiment, from the lines the tool writes to the *)
(* result the session accepts: compute_sanitizer/parser.py reads the log,  *)
(* service/experiments/sanitizer.py runs the tool and collects the log,    *)
(* service/sanitizer_results.py builds the result and projects a whole     *)
(* target's result onto one kernel.  The tool (external) may be killed     *)
(* after any line, stop printing at its display limit, fail internally or  *)
(* write lines the parser does not recognise.  Lines of the child process  *)
(* carry no marker and are skipped (_sanitizer_body), so they are left out.*)
(***************************************************************************)
EXTENDS Naturals, Sequences, FiniteSets

CONSTANTS
    MaxBlocks,      \* bound: diagnostic blocks the tool writes
    MaxNoise,       \* bound: other lines it writes
    SiteLookahead   \* _SITE_LOOKAHEAD, the lines in which a site is looked for

ErrorTools == {"initcheck", "memcheck"}
Tools == {"racecheck"} \cup ErrorTools
TargetScoped == {"initcheck"}       \* TARGET_SCOPED_SANITIZER_TOOLS

(* Where a diagnostic points: a kernel, the host, or nowhere.              *)
NoSite == "no site"
Sites == {"own kernel", "other kernel", NoSite}

VARIABLES
    tool,       \* ExperimentSpec.sanitizer_tool
    pinned,     \* the WorkUnit names a kernel
    world,      \* the tool process: what it has really reported
    p,          \* the parser
    result      \* the experiment's result

vars == <<tool, pinned, world, p, result>>

(* No summary, or no result, yet.                                         *)
None == [none |-> TRUE]

-----------------------------------------------------------------------------
(* The parser (_RacecheckParser, _ErrorCheckerParser).  `open` is the      *)
(* block being read: a race header and its conflicts, an invalid access or *)
(* an issue that waits for its site.                                       *)

Closed == [kind |-> "closed"]

NewParser == [issues |-> <<>>, diagnostics |-> {}, summary |-> None, markers |-> 0,
              truncated |-> FALSE, notPrinted |-> 0, open |-> Closed]

Diagnose(q, d) == [q EXCEPT !.diagnostics = @ \cup {d}]

(* _build_finding, _build_invalid_access, CheckerIssue                     *)
Keep(q, severity, site) ==
    [q EXCEPT !.issues = Append(@, [kind |-> q.open.kind, severity |-> severity,
                                    site |-> site]),
              !.open = Closed]

(* Mutant: a header without a conflict is dropped quietly.                 *)
FlushQuiet(q) ==
    CASE q.open.kind = "race" /\ q.open.conflicts > 0 -> Keep(q, q.open.severity, q.open.site)
      [] q.open.kind = "invalid" -> Keep(q, "error", NoSite)
      [] q.open.kind = "issue" -> Keep(q, "error", q.open.site)
      [] OTHER -> [q EXCEPT !.open = Closed]

(* flush: a race needs a conflicting access, an issue a site unless it is  *)
(* a host message.                                                         *)
Flush(q) ==
    CASE q.open.kind = "race" ->
           IF q.open.conflicts > 0 THEN Keep(q, q.open.severity, q.open.site)
           ELSE Diagnose([q EXCEPT !.open = Closed], "incomplete_finding")
      [] q.open.kind = "invalid" -> Keep(q, "error", NoSite)
      [] q.open.kind = "issue" ->
           IF q.open.site # NoSite \/ q.open.host THEN Keep(q, "error", q.open.site)
           ELSE Diagnose(Keep(q, "error", NoSite), "incomplete_finding")
      [] OTHER -> q

Open(q, block) == [Flush(q) EXCEPT !.open = block]

(* consume_summary, of either parser.                                      *)
ConsumeSummary(q, line) ==
    IF line.kind = "summary"
    THEN [Flush(q) EXCEPT !.markers = @ + 1, !.summary = line.counts]
    ELSE Diagnose([Flush(q) EXCEPT !.markers = @ + 1], "malformed_summary")

IsSummary(line) == line.kind \in {"summary", "cut summary"}

(* _RacecheckParser.consume once no invalid access is pending.             *)
ConsumeRace(q, line) ==
    IF line.kind = "header"
    THEN Open(q, [kind |-> "race", severity |-> line.severity, site |-> line.site,
                  conflicts |-> 0])
    ELSE IF line.kind = "garbled header" THEN Diagnose(Flush(q), "unparsed_finding")
    ELSE IF q.open.kind # "race" THEN q
    ELSE IF line.kind = "conflict" THEN [q EXCEPT !.open.conflicts = 1]
    ELSE Flush(IF line.kind = "garbled conflict" THEN Diagnose(q, "unparsed_finding") ELSE q)

(* consume_auxiliary_block, then the rest of consume.  A pending invalid   *)
(* access takes the next lines for itself until its site or a header.      *)
ConsumeRacecheck(q, line) ==
    CASE line.kind = "internal error" -> Diagnose(Flush(q), "internal_tool_error")
      [] IsSummary(line) -> ConsumeSummary(q, line)
      [] line.kind = "truncation" -> [Flush(q) EXCEPT !.truncated = TRUE]
      [] line.kind = "invalid" -> Open(q, [kind |-> "invalid", seen |-> 0])
      [] OTHER ->
           IF q.open.kind # "invalid" THEN ConsumeRace(q, line)
           ELSE IF line.kind = "site" THEN Keep(q, "error", line.site)
           ELSE IF line.kind # "header" /\ q.open.seen < SiteLookahead
                THEN [q EXCEPT !.open.seen = @ + 1]
           ELSE ConsumeRace(Flush(q), line)

(* _checker_issue_at, read forwards: an issue looks for its site in the    *)
(* next lines.                                                             *)
LookForSite(q, line) ==
    IF q.open.kind # "issue" THEN q
    ELSE IF q.open.seen >= SiteLookahead THEN Flush(q)
    ELSE [q EXCEPT !.open = [kind |-> "issue", host |-> q.open.host, seen |-> q.open.seen + 1,
             site |-> IF line.kind = "site" /\ q.open.site = NoSite
                      THEN line.site ELSE q.open.site]]

(* _parse_error_checker_log: an issue looks up to another message or a     *)
(* summary.                                                                *)
ConsumeChecker(q, line) ==
    CASE line.kind = "not printed" ->
           [Flush(q) EXCEPT !.truncated = TRUE, !.notPrinted = line.count]
      [] IsSummary(line) -> ConsumeSummary(q, line)
      [] line.kind = "message" ->
           Open(q, [kind |-> "issue", site |-> NoSite, host |-> line.host, seen |-> 0])
      [] OTHER ->
           LookForSite(IF line.kind = "internal error" THEN Diagnose(q, "internal_tool_error")
                       ELSE q, line)

Consume(line) ==
    p' = IF tool = "racecheck" THEN ConsumeRacecheck(p, line) ELSE ConsumeChecker(p, line)

(* CheckerSummary.is_positive                                              *)
Positive(s) == s.errors > 0 \/ s.warnings > 0 \/ s.total > 0

HasRace(q, severity) ==
    \E i \in DOMAIN q.issues :
       q.issues[i].kind = "race" /\ q.issues[i].severity = severity

(* _summary_consistency_diagnostics, and the checks of                     *)
(* _ErrorCheckerParser.finish.                                             *)
Consistency(q) ==
    LET s == q.summary
        reported == q.issues # <<>>
        mismatch ==
          \/ ~Positive(s) /\ reported
          \/ Positive(s) /\ ~reported /\ ~(tool # "racecheck" /\ q.truncated)
          \/ /\ tool = "racecheck"
             /\ \/ s.errors = 0 /\ HasRace(q, "error")
                \/ s.warnings = 0 /\ HasRace(q, "warning")
    IN  (IF mismatch THEN {"summary_finding_mismatch"} ELSE {})
        \cup (IF tool = "racecheck" /\ (s.total = 0) # (s.errors = 0 /\ s.warnings = 0)
              THEN {"summary_count_mismatch"} ELSE {})

(* finish *)
Finish(open) ==
    LET q == Flush(open)
    IN  [q EXCEPT !.diagnostics = @
            \cup (IF q.markers = 0 THEN {"missing_summary"} ELSE {})
            \cup (IF q.markers > 1 THEN {"multiple_summaries"} ELSE {})
            \cup (IF q.summary = None THEN {} ELSE Consistency(q))]

-----------------------------------------------------------------------------
(* The tool (external).  Its summary counts every block it found, printed  *)
(* or not; it counts a potential invalid access as an error.               *)

Init ==
    /\ tool \in Tools
    /\ pinned \in BOOLEAN
    /\ world = [state |-> "running", blocks |-> <<>>, hidden |-> 0, noise |-> 0,
                last |-> "start", summed |-> FALSE]
    /\ p = NewParser
    /\ result = None

Block == world.blocks[Len(world.blocks)]

Running == world.state = "running"

(* With a kernel filter the tool only sees the pinned kernel               *)
(* (_kernel_filter_name).                                                  *)
Visible == IF pinned /\ tool \notin TargetScoped THEN {"own kernel"}
           ELSE {"own kernel", "other kernel"}

NewBlock(kind, severity, site, whole, line) ==
    /\ Running /\ ~world.summed
    /\ Len(world.blocks) < MaxBlocks
    /\ tool = "racecheck" => world.hidden = 0
    /\ world' = [world EXCEPT
                    !.blocks = Append(@, [kind |-> kind, severity |-> severity,
                                          site |-> site, whole |-> whole]),
                    !.last = line.kind]
    /\ Consume(line)
    /\ UNCHANGED <<tool, pinned, result>>

RaceHeader ==
    /\ tool = "racecheck"
    /\ \E severity \in {"error", "warning"}, site \in Visible :
          NewBlock("race", severity, site, FALSE,
                   [kind |-> "header", severity |-> severity, site |-> site])

(* A symbol with blanks, or a line that was cut short.                     *)
GarbledHeader ==
    /\ tool = "racecheck"
    /\ NewBlock("garbled", "error", "own kernel", FALSE, [kind |-> "garbled header"])

InvalidAccess ==
    /\ tool = "racecheck"
    /\ \E site \in Visible : NewBlock("invalid", "error", site, TRUE, [kind |-> "invalid"])

Message ==
    /\ tool \in ErrorTools
    /\ \E site \in Visible \cup (IF tool = "memcheck" THEN {NoSite} ELSE {}) :
          NewBlock("issue", "error", site, tool \notin TargetScoped,
                   [kind |-> "message", host |-> site = NoSite])

(* A diagnostic in words _checker_message does not know.                   *)
UnknownMessage ==
    /\ tool \in ErrorTools
    /\ NewBlock("unknown", "error", "own kernel", FALSE, [kind |-> "noise"])

(* A further line of the last block, or one that belongs to none.          *)
Line(line) ==
    /\ Running
    /\ world' = [world EXCEPT !.last = line.kind]
    /\ Consume(line)
    /\ UNCHANGED <<tool, pinned, result>>

Conflict ==
    /\ world.last \in {"header", "conflict"}
    /\ Running
    /\ world' = [world EXCEPT !.blocks[Len(world.blocks)].whole = TRUE, !.last = "conflict"]
    /\ Consume([kind |-> "conflict"])
    /\ UNCHANGED <<tool, pinned, result>>

GarbledConflict ==
    world.last \in {"header", "conflict"} /\ Line([kind |-> "garbled conflict"])

Site ==
    /\ Running /\ world.last \in {"invalid", "message", "noise"}
    /\ world.blocks # <<>> /\ Block.kind \in {"invalid", "issue"} /\ Block.site # NoSite
    /\ world' = [world EXCEPT !.blocks[Len(world.blocks)].whole = @ \/ world.last = "message",
                              !.last = "site"]
    /\ Consume([kind |-> "site", site |-> Block.site])
    /\ UNCHANGED <<tool, pinned, result>>

Noise ==
    /\ Running /\ world.noise < MaxNoise
    /\ \E kind \in {"noise", "internal error"} :
          /\ world' = [world EXCEPT !.noise = @ + 1, !.last = kind]
          /\ Consume([kind |-> kind])
    /\ UNCHANGED <<tool, pinned, result>>

(* The display limit: racecheck says so at once, the others at the end.    *)
LimitReached ==
    /\ Running /\ world.hidden = 0 /\ ~world.summed
    /\ world.blocks # <<>>
    /\ world' = [world EXCEPT !.hidden = 1, !.last = "truncation"]
    /\ IF tool = "racecheck" THEN Consume([kind |-> "truncation"]) ELSE UNCHANGED p
    /\ UNCHANGED <<tool, pinned, result>>

CountOf(severity) == Cardinality({i \in DOMAIN world.blocks :
                                    world.blocks[i].severity = severity})

Counts ==
    LET errors == CountOf("error") + world.hidden
    IN  [errors |-> errors,
         warnings |-> CountOf("warning"),
         total |-> IF tool = "racecheck" THEN errors + CountOf("warning") ELSE 0]

Summary ==
    /\ Running /\ ~world.summed
    /\ world' = [world EXCEPT !.summed = TRUE, !.last = "summary"]
    /\ Consume([kind |-> "summary", counts |-> Counts])
    /\ UNCHANGED <<tool, pinned, result>>

CutSummary ==
    /\ Running /\ ~world.summed
    /\ world' = [world EXCEPT !.state = "killed"]
    /\ Consume([kind |-> "cut summary"])
    /\ UNCHANGED <<tool, pinned, result>>

NotPrinted ==
    /\ Running /\ tool \in ErrorTools /\ world.last = "summary" /\ world.hidden > 0
    /\ Line([kind |-> "not printed", count |-> world.hidden])

(* The process ends; exit 0 promises nothing about the log.                *)
Ends ==
    /\ Running
    /\ \E state \in {"exit 0", "exit 1", "killed"} \cup
                    (IF world.last = "start" THEN {"never ran"} ELSE {}) :
          world' = [world EXCEPT !.state = state]
    /\ UNCHANGED <<tool, pinned, p, result>>

-----------------------------------------------------------------------------
(* _invoke_sanitizer, _read_and_publish_log, build_sanitizer_result.       *)

(* Mutant: a run that was cut off counts as ended.                         *)
InvokeStatusEnded ==
    IF world.state \in {"exit 0", "killed"} THEN "SUCCEEDED" ELSE "FAILED"

InvokeStatus ==
    CASE world.state = "exit 0" -> "SUCCEEDED"
      [] world.state = "exit 1" -> "FAILED"
      [] world.state = "killed" -> "TIMED_OUT"
      [] OTHER -> "INFRA_ERROR"

RecordArtifactFailure(status) == IF status = "SUCCEEDED" THEN "INFRA_ERROR" ELSE status

(* Mutant: the exit of the process does not matter to a clean log.         *)
SanitizerOutcomeOfLog(q, status, log) ==
    IF q.diagnostics # {} \/ q.summary = None THEN "UNKNOWN"
    ELSE IF Positive(q.summary) THEN "FINDING" ELSE "CLEAN"

(* _sanitizer_outcome *)
SanitizerOutcome(q, status, log) ==
    IF q.diagnostics # {} \/ q.summary = None THEN "UNKNOWN"
    ELSE IF Positive(q.summary) THEN "FINDING"
    ELSE IF status = "SUCCEEDED" /\ log THEN "CLEAN" ELSE "UNKNOWN"

BuildSanitizerResult(status0, log, q) ==
    LET status == IF "internal_tool_error" \in q.diagnostics THEN "INFRA_ERROR" ELSE status0
    IN  [status |-> status, log |-> log, outcome |-> SanitizerOutcome(q, status, log),
         findings |-> q.issues, summary |-> q.summary, issues |-> q.diagnostics,
         complete |-> q.diagnostics = {} /\ q.summary # None,
         truncated |-> q.truncated]

HasPositiveSignal(r) ==
    r.outcome = "FINDING" \/ r.findings # <<>> \/ (r.summary # None /\ Positive(r.summary))

HasUsablePositiveSignal(r) ==
    \/ r.findings # <<>>
    \/ /\ r.status \in {"SUCCEEDED", "FAILED"} /\ r.complete /\ r.issues = {}
       /\ HasPositiveSignal(r)

HasTrustworthyClean(r) ==
    /\ r.status = "SUCCEEDED" /\ r.outcome = "CLEAN" /\ r.complete
    /\ r.summary # None /\ ~Positive(r.summary)
    /\ r.issues = {} /\ r.findings = <<>>

IsOwn(f) == f.site = "own kernel"

FullyAttributed(r) ==
    /\ r.findings # <<>>
    /\ \A i \in DOMAIN r.findings : IsOwn(r.findings[i])
    /\ r.summary # None /\ r.summary.errors = Len(r.findings)
    /\ ~r.truncated

(* The findings of the kernel, in their order.                             *)
OwnAt(findings) == {i \in DOMAIN findings : IsOwn(findings[i])}
OwnFindings(findings) ==
    [k \in 1..Cardinality(OwnAt(findings)) |->
        findings[CHOOSE i \in OwnAt(findings) :
                    Cardinality({j \in OwnAt(findings) : j < i}) = k - 1]]

(* project_target_scoped_sanitizer_result *)
Project(r) ==
    IF ~HasPositiveSignal(r) \/ FullyAttributed(r) THEN r
    ELSE [r EXCEPT !.outcome = "UNKNOWN", !.findings = OwnFindings(@),
                   !.summary = None, !.complete = FALSE,
                   !.issues = @ \cup {"target_scope"}]

(* The result, if the log could be read and its copy published.            *)
Collected(read, published) ==
    LET log    == read /\ published
        status == IF log THEN InvokeStatus ELSE RecordArtifactFailure(InvokeStatus)
        r      == BuildSanitizerResult(status, log, Finish(IF read THEN p ELSE NewParser))
    IN  [value |-> IF pinned /\ tool \in TargetScoped THEN Project(r) ELSE r, read |-> read]

Collect ==
    /\ ~Running /\ result = None
    /\ \E read, published \in BOOLEAN :
          /\ world.state = "never ran" => ~read
          /\ result' = Collected(read, published)
    /\ UNCHANGED <<tool, pinned, world, p>>

Next ==
    \/ RaceHeader \/ GarbledHeader \/ InvalidAccess \/ Message \/ UnknownMessage
    \/ Conflict \/ GarbledConflict \/ Site \/ Noise
    \/ LimitReached \/ Summary \/ CutSummary \/ NotPrinted \/ Ends
    \/ Collect

Spec == Init /\ [][Next]_vars

-----------------------------------------------------------------------------
(* Properties.                                                             *)

Done == result # None
Result == result.value

(* _validate_sanitizer_result *)
Accepts(r) ==
    /\ r.outcome = "FINDING" => r.findings # <<>> \/ (r.summary # None /\ Positive(r.summary))
    /\ r.outcome = "CLEAN" => HasTrustworthyClean(r)
    /\ r.complete => r.issues = {}

(* What a kernel's session is given when the target's result is shared.    *)
ForKernel == IF tool \in TargetScoped THEN Project(Result) ELSE Result

(* A result that is trusted as clean comes from a tool that ended well,    *)
(* said that it found nothing, and found nothing, printed or not, and its  *)
(* log is kept (has_trustworthy_clean).                                    *)
CleanIsEarned ==
    (Done /\ HasTrustworthyClean(Result)) =>
        /\ world.state = "exit 0" /\ world.summed /\ Result.log
        /\ world.blocks = <<>> /\ world.hidden = 0

(* A complete result that was not truncated holds every block the parser   *)
(* could read, and at least one when the tool printed any.  The one        *)
(* exception is an unreadable race header in the lines that a potential    *)
(* invalid access takes for itself (consume_auxiliary_block).              *)
Swallowed(i) ==
    \E j \in 1..(i - 1) :
       /\ world.blocks[j].kind = "invalid"
       /\ \A k \in (j + 1)..i : world.blocks[k].kind = "garbled"

NothingLostSilently ==
    (Done /\ Result.complete /\ ~Result.truncated) =>
        /\ world.blocks # <<>> => Result.findings # <<>>
        /\ Len(Result.findings) =
             Cardinality({i \in DOMAIN world.blocks :
                            world.blocks[i].kind # "unknown" /\ ~Swallowed(i)})

(* A diagnostic that was printed whole survives whatever happens to the    *)
(* tool afterwards: the kernel's session has a usable signal               *)
(* (has_usable_positive_signal, project_target_scoped_sanitizer_result).   *)
FindingSurvives ==
    (Done /\ result.read
        /\ \E i \in DOMAIN world.blocks :
              world.blocks[i].whole /\ world.blocks[i].site = "own kernel")
        => HasUsablePositiveSignal(ForKernel)

(* What is charged to a kernel as a complete finding is its own: every     *)
(* error of the target, printed or not, was in that kernel                 *)
(* (project_target_scoped_sanitizer_result).                               *)
ChargedToItsKernel ==
    (Done /\ tool \in TargetScoped /\ ForKernel.outcome = "FINDING") =>
        /\ world.hidden = 0
        /\ \A i \in DOMAIN world.blocks : world.blocks[i].site = "own kernel"

(* Every result the adapter builds, and its projection, is one the session *)
(* accepts (_validate_sanitizer_result).                                   *)
SessionAccepts == Done => Accepts(Result) /\ Accepts(ForKernel)

=============================================================================
