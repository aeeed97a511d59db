# Verification of CUTracer

TLA+ modules, TLC configurations and TLAPS proofs for CUTracer: a binary
instrumentation tool for CUDA kernels (C++/CUDA, `src/src`, `src/include`) and
the automated diagnosis service that drives it (Python,
`src/python/cutracer/service`).

## 1. The system

### Parts and how they interact

| Part | State it keeps | Operations | Talks to |
| --- | --- | --- | --- |
| Run ownership (`run_lease.py`) | the lease fields of a Run-control record; per controller a heartbeat thread, `_stop`, `_failure` | enter, check, update, renew, exit | Run-control store, by compare-and-swap |
| Run-control store (`file_run_store.py`, `run_contracts.py`) | one JSON record per Run, with a revision and write-once fields | create, load, compare_and_swap | lease, local workflow |
| Session reducers (`session.py`) | the `AnalysisSession`: status, pending, completed, evidence, budget use, round, report publication | one pure function per event, returning the new session and the effects it owes | called by both drivers |
| Distributed coordinator (`distributed.py`) | none of its own; the durable session | start, resume, four callbacks, all through `_apply` (load, reduce, compare-and-swap) and `_dispatch` | session store, MAST (experiments), Sandcastle (reasoning), report sink, baselines |
| Triage, baselines, suppression | baselines per scope | decide, record_published_baselines | coordinator |
| Local workflow (`local_workflow.py`, `run_summary.py`) | the Run record, one checkpoint file per session, the execution lock of the Run, the output file | run, resume, drive a session, start the children of a discovery, publish, summarise | the same reducers, file stores, experiment adapters |
| Contracts (`contracts.py`, `run_contracts.py`) | 52 classes and their JSON form | to_dict, from_dict, `__post_init__`, digest of a Run input | every durable document |
| Session store (`file_store.py`) | one JSON record per session with revision and expiry, a lock file each | create, load, compare_and_swap, prune_expired | coordinator, local workflow; other processes on the same directory |
| Stress campaigns (`stress/stress.py`, `service/experiments/stress.py`) | counters, log, triggering configuration; the published log and the persisted progress | run a trial, write and publish the log, report progress, resume, classify | the native tool; the session, through its result |
| Delay reducer (`reduce/reduce.py`) | the enabled points, candidate files, votes | linear pass, ddmin, replay, vote | the native tool, as an oracle |
| Reduction experiment (`service/experiments/reduce.py`) | the staged configuration, the report | stage, validate, reduce, classify what stopped it | delay reducer; the session, through its result |
| Sanitizer experiment (`compute_sanitizer/parser.py`, `service/experiments/sanitizer.py`, `sanitizer_results.py`) | the parser, the kept log | run the tool, parse its log, build the result, project it onto a kernel | Compute Sanitizer; the session |
| Trace experiment (`service/experiments/trace.py`, `trace_analysis.py`, `checkpoint.py`) | attempt directory, promoted files, progress, sealed result | capture, select, promote, report, resume, analyse, seal, load | the native tool; readers of the checkpoint |
| Kernel discovery (`kernel_discovery.py`) | event files per process, the manifest | run once, merge, filter, bound, publish | the native tool; the discovery parent session |
| Launch callbacks (`cutracer.cu`) | launch counter, per-context state, trace writers | enter/leave of launches, graph nodes, module unload, context end | completion queue, channel |
| Receiver thread (`analysis.cu`) | chunk being parsed, hang-detection state | take requests, receive, parse, periodic checks | writers, completion queue |
| Trace writer (`trace_writer.cpp`) | buffer, counts, errors | write, flush, disable, finish | trace file |
| Delay configuration (`delay_config_file.cpp`, `delay_inject_config.cu`) | one JSON file per run, its lock file | merge under the lock, replace by rename | the reducer and every replay |
| Hang detection (`analysis.cu`) | loop state and times per warp, consecutive hits, kernel and data times | three checks per iteration | kills the process |

The other parts (planning of campaigns, prompts, query and validation tools,
SASS instrumentation, configuration) are listed in `PROJECT.json` with the
reason each is not modelled.

### What is hard

* Two threads of one controller write the lease record without a common lock,
  and several controllers compete for it; a failed store call may have
  succeeded.
* A discovery starts its children one by one, and any of them may fail.
* Any number of processes run callbacks of one session; callbacks are repeated,
  late and reordered; a process may die between a commit and its effect.
* The device channel acknowledges a chunk before the receiver parses it, so a
  finished kernel, a module unload or the end of the context can overtake
  records.
* The session store is a directory: a lock per session, a rename that readers see
  before it is durable, a prune that scans without a lock, power that may go.
* A stress worker may die between publishing a trial and reporting it; the next
  one resumes from the report and must not count or forget a trial.
* The reducer's oracle may time out, run the wrong kernel or answer differently
  each time, and its verdicts are reached with other points still on.
* A foreground Run may be killed between any two of its writes and resumed by
  another process, its deadline may pass in the middle of a batch, and its
  output file and its record are two writes.
* A sanitizer may be killed after any line, stop printing at its limit, or end
  badly after a clean summary; a clean verdict must survive none of these.
* An attempt at a trace leaves files behind, and the next one works in the same
  directory and may resume from the earlier one's progress.
* A result checkpoint is two files, and readers come while they are written,
  replaced or reset.
* The processes of a target write their launch events independently, and the
  worker may die with half of the files published.
* Documents are read by processes of earlier and later releases and saved again.
* Every process of a target merges its delays into one file, which may be left
  over from another run, and may be killed while it does.
* Watchdog state is shared by the application thread (launch) and the receiver
  (finish, new kernel).

### What makes each part correct

* Lease: exclusion, no lost update, a release that stays, no lapse under a live
  owner, no thread that renews for ever.
* Session: evidence once per experiment, budgets, no stale decision, no clean
  verdict on incomplete evidence, a verdict that stays, and an end; a completed
  discovery has started all its children.
* Capture: "complete" means complete, every loss is counted, no false alarm,
  tables live as long as the records that need them, every capture finishes.
* Session store: an atomic register per session that expires no earlier than its
  retention says and never falls behind an acknowledged write.
* Stress campaign: progress is what the published log shows, no verdict is lost
  or invented, clean means every trial was clean, and the campaign ends.
* Foreground Run: no checkpoint meets another writer, the summary and the output
  file say what the sessions hold, a resume only adds, and the Run ends.
* Experiments: every result is one the session accepts, but for an error of blanks
  only; clean and complete are earned; a finding reaches its kernel; a manifest does not depend on the order
  of the event files; a sealed result is final.
* Contracts: what is read back is what was written.
* Reducer: what is written triggers the race, is what is reported, and is as
  small as the strategy promises.
* Delay configuration: what a process has saved is in the file a replay is given.
* Watchdogs: armed while a kernel is captured that was launched directly or has
  sent a record, silent when nothing is captured, verdicts about the kernel that
  is killed.

## 2. Modules

| Module | Models | Form |
| --- | --- | --- |
| `RunLease` | `run_lease.py`, `FileRunControlStore.compare_and_swap`, `validate_run_update` | main and heartbeat thread of each controller; every load and every compare-and-swap is a step |
| `RunLeaseProofs` | | theorems about `RunLease` |
| `AnalysisSession` | `session.py` reducers, the verdicts of `triage.py`, the guard of `policy.py` | pure operators: session and input to the set of possible transitions; the empty set is an exception |
| `SessionLifecycle` | what a session promises its readers | abstract specification |
| `SessionCoordinator` | `distributed.py` | workers interleaving load, commit and dispatch over `AnalysisSession`; refines `SessionLifecycle` |
| `SessionCoordinatorProofs` | | theorems about `SessionCoordinator`, the refinement among them, and about `DiscoveryFanout` |
| `DiscoveryFanout` | `_create_discovery_children` of `distributed.py` | workers starting the children of a parent, each handing on what the child owes; extends `DiscoverySession` |
| `CoordinatorCalls` | `DistributedCoordinator.start` | a pinned session (`SessionCoordinator`) or a discovery parent (`DiscoveryFanout`) |
| `TraceCapture` | `cutracer.cu`, `capture_completion.h`, `runtime_hooks.h`, the receiver loop of `analysis.cu`, `trace_writer.cpp` | application thread, device, receiver thread |
| `HangDetector` | the checks of `analysis.cu` | receiver steps, launches and a clock in seconds |
| `DelayReducer` | `reduce/reduce.py`, `config_mutator.py`, `watchdog.py` | one sequential run; a test is a series of replays and a vote |
| `DelayReducerProofs` | | theorems about `DelayReducer` and `ReduceExperiment` |
| `StressCampaign` | `stress/stress.py`, `service/experiments/stress.py` | worker, its files, the caller's persisted progress |
| `StressCampaignProofs` | | theorems about `StressCampaign` |
| `ReduceExperiment` | `service/experiments/reduce.py`, the session's checks of its result | extends `DelayReducer` with what comes before and after a reduction |
| `DiscoverySession` | the discovery branches of `session.py` | operators over a parent session, its manifest and its children; extends `AnalysisSession` |
| `LocalRun` | `local_workflow.py`, `run_summary.py`, the execution lock of `file_run_store.py` | drivers that run, are killed and resume; every durable write is a step |
| `LocalRunProofs` | | theorems about `LocalRun` |
| `SanitizerSweep` | `compute_sanitizer/parser.py`, `service/experiments/sanitizer.py`, `sanitizer_results.py` | the tool writes a line, the parser reads it; then the result and its projection |
| `TraceExperiment` | `service/experiments/trace.py`, `trace_analysis.py`, `checkpoint.py` | worker, its directory, the caller's progress, the checkpoint and a reader of it |
| `KernelDiscovery` | `kernel_discovery.py` | processes of the target, then their files are read line by line and published file by file |
| `WireContracts` | `contracts.py`, `run_contracts.py` | a schema per contract; write, read, save again |
| `ExperimentWorker` | `LocalExperimentExecutor.execute` | one experiment: the machines of the adapters (`SanitizerSweep`, `TraceExperiment`, `KernelDiscovery`) and the documents (`WireContracts`) as alternatives |
| `ExperimentProofs` | | theorems about `ExperimentWorker` and its machines |
| `DelayDump` | `delay_config_file.cpp`, `save_delay_config` | processes that lock, read, merge and rename |
| `DeviceAnalyses` | the choice of `CUTRACER_ANALYSIS` and `CUTRACER_INSTRUMENT` | `TraceCapture`, `HangDetector` or `DelayDump` |
| `DeviceProofs` | | the invariant of `TraceCapture`, theorems about `DeviceAnalyses` |
| `SessionRegister` | what a session store promises its callers | abstract specification |
| `SessionStore` | `file_store.py`, the retention policy of `storage.py` | processes interleaving the file operations of their calls; refines `SessionRegister` |
| `SessionStoreProofs` | | theorems about `SessionStore` |
| `MCRunLease`, `MCCoordinatorCalls`, `MCSessionStore`, `MCLocalRun`, `MCHangDetector`, `MCReduceExperiment` | | model values and symmetry for TLC |

An operator named as another one with a suffix (`MayTakeEarly`,
`FlushQuiet`, ...) directly before it is a mutant: the definition as a
plausible bug would have it. `PROJECT.json` lists, for every property, the
mutant that violates it.

### Correspondence to the code

**RunLease.** `control` is the stored `RunControl`; `main[c]` and `hb[c]` are
the positions of a controller's two threads; `snap[c]` and `hsnap[c]` what each
loaded and when. `submission_token` stands for the four write-once fields of
`validate_run_update`, `applied` for the fields `update()` writes. The read of
the record and of the clock that follows it are one step; the write is another.
`CasUnavailable` leaves open whether a write that raised happened. `until` and
`acked` are history variables. Controllers share one clock that never goes
back; a controller that was refused tries again under the same model value,
which is sound because its token was never stored.

**AnalysisSession, SessionCoordinator.** An experiment result is a finding, a
trustworthy clean run, an incomplete run, or one that does not fit its spec,
which `FitsSpec` refuses as `_validate_result_against_spec` does. The checks of
the fields of each kind of result are modelled where such results are made: the
`Accepts` operators of the experiment modules. Which report of the reasoner is
rejected is a free choice. Guarded expansion
returns any set of experiments never submitted before. `jobs`, `turns`,
`delivered` are what the dispatchers and the report sink were asked for; a job
may report any outcome for its experiments, any number of times. `Start` is one
step because creation is one atomic store operation. `Fault` is a refused
dispatch, a lease lost in `before_dispatch`, or the death of the worker. The
safety run has no faults: a worker that stops for ever is already a behaviour of
the interleaving, and `Fault` only lets it be reused.

**DiscoveryFanout.** `sessions` holds the parent and its children, a child's id
being its kernel. `worker` is where a worker's fan-out is: the parent as loaded,
the kernels left, the children started, whether one failed, and the child whose
effect is being dispatched. `ChildFails` is an exception of `start`, before or
after the child was created, which the loop keeps; `WorkerStops` is one that ends
the fan-out (`before_dispatch`, death). Calls through `_apply` are one step each,
as `SessionCoordinator` takes them apart; `ChildMoves` is any callback of a
child. Of the inputs of the admission digest only the shared results could
differ between two attempts, so they stand for it.

**TraceCapture.** `cuda_event_mutex` is held from the entry of a launch to its
exit, so one `host` record stands for all application threads of a context.
`device` holds records pushed and not yet copied, `chunk` those copied and not
yet parsed. A record is good, has impossible operand counts, or has a header
that cannot be parsed. `FlushChannel` succeeds once the receiver has copied the
last record, which is what the flush kernel waits for. A flush or `fsync` that
fails, and a file that cannot be opened, are `DiskOutcomes`. `footer` is what
`finish` leaves in the file ("unavailable" when the writer has failed). Only
the NDJSON modes are modelled: text mode writes no footer. The last flush in
`nvbit_at_ctx_term` is not checked by the code and is not modelled.

**HangDetector.** Time is in seconds, as `time(nullptr)`. The PC signature is
abstracted to one bit per record: whether it equals the previous one. A launch
call launches one kernel (`Launch`, which starts the times) or the nodes of a
graph (`LaunchGraphNode`, which opens a writer and leaves the times as they
are). Launch calls do not overlap, but the receiver may parse and finish the
kernels of one after the next was made. The channel is trusted: the records of
different calls come in the order of the calls, those of the nodes of one graph
mix (`InOrder`). `graphs` remembers which kernels were nodes of which graph.
A check is the end of an iteration of the receiver, and `taken` holds the
completion requests the next one begins with. The kernel timeout is modelled
as it counts from the first data. `streak`, `sent` and `heard` are history
variables.

**DelayReducer.** The enabled points of a configuration are a list in file
order; every list the reducer builds keeps that order, so a list is a set of
ranks and a chunk is a range of them. `race` is the set of enabled sets under
which the race happens, chosen freely in the initial state. A target that is
not `flaky` answers `enabled \in race` whenever a replay ends in a verdict; a
replay may always time out, fail to start or run another kernel. A flaky target
answers anything, and `race` has no meaning then. `Targets` says which kinds of
oracle and target are considered.

**ReduceExperiment.** `flaws` is what is wrong with the input; `Checks` has
them in the order in which the code finds them, so the first one decides. A
replay that raises, a timeout and a failing file operation are classified by
`Classify`, the counterpart of `classify_reduction_failure`. A bare test script
is `cutracer reduce` on the command line, which has no such wrapper.

**LocalRun.** `control`, `store` and `file` survive a killed driver, `lock` is
released with it. `Run` is both `run` and `resume`: the first creates the Run,
and either one is refused under a runtime other than the one the Run is bound
to. A driver's `pc` is the next durable write; what it computes between two of
them is part of the step before. The deadline (`late`) is read where the code
reads it, and it may have passed since. `clash` is a history variable. Results
come from any adapter: a finding or an incomplete run. Rounds are zero, because
follow-up batches are the coordinator's subject and use the same reducers.

**SanitizerSweep.** A line is what the parser's patterns tell apart (header of a
race, conflict, invalid access, issue, site, truncation, summary, internal
error, their unreadable forms, anything else); `world` is what the tool really found, printed or not,
which no parser can see and the properties compare with. Lines of the target
carry no marker and are skipped by the code, so they are left out.

**TraceExperiment.** The bytes of a file are the number of the capture that
wrote them, so a digest is that number too. `captures` says how every run of
the target ended and what it left in its attempt directory; `dir` is what has
been promoted. A failing target's last words are words or blanks. The caller keeps the last progress and may hand it to a later
attempt, with the same or another binding. Sealing writes the envelope and then
the marker; `reader` is a load that has read the marker and not yet the envelope.
`loaded` is a history variable. What the analyzer finds in a trace is left out;
whether it could read it is not.

**KernelDiscovery.** An event file is a sequence of lines (launch, other,
malformed); a kernel is its name and checksum. The files are read to their end
one after the other, in any order (the code sorts them by name), and each kernel
keeps the first mangled name it is given. A worker that dies leaves part of
its files in `outdir`, and the next attempt publishes over them.

**WireContracts.** A contract is a schema of the keys `from_dict` demands, those
`to_dict` always writes and `from_dict` can do without (`Schema`), and those written
only when set (`Kept`); values are "default" or "set", and keys whose value decides what else
may be said have their own. The documents of another release have keys more or
fewer. Rules between fields, legacy spellings and the digest of a Run input are
modelled; the range of a single field is not.

**ExperimentWorker, DeviceAnalyses, CoordinatorCalls.** A worker has one
experiment, a process one analysis and a session one kind, so the machines are
alternatives: the initial state selects one and the others stay idle. One run explores them all, which is the sum of their
state spaces and not their product.

**DelayDump.** The delays of a kernel follow from the seed, so an entry of a
run's file is determined by its key and a configuration is a set of keys. A
process writes its temporary file under its own name, so only the rename shows.
The file a process finds may be absent, unreadable or of another run. Every
operation of a save may fail, which the code prints and forgets; a killed
process loses its lock. `saved` is a history variable.

**StressCampaign.** A log is the sequence of the trials written to it, and its
size in bytes the number of its trials. `log`, `counts`, `trig`, `core` and
`latest` are the worker's (the attempt directory and the adapter) and are lost
with it; `pub`, `pubTrigs` and `saved` survive. What a trial does (exit,
watchdog, dumped configuration, launch geometry) is chosen freely and classified
as `_run_attempt_in_output_dir` does. `faults` bounds the file operations and
progress callbacks that fail. The retention of rejected configurations and the
geometry from which isolate targets are built are left out.

**SessionStore.** `mem` is what readers find, `dur` what a loss of power leaves
behind; a directory entry may reach the disk on its own (`WriteBack`) and
certainly does with the directory's `fsync`. A loaded session is reduced to its
revision, a record to revision, terminal or not, update time and expiry.
`Unavailable` is every `OSError` of a call, at any of its points. The scan of a
prune is one step; every candidate is looked at again under its lock, and the
proofs hold for any set of candidates. `since` is a history variable: the last
acknowledged record of a session and what was written after it.

## 3. Runs

| Run | Question | Result |
| --- | --- | --- |
| `run_lease_safety` | do two controllers, with heartbeats, crashes and ambiguous failures, keep the lease exclusive, lose no update, undo no release, and always get to release | holds |
| `run_lease_short` | does a live owner keep a lease shorter than the heartbeat floor | violated (finding 1) |
| `run_lease_live` | does a live owner keep a lease of six ticks, and does every heartbeat thread end | holds |
| `coordinator_safety` | two workers, all callbacks, all orders, results that do not fit: dispatch keys, baselines, current evidence, and refinement of the lifecycle (budgets, batches, one result per experiment, one verdict, one settled report); is a completed discovery whole | holds |
| `coordinator_live` | does a session settle in spite of two lost calls | holds |
| `local_run` | a foreground Run with discovery, two kernels and an output file, two drivers, one kill, a deadline that may pass anywhere: conflicts, summary, output file, resume, and does it end | holds |
| `session_store` | two sessions, two processes: do acknowledged writes survive, are only expired sessions pruned, is the store the abstract register | holds |
| `experiments` | every log a sanitizer can write, every attempt at a trace, every set of discovery events, every document: accepted results (but for blank last words), clean and complete only when earned, findings on their kernel, manifests, final checkpoints, documents read back | holds |
| `stress_campaign` | three trials, two deaths, two failures, with and without a control arm: progress explained by the log, verdicts earned, results accepted by the session, an end | holds |
| `reduce` | for every race over four points: does the result trigger it, can a point be dropped; with any answers: does every step advance a bounded ranking, and is no failure taken for a verdict | holds |
| `device` | two launches (direct or graph nodes), two records, an unload, disk failures: exact losses, footers, tables, and does every capture finish; are the timeouts armed for every captured kernel that was launched directly or has sent a record, and do they only fire on silence; two processes, two kernels: is the delay configuration of a run the one that was saved | holds |
| `hang_hits` | does a hang verdict rest on three checks of that kernel | violated (finding 2) |

### Bounds

* `MCRunLease`: two controllers, lease of 2 ticks, deadline 3, clock to 4, one
  update each, two attempts per loop instead of eight. Two attempts give one
  retry after a conflict, and a third conflict needs a third writer. The
  deadline cuts a renewal short, and the clock reaches states after it.
* `MCRunLeaseLive`: one controller, a lease of 6 ticks, heartbeats every 2,
  deadline 9, and store calls that return before the clock moves on (`Prompt`).
  One controller is enough for `LiveOwnerKeepsLease`: another one writes only to
  an expired lease, so it can lapse under its owner only by the owner's delay.
  `LiveOwnersKeepTheirLease` proves it for any number of controllers.
* `MCRunLeaseShort`: a lease of 3 ticks with a floor of 10 (30 ms against 100 ms
  in units of 10 ms).
* `MCCoordinatorCalls`: two initial experiments, one per source, one possible
  follow-up, one round, two workers, two attempts. A follow-up batch, budget
  exhaustion, duplicate, conflicting and unfit results and lost races all occur.
  The liveness run has one worker, a shared result and two faults.
  `MCCoordinatorCalls` adds a discovery with two kernels, two workers and one
  failure or stop: one child can fail while the other is started, and the retry,
  or a second worker at the same time, meets a child without its jobs.
* `MCLocalRun`: two kernels, so that a fan-out can be cut in the middle; one
  target-scoped and one kernel-scoped experiment, so that a child starts with
  its parent's evidence; budget for three experiments, so that it is not what
  stops a child; two drivers with either of two runtimes, one kill (a second
  kill meets the same files as the first); revisions of the Run record count
  to three, which is past every write but a repeated one.
* `ExperimentWorker`: a log of two diagnostic blocks and two other lines, so
  that a block can be cut by another one, by noise or by the end, and a
  lookahead of one line instead of several; two runs of the target, two deaths
  and one failing operation, two dispatches that use one directory; two event
  files, three kernels with a limit of two, two mangled names and three events, one
  death; every contract with up to two keys missing, one key too many, or one key in
  another release's spelling.
* `DeviceAnalyses`: two launches is the least for one capture to be finished
  while another is open; with two records a kernel has both or each kernel one;
  one unload. One warp and two kernels, each launched directly or as a node of a
  graph (`MaxGraphNodes` = 2: one graph of two, two of one, or a graph before or
  after a direct launch), timeouts of two and three seconds and a
  clock of four: each timeout can fire and can be disarmed in time. Two
  processes with two kernels each, two failures or kills: a save can meet
  another one, and a failed save can be repaired by a later one.
* `MCHangDetectorHits`: a clock of eight, in which three checks of one kernel
  and of the next fit; direct launches only (`MaxGraphNodes` = 0), so that the
  trace does not depend on graphs.
* `MCReduceExperiment`: four points, all 2^15 races; four is the least for ddmin
  to refine its granularity, drop a complement and refine again. With three
  confidence runs a vote can be decided early. A truthful script is left to the
  proof of `ResultTriggers`, which does not depend on the oracle.
* `MCStressCampaign`: three trials, two deaths and two failed operations: a
  resumed worker can itself die, and a failure can follow a recovery. Two control
  runs, and both callers (the service, which resumes, and the command line).
* `MCSessionStore`: two sessions and two processes, one update each, a clock of
  one tick, at which active sessions expire, one fault: a session can expire
  and be renewed under a prune, prunes have batches of one, and a directory sync
  covers two sessions.

### Fairness

* `RunLease!FairSpec`: the clock advances, heartbeat threads are scheduled and
  the store calls of a controller return; nothing obliges a controller to leave.
* `CoordinatorCalls!CallsFairSpec`, for a pinned session: a call once begun goes
  on unless it fails (weak fairness of `Step`); the reconciler resumes a session
  again and again, and MAST and Sandcastle retry a callback the session still
  waits for (strong fairness, because a worker is only now and then free). The dispatch protocols
  require idempotent submits, and `requires_reconciliation` names the sessions
  the reconciler owes a resume.
* `LocalRun!FairSpec`: a driver that is not killed goes on; somebody resumes the
  Run again and again under each runtime, so also under the one it is bound to
  (strong fairness, because the lock is only now and then free); the deadline
  passes. `RunEnds` therefore says nothing of a Run nobody resumes.
* `DelayReducer`: none. `SearchAdvances` is a ranking argument, proved for any
  number of points: whatever the oracle answers, every step descends, so a
  search that goes on must end.
* `StressCampaign!FairSpec`: a worker goes on, trials have timeouts, and the
  session dispatches a campaign again until it has a result. Failures are not
  obliged to happen, or not to.
* `DeviceAnalyses!DeviceSpec`: the receiver thread runs and driver calls return.

## 4. Proofs

`RunLeaseProofs` proves, for every number of controllers and every value of the
constants that satisfies `LeaseAssumption`:

* `TypeCorrect`: `Spec => []TypeOK`;
* `LeaseIsExclusive`: `Spec => []LeaseExclusive`;
* `UpdatesAreNeverLost`: `Spec => []NoLostUpdate`;
* `ReleaseStays`: `Spec => []ReleaseIsFinal`;
* `LiveOwnersKeepTheirLease`: before the deadline a controller inside its block,
  whose heartbeat has not failed, is the recorded owner of a lease that has not
  expired (`LiveOwnerKeepsLease`), if store calls return within a tick (`Prompt`)
  and the heartbeat interval is below the lease. The second hypothesis is what
  finding 1 violates.

None of the first three safety properties is inductive. The invariant `IInv` adds
what the compare-and-swap loops rely on: a snapshot with the current revision
*is* the current record (revisions only grow, and every write takes a new one),
snapshots are never newer than the record or the clock, a snapshot taken by an
owner names that owner, and a controller inside its block whose expiry is ahead
is the recorded owner with at least that expiry. Exclusion follows because two
owners would both be the one recorded owner; a takeover needs an expired record,
and the record's expiry is never behind what its owner believes. For the live
owner, the clock never passes the time of the next beat, and a store call once
begun is not interrupted by the clock, so a renewal is written before the lease
it renews has run out, whether or not earlier ones were refused.

`DelayReducerProofs` proves, for every number of points, every race and every
number of confidence runs (`ReducerAssumption`):

* `TypeCorrect` and `ReportIsTheConfig` (`ReportMatchesConfig`), whatever the
  oracle answers;
* `ReductionTriggers` (`ResultTriggers`), `BisectionIsOneMinimal`
  (`BisectOneMinimal`) and `LinearIsMinimal` (`LinearMinimal`), whose properties
  speak of a target that does not contradict itself (`~flaky`);
* `SearchesAdvance`: `Spec => SearchAdvances`, whatever the oracle answers;
* `VerdictsAreEarned`: `ReduceSpec => []ReductionVerdict`, for every flaw of the
  input and every failure of the experiment.

The first two rest on `Shape`, which says how the variables hang together at
each phase (in a linear pass the enabled points are those found essential and
those not tried yet). The others add what the votes have established: the
current set triggers the race, every chunk before the one under test does not
matter alone, and every complement tried failed. One-minimality follows because
ddmin ends only at granularity `Size`, where complements are single removals.
That ddmin advances needs `Granular`: the granularity is at least two and the
chunk under test exists. Then the ranks of the enabled points are exactly
`0..Size-1`, so a chunk of fewer than `Size` ranks is neither empty nor
everything, and both it and its complement are smaller than what it was cut
from. `Answered` says of the experiment's answer which step gave it, and that no
step follows.

`SessionStoreProofs` proves, for every number of sessions and processes, every
retention and every batch size (`StoreAssumption`):

* `TypeCorrect`: `Spec => []TypeOK`, writers hold their lock included;
* `AcknowledgedSurvives`: `Spec => []AckedSurvives`;
* `PrunesOnlyExpired`: `Spec => PruneOnlyExpired`;
* `StoreImplementsRegister`: `Spec => ImplementsRegister`, the refinement.

`IInv` adds to the type invariant what a process at each point of a call has
made sure of (`OpFits`): the record it is about to rename follows the one that
is there, which stays so because it holds the lock; the record it is about to
acknowledge is the one that is there; the time of its prune is not ahead of the
clock. And every record ever written carries the expiry its retention gives.

`SessionCoordinatorProofs` proves, for every number of workers, experiments,
rounds, budgets and attempts (`SessionAssumption`, `CoordinatorAssumption`):

* `DecisionsRestOnCurrentEvidence`: `CallsSpec => []ReasonedOnCurrentEvidence`;
* `KeysDetermineWork`: `CallsSpec => []DispatchKeyDeterminesWork`;
* `BaselinesAreDelivered`: `CallsSpec => []BaselineOnlyDelivered`;
* `CoordinatorImplementsLifecycle`: `CallsSpec => ImplementsLifecycle`, the
  refinement: a commit maps to one step of `SessionLifecycle`, everything else
  to none.

The invariant has two parts. The stored session is sound: pending experiments
are submitted and not completed, its status agrees with what it waits for, its
evidence is one result for each experiment completed. And revisions determine
content: a session that a worker has loaded, or an effect it still owes, that
carries the stored revision is of the stored session, and an older one carries
an older revision, so that the compare-and-swap refuses exactly what is stale.

It also proves `DiscoveriesAreWhole`: `CallsSpec => []FanoutIsWhole`, for
every number of kernels, workers and failures (`CallsAssumption`). What it needs:
once the parent has all its results nothing changes what its children are
started from; a child at its first revision is as it was created; whoever has
such a child in hand holds its first transition; and a worker that is past a
kernel without noting a failure has handed that child's first batch on, or saw
that the child had moved.

`DeviceProofs` proves the invariant of the capture (`CaptureInvariant`)
for every number of launches, records and unloads (`CaptureAssumption`), and
its consequences for a process, `FootersTellTheTruth`
(`FootersAreTrue`) and `TablesAreKept` (`TablesOutliveRecords`). The invariant
accounts for the records of every launch: each is on the device, in the chunk,
in its writer's buffer, or counted as written or as dropped; the boundary an
unload waits for finds the channel empty; ids are given in order and a launch is
left before its completion is requested; and a writer that lost anything belongs
to a launch known to be harmed. It also proves, for every number of kernels,
warps and processes and every timeout
(`DeviceAssumption`):

* `WatchdogsGuardCaptures` (`WatchdogsAreTrue`): if the timeouts have a time to
  count from, it is the last time a kernel was launched directly or sent a
  record, and a kernel is open; a kernel that is open and was launched directly,
  or has sent a record, has such a time; and the kernel last seen has sent a
  record if it is open, so that a record that continues it finds the times
  running. Graph nodes join the open kernels and change nothing else;
* `DumpsMerge` (`DumpIsTheRun`): a process in the middle of a save holds the
  lock, and what it read is still what is in the file, so that its rename
  removes nothing.

`LocalRunProofs` proves, for every number of drivers, kernels, experiments and
kills (`SessionAssumption`, `LocalAssumption`), from `LocalInvariant`: `CheckpointsHold`
(`CheckpointsNeverConflict`), `SummariesAreTrue` (`SummaryIsTrue`),
`DeliveredFilesAgree` (`DeliveredFileAgrees`) and the action property
`ResumingOnlyAdds` (`ResumeOnlyAdds`). The invariant says that at most one
driver is inside the Run and that one holds the execution lock; that the session
it drives is the one stored and what it still has to do is what that session
owes; that it leaves no session unfinished behind it unless the deadline has
passed; and that a summary once built is true of the sessions that are stored.

`StressCampaignProofs` proves, for every plan, every number of control runs,
deaths of workers and failing operations (`CampaignAssumption`):

* `ProgressExplained`: `Spec => []ProgressIsExplained`;
* `ResumesAlways`: the checks a resume makes of its progress never fail;
* `VerdictsAreEarned`: `Spec => []VerdictIsEarned`;
* `ResultsAreAccepted`: `Spec => []StressAccepted`.

`CampaignInv` is an account of the trials. The saved progress is durable: the
prefix of the published log it names shows exactly the trials it counts, and its
trigger is one of the published configurations. A worker's own log shows what it
has counted, at every phase of a round but for the trial it is about to log; its
log and the published one agree up to the length the last report names, so what
was published after that report never replaces what the next worker starts
from; and what a round has published is what the worker counted. The verdict and its acceptance are conjuncts of the invariant,
since a result is built from exactly these counters in the step that ends the
campaign.

`ExperimentProofs` proves the properties of `ExperimentWorker`, one machine
after the other; each invariant is that of the selected machine
(`TraceInvOfKind`, ...), and the steps of the others leave it alone.

* `TraceInvariant`, and from it `CheckpointsAreFinal` (`CommittedIsFinal`) and
  `CompleteTracesAreOneCapture` (`CompleteIsOneCapture`), for any dispatches,
  delay points, captures, faults and deaths. While an attempt is under way there
  is no marker, so a marker is the end of the directory: the envelope it names is
  the one it was written for and nothing replaces it. A promoted set of files is
  that of one capture at every step of the promotion, and so is the progress an
  attempt resumes from; the bytes are compared again before they are analysed.
* `SweepInvariant`, `CleanSweepsAreEarned` (`CleanIsEarned`) and
  `FindingsReachOneKernel` (`FindingsReachTheirKernel`), for a log of any length
  and any lookahead above zero (`LookaheadAssumption`). The invariant is an
  account of the blocks: as long as racecheck's parser has noted no diagnostic,
  and always for the other tools, the findings it holds, the block it is inside
  included, are as many as the readable blocks the tool printed, each with its
  site or with none; a block that was printed whole has left one; and a summary
  that was read counts what the tool found, printed and hidden. Where the parser
  stands after each kind of line is what makes this inductive.
* `DiscoveryInvariant` and `ManifestsMatchEvents` (`ManifestMatchesEvents`), for
  any files, kernels, lines and deaths and any positive limit
  (`LimitAssumption`; `NameAssumption`: a name is not the absence of one). The
  kernels found agree with the launches in the lines read so far, whichever
  files they are of, so that the order cannot show in the result; the selection
  keeps exactly what the filters ask for; and a result is told only when the
  published files are the ones that were read.
* `RoundTrip`, `WireInvariant` and `DocumentsReadBack` (`ReadsBack`). The run
  builds its objects within bounds (all keys at their default or all set, up to
  one); `RoundTrip` has none: for every contract and every object its constructor
  accepts and leaves as it is, `from_dict` of what `to_dict` wrote is that
  object. What is read is such an object again (the readers of legacy spellings
  and the normalisation are idempotent), which is why a resaved document is the
  same case. It needs that no demanded key is left out at its default.
* `ResultsAreAcceptedBySession`: `Spec => []SessionAccepts`, for targets with any
  last words. The one exception is part of the property: blank last words of a
  failing target are handed on as the error, which the session refuses
  (section 5), and such a result is refused for nothing else.

The type invariants of `RunLease`, `DelayReducer` and `SessionStore` are proved,
so their runs do not repeat them; the other invariants contain the types they
need.

`ReportIsTheConfig` is proved for every number of points and is not repeated in
the `reduce` run, where `ReductionVerdict` says it of the service's result.

Every invariant and every action property the passing runs check is a theorem. Left to TLC: liveness (`NoOrphanHeartbeat`, `Settles`, `RunEnds`,
`CampaignEnds`, `EveryCaptureFinishes`), which is out of the prover's reach as
`ENABLED` is.

## 5. Findings

1. **A lease shorter than 100 ms lapses under its owner.** `_heartbeat` floors
   its period to 0.1 s (`run_lease.py:141`), `__init__` accepts 30 ms.
2. **Stalled checks are counted across kernels.** Neither `clear_deadlock_state`
   (`analysis.cu:561`) nor the early return of `check_kernel_hang` resets
   `deadlock_consecutive_hits`; a kernel can be killed on its first stalled
   check.

Observations that are not runs, because no line of the repository promises
otherwise or because the effect is small; the models behave as the code does:

* `exit_candidate_since` keeps the time of the first EXIT (`analysis.cu:1084`),
  so a warp whose threads exit in parts is never pruned.
* A trace point whose "on" is missing or merely truthy is traced, although the
  comment speaks of explicit points (`trace.py:514`).
* A failing target that wrote only blanks yields a blank error (`trace.py:826`),
  which the session refuses (`session.py:546`). The run explores it, and
  `SessionAccepts` states it as its one exception.
* A graph node opens a capture without starting the times of the timeouts
  (`cutracer.cu:1968`; a direct launch does at 1445). Until a record comes, no
  timeout counts for it, or it inherits the times of the captures it overlaps.
  `WatchdogArmed` and `NoDataIsSilence` say so.
* A stress campaign that does not stop at its first hit may hand over a trigger
  whose counts are older than the result's, which the session refuses;
  `StressAccepted` says so.
* A foreground Run with an output file whose discovery parent failed after its
  manifest returns RUNNING: nothing was published and nothing will be.
  `SummaryIsTrue` has it as its one case of RUNNING.
* The digest of a Run input is recomputed from what was read, so a document
  without a key the reader fills in is refused; `RunSessionSummary` refuses
  unknown keys while the others drop them; a session of a later release keeps
  its version when saved again but loses the fields this one does not know.
* The header of a race that cannot be read is swallowed while an invalid access
  waits for its site.

A limit worth knowing, not a disagreement: the linear pass tries every point once
with all later ones still on (`reduce.py:708`), so when delays can hide the race
its result still triggers but need not be minimal. `LinearMinimal` therefore
speaks of races that more delays never hide.

## 6. Not modelled, and the plan

In order of importance:

1. The lease composed with the coordinator: `before_dispatch` checks the lease
   and the effect follows later. Two workers that both believe they own the Run
   are already a behaviour of `SessionCoordinator` and `DiscoveryFanout`, which
   have no lease at all; what is left is the campaign loop around them.
2. The retention of rejected stress configurations.
3. The reconciliation policy (the coordinator model lets a reconciler resume or
   give up at any time, which includes every policy); `run_local_diagnosis`, the
   in-memory form of the local loop; the command runner (`runner.py`).
4. Native: the callback guard and its retained lock, instrumentation-plan
   buffers, the runtime identity ledger and graph tracker, text mode.
5. Pure algorithms against reference definitions: the canonical loop signature,
   campaign budgets, the follow-up guard, suppression governance, trace
   consistency checks.
6. Proofs of liveness, by hand from the ranking `SearchAdvances` gives or with a
   prover that has fairness.

Not planned, because there is nothing to check: prompts, display, argument
parsing, formatting, device code and readers of finished traces.
