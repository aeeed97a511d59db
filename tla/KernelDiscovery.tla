--------------------------- MODULE KernelDiscovery ---------------------------
(***************************************************************************)
(* One kernel-discovery experiment (service/kernel_discovery.py): the      *)
(* target runs once under CUTracer, every process of it appends launch     *)
(* events to a file of its own in the attempt's directory; the files are   *)
(* merged into the set of kernels, filtered, bounded, and published with   *)
(* a manifest.  The worker may die between two files; the next attempt has *)
(* a directory of its own and publishes over what is there.                *)
(***************************************************************************)
EXTENDS Naturals, Sequences, FiniteSets

CONSTANTS
    EventFiles,     \* cutracer_kernel_events_*.ndjson of the processes
    Kernels,        \* (kernel_name, kernel_checksum) of the launches
    Mangled,        \* the mangled names an event may carry
    MaxKernels,     \* KernelDiscoveryOptions.max_kernels
    MaxEvents,      \* bound: event lines over all attempts
    MaxDeaths       \* bound: deaths of the worker

VARIABLES
    wanted,     \* WorkUnit.kernel_filters
    events,     \* attempt_dir: the lines of every event file
    outdir,     \* out_dir: the published event files
    pass,       \* the attempt under way
    discovered, \* the result, or the error that was raised
    emitted, deaths

dvars == <<wanted, events, outdir, pass, discovered, emitted, deaths>>

NoName == "no mangled name"
Launches == [type : {"kernel_launch"}, kernel : Kernels, mangled : Mangled \cup {NoName}]
Other == [type |-> "other"]
Malformed == [type |-> "malformed"]
Lines == Launches \cup {Other, Malformed}

Nothing == [at |-> "idle"]
Untold == [is |-> "untold"]
Raised(code) == [is |-> "error", code |-> code]
With(f, key, value) == [k \in DOMAIN f \cup {key} |-> IF k = key THEN value ELSE f[k]]

-----------------------------------------------------------------------------
(* _read_kernels.  The kernels found so far, or what stopped the reading.  *)
(* Each kernel keeps the first mangled name it is given.                   *)

Found(kernels) == [error |-> "none", kernels |-> kernels]
Stopped(code) == [error |-> code, kernels |-> <<>>]

NameOf(kernels, k) == IF k \in DOMAIN kernels THEN kernels[k] ELSE NoName

(* Mutant: a later event replaces an earlier one.                          *)
MergeLast(kernels, line) ==
    IF line.type = "other" THEN Found(kernels)
    ELSE IF line.type = "malformed" THEN Stopped("malformed_event")
    ELSE Found(With(kernels, line.kernel, line.mangled))
(* _kernel_from_event, and the merge into `kernels`                        *)
Merge(kernels, line) ==
    IF line.type = "other" THEN Found(kernels)
    ELSE IF line.type = "malformed" THEN Stopped("malformed_event")
    ELSE IF NameOf(kernels, line.kernel) = NoName
         THEN Found(With(kernels, line.kernel, line.mangled))
    ELSE IF line.mangled \in {NoName, NameOf(kernels, line.kernel)} THEN Found(kernels)
    ELSE Stopped("malformed_event")

(* _matches_filters: a filter is part of the name or of the mangled name.  *)
MatchesFilters(kernel, mangled) == wanted = {} \/ {kernel, mangled} \cap wanted # {}

(* _selected_kernels *)
SelectedKernels(kernels) ==
    LET chosen == {k \in DOMAIN kernels : MatchesFilters(k, kernels[k])}
    IN  IF DOMAIN kernels = {} THEN Stopped("no_kernel_launches")
        ELSE IF chosen = {} THEN Stopped("no_matching_kernels")
        ELSE IF Cardinality(chosen) > MaxKernels THEN Stopped("kernel_limit_exceeded")
        ELSE Found([k \in chosen |-> kernels[k]])

-----------------------------------------------------------------------------
(* The wanted names: none, a kernel's own, a mangled one.                  *)
DiscoveryInit ==
    /\ wanted \in {{}} \cup {{n} : n \in Kernels \cup Mangled}
    /\ events = <<>>
    /\ outdir = <<>>
    /\ pass = Nothing
    /\ discovered = Untold
    /\ emitted = 0 /\ deaths = 0

(* discover_work_units: a directory for the attempt, and the target starts.*)
StartTarget ==
    /\ pass = Nothing /\ discovered = Untold
    /\ events' = <<>>
    /\ pass' = [at |-> "target"]
    /\ UNCHANGED <<wanted, outdir, discovered, emitted, deaths>>

(* A process of the target appends a line; a killed one leaves half a line.*)
Emit ==
    /\ pass.at = "target" /\ emitted < MaxEvents
    /\ \E f \in EventFiles, line \in Lines :
         LET old == IF f \in DOMAIN events THEN events[f] ELSE <<>>
         IN  /\ \A i \in DOMAIN old : old[i] # Malformed
             /\ events' = With(events, f, Append(old, line))
    /\ emitted' = emitted + 1
    /\ UNCHANGED <<wanted, outdir, pass, discovered, deaths>>

(* The attempt is over: rmtree(attempt_dir), and the answer.               *)
Conclude(answer) ==
    /\ discovered' = answer /\ events' = <<>> /\ pass' = Nothing

(* _run_discovery_target did not return a process.                         *)
TargetCannotRun ==
    /\ pass.at = "target"
    /\ \E code \in {"execution_timed_out", "execution_failed"} : Conclude(Raised(code))
    /\ UNCHANGED <<wanted, outdir, emitted, deaths>>

(* _observe_discovery, _event_paths: a target that failed and left no      *)
(* event file is reported as failed; one that failed with event files is   *)
(* observed.                                                               *)
TargetEnds ==
    /\ pass.at = "target"
    /\ \E code \in {0, 1} :
         IF DOMAIN events = {}
         THEN Conclude(Raised(IF code = 0 THEN "missing_event_files" ELSE "target_failed"))
         ELSE /\ pass' = [at |-> "read", code |-> code, kernels |-> <<>>,
                          got |-> [f \in DOMAIN events |-> 0]]
              /\ UNCHANGED <<events, discovered>>
    /\ UNCHANGED <<wanted, outdir, emitted, deaths>>

(* _event_paths: the directory cannot be listed, or a name is no file.     *)
CannotList ==
    /\ pass.at = "target"
    /\ \E code \in {"unreadable_output", "malformed_event_file"} : Conclude(Raised(code))
    /\ UNCHANGED <<wanted, outdir, emitted, deaths>>

(* The loops of _read_kernels: a file to its end, then another.  The code  *)
(* takes the files in the order of their names, the model in any order.    *)
ReadLine ==
    /\ pass.at = "read"
    /\ \E f \in DOMAIN events :
         /\ pass.got[f] < Len(events[f])
         /\ \A g \in DOMAIN events \ {f} : pass.got[g] \in {0, Len(events[g])}
         /\ LET seen == Merge(pass.kernels, events[f][pass.got[f] + 1])
            IN  IF seen.error # "none" THEN Conclude(Raised(seen.error))
                ELSE /\ pass' = [at |-> "read", code |-> pass.code, kernels |-> seen.kernels,
                                 got |-> [pass.got EXCEPT ![f] = @ + 1]]
                     /\ UNCHANGED <<events, discovered>>
    /\ UNCHANGED <<wanted, outdir, emitted, deaths>>

(* An event file cannot be opened or decoded.                              *)
CannotRead ==
    /\ pass.at = "read" /\ Conclude(Raised("unreadable_event_file"))
    /\ UNCHANGED <<wanted, outdir, emitted, deaths>>

SelectKernels ==
    /\ pass.at = "read" /\ \A f \in DOMAIN events : pass.got[f] = Len(events[f])
    /\ LET seen == SelectedKernels(pass.kernels)
       IN  IF seen.error # "none" THEN Conclude(Raised(seen.error))
           ELSE /\ pass' = [at |-> "publish", code |-> pass.code, kernels |-> seen.kernels,
                            todo |-> DOMAIN events]
                /\ UNCHANGED <<events, discovered>>
    /\ UNCHANGED <<wanted, outdir, emitted, deaths>>

(* _publish_event_artifacts: one file after the other.                     *)
PublishEvents ==
    /\ pass.at = "publish" /\ pass.todo # {}
    /\ \/ /\ \E f \in pass.todo : /\ outdir' = With(outdir, f, events[f])
                                  /\ pass' = [pass EXCEPT !.todo = @ \ {f}]
          /\ UNCHANGED <<events, discovered>>
       \/ /\ Conclude(Raised("OSError")) /\ UNCHANGED outdir
    /\ UNCHANGED <<wanted, emitted, deaths>>

(* _discovery_manifest, _write_manifest, _discovery_result                 *)
DiscoveryResult ==
    [is |-> "discovered", kernels |-> pass.kernels, files |-> events, filters |-> wanted,
     code |-> pass.code]

PublishDiscovery ==
    /\ pass.at = "publish" /\ pass.todo = {}
    /\ \/ Conclude(DiscoveryResult)
       \/ Conclude(Raised("OSError"))
    /\ UNCHANGED <<wanted, outdir, emitted, deaths>>

(* The worker dies: the result is lost, the directory is never read again. *)
Die ==
    /\ pass # Nothing /\ deaths < MaxDeaths
    /\ deaths' = deaths + 1
    /\ pass' = Nothing /\ events' = <<>>
    /\ UNCHANGED <<wanted, outdir, discovered, emitted>>

DiscoveryNext ==
    \/ StartTarget \/ Emit \/ TargetCannotRun \/ TargetEnds \/ CannotList
    \/ ReadLine \/ CannotRead \/ SelectKernels \/ PublishEvents \/ PublishDiscovery \/ Die

DiscoverySpec == DiscoveryInit /\ [][DiscoveryNext]_dvars

-----------------------------------------------------------------------------
(* What the events say, whatever order they are read in.                   *)

Told(files) ==
    {l \in Launches : \E f \in DOMAIN files : \E i \in DOMAIN files[f] : files[f][i] = l}

NamesOf(files, k) ==
    {m \in Mangled \cup {NoName} : \E l \in Told(files) : l.kernel = k /\ l.mangled = m}

(* __post_init__ of KernelDiscoveryManifest, _validate_discovery_result.   *)
AcceptsManifest(r) ==
    /\ DOMAIN r.kernels # {} /\ Cardinality(DOMAIN r.kernels) <= MaxKernels
    /\ DOMAIN r.files # {}
    /\ r.filters = wanted

(* The manifest is determined by the published event files and not by the  *)
(* order in which they are read: it has every launched kernel the filters  *)
(* ask for and no other, each with the one mangled name any of its         *)
(* launches carried, and no two launches disagree about it                 *)
(* (_read_kernels, _selected_kernels, _publish_discovery).                 *)
ManifestMatchesEvents ==
    discovered.is = "discovered" =>
        LET f == discovered.files
        IN  /\ \A g \in DOMAIN f : g \in DOMAIN outdir /\ outdir[g] = f[g]
            /\ \A l \in Told(f) : Cardinality(NamesOf(f, l.kernel) \ {NoName}) <= 1
            /\ DOMAIN discovered.kernels =
                 {k \in Kernels :
                    /\ NamesOf(f, k) # {}
                    /\ wanted = {} \/ ({k} \cup NamesOf(f, k)) \cap wanted # {}}
            /\ \A k \in DOMAIN discovered.kernels :
                 IF NamesOf(f, k) = {NoName} THEN discovered.kernels[k] = NoName
                 ELSE discovered.kernels[k] \in NamesOf(f, k) \ {NoName}

(* Every manifest is one its contract and the session accept.              *)
ManifestAccepted == discovered.is = "discovered" => AcceptsManifest(discovered)

=============================================================================
