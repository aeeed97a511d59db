-------------------------- MODULE ExperimentWorker --------------------------
(***************************************************************************)
(* A worker with one experiment (LocalExperimentExecutor.execute): the     *)
(* kind of the spec decides which adapter runs, and the adapter's result   *)
(* goes to the session and to disk as a document.  A worker does one thing *)
(* at a time, so the machines of the adapters are alternatives: the ones   *)
(* the kind does not select stay idle.  Stress campaigns and reductions    *)
(* have runs of their own (StressCampaign, ReduceExperiment).              *)
(***************************************************************************)
EXTENDS Naturals, WireContracts

CONSTANTS
    MaxBlocks, MaxNoise, SiteLookahead,                             \* sweep
    Bindings, Points, Ons, MaxCaptures, MaxCrashes, MaxFaults, \* trace
    EventFiles, Kernels, Mangled, MaxKernels, MaxEvents, MaxDeaths  \* discovery

(* _SITE_LOOKAHEAD is a positive number, and KernelDiscoveryOptions refuses *)
(* a limit that is not.                                                    *)
ASSUME LookaheadAssumption == SiteLookahead \in Nat \ {0}
ASSUME LimitAssumption == MaxKernels \in Nat \ {0}

VARIABLES
    kind,
    tool, pinned, world, p, result,
    config, captures, dir, att, progress, envelope, marker, reader, loaded,
    crashes, faults,
    wanted, events, outdir, pass, discovered, emitted, deaths

sweep     == <<tool, pinned, world, p, result>>
trace     == <<config, captures, dir, att, progress, envelope, marker, reader,
               loaded, crashes, faults>>
discovery == <<wanted, events, outdir, pass, discovered, emitted, deaths>>

Sweep     == INSTANCE SanitizerSweep
Trace     == INSTANCE TraceExperiment
Discovery == INSTANCE KernelDiscovery

(* mangled_name is a nonempty string or None.                              *)
ASSUME NameAssumption == Discovery!NoName \notin Kernels \cup Mangled

(* Machines that are not selected.                                         *)
NoSweep == tool = 0 /\ pinned = 0 /\ world = 0 /\ p = 0 /\ result = 0
NoTrace == /\ config = 0 /\ captures = 0 /\ dir = 0 /\ att = 0 /\ progress = 0
           /\ envelope = 0 /\ marker = 0 /\ reader = 0 /\ loaded = 0
           /\ crashes = 0 /\ faults = 0
NoDiscovery == /\ wanted = 0 /\ events = 0 /\ outdir = 0 /\ pass = 0
               /\ discovered = 0 /\ emitted = 0 /\ deaths = 0
NoWire == /\ contract = "none" /\ object = <<>> /\ doc = <<>> /\ hashed = <<>>
          /\ reading = {} /\ stage = "idle"

Init ==
    \/ kind = "compute_sanitizer" /\ Sweep!Init /\ NoTrace /\ NoDiscovery /\ NoWire
    \/ kind = "reg_trace" /\ Trace!Init /\ NoSweep /\ NoDiscovery /\ NoWire
    \/ kind = "kernel_discovery" /\ Discovery!DiscoveryInit /\ NoSweep /\ NoTrace /\ NoWire
    \/ kind = "document" /\ WireInit /\ NoSweep /\ NoTrace /\ NoDiscovery

(* LocalExperimentExecutor.execute *)
RunSanitizer == kind = "compute_sanitizer" /\ Sweep!Next
                /\ UNCHANGED <<kind, trace, discovery, wvars>>
RunTrace == kind = "reg_trace" /\ Trace!Next
            /\ UNCHANGED <<kind, sweep, discovery, wvars>>
DiscoverWorkUnits == kind = "kernel_discovery" /\ Discovery!DiscoveryNext
                     /\ UNCHANGED <<kind, sweep, trace, wvars>>
Exchange == kind = "document" /\ WireNext
            /\ UNCHANGED <<kind, sweep, trace, discovery>>

Next == RunSanitizer \/ RunTrace \/ DiscoverWorkUnits \/ Exchange

Spec == Init /\ [][Next]_<<kind, sweep, trace, discovery, wvars>>

-----------------------------------------------------------------------------
(* Every result an adapter builds, its projection onto a kernel included,  *)
(* is one the session accepts (_validate_sanitizer_result,                 *)
(* _validate_trace_result, KernelDiscoveryManifest), but for a trace whose *)
(* target failed with only blanks as its last words: these are handed on   *)
(* as the error, which the session refuses, and nothing else of that       *)
(* result is refused (_target_failure_detail).                             *)
SessionAccepts ==
    /\ kind = "compute_sanitizer" => Sweep!SessionAccepts
    /\ kind = "reg_trace" => Trace!TraceAccepted
    /\ kind = "kernel_discovery" => Discovery!ManifestAccepted

(* A sweep that is trusted as clean comes from a tool that ended well,     *)
(* said that it found nothing, and found nothing, printed or not, and its  *)
(* log is kept (has_trustworthy_clean).                                    *)
CleanIsEarned == kind = "compute_sanitizer" => Sweep!CleanIsEarned

(* What the tool printed reaches the kernel it is about and no other: a    *)
(* complete result has every readable diagnostic, one that was printed     *)
(* whole stays a usable signal whatever happens to the tool afterwards,    *)
(* and a kernel is charged only with the errors of its own                 *)
(* (compute_sanitizer/parser.py, project_target_scoped_sanitizer_result).  *)
FindingsReachTheirKernel ==
    kind = "compute_sanitizer" =>
        Sweep!NothingLostSilently /\ Sweep!FindingSurvives /\ Sweep!ChargedToItsKernel

(* A complete trace is one capture: the log, the cubin and every trace are *)
(* of the same run of the target, that run ended well, and the analysis    *)
(* read the bytes the result names (run_trace_experiment).                 *)
CompleteIsOneCapture == kind = "reg_trace" => Trace!CompleteIsOneCapture

(* A checkpoint is never taken for another dispatch's and never changes    *)
(* once it was loaded (load_terminal_checkpoint,                           *)
(* initialize_terminal_checkpoint).                                        *)
CommittedIsFinal == kind = "reg_trace" => Trace!CommittedIsFinal

(* The manifest is determined by the published event files and not by the  *)
(* order in which they are read (_read_kernels, _publish_discovery).       *)
ManifestMatchesEvents == kind = "kernel_discovery" => Discovery!ManifestMatchesEvents
=============================================================================
