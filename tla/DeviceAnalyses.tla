--------------------------- MODULE DeviceAnalyses ---------------------------
(***************************************************************************)
(* A process under CUTracer does what its environment selects: it records  *)
(* a trace of every launch (TraceCapture), it runs the deadlock heuristic  *)
(* and the timeouts over the records (HangDetector), both on the receiver  *)
(* thread of the context, or it injects delays and leaves them for a       *)
(* replay (DelayDump).                                                     *)
(***************************************************************************)
EXTENDS TraceCapture

CONSTANTS Warps, MaxKernels, MaxGraphNodes, MaxClock, Throttle, HistoryLen,
          LoopRepeatThresh, KernelTimeout, NoDataTimeout,
          Procs, DumpKernels, MaxMishaps

ASSUME DeviceAssumption ==
    /\ MaxKernels \in Nat /\ MaxClock \in Nat
    /\ KernelTimeout \in Nat /\ NoDataTimeout \in Nat
    /\ "free" \notin Procs      \* DelayDump!Free

VARIABLES
    analysis,       \* CUTRACER_ANALYSIS, or random_delay of CUTRACER_INSTRUMENT
    dump, flock, proc, saved, mishaps,
    clock, launched, running, graphs, open, last_seen_kernel_launch_id,
    loop_states, active_warps, last_seen_time, exit_candidate_since,
    last_is_defer_blocking, last_hang_check_time, deadlock_consecutive_hits,
    kernel_start_time, last_data_received_time, terminated,
    requests, streak, sent, heard

Hang == INSTANCE HangDetector WITH taken <- requests

hang == <<clock, launched, running, graphs, open, last_seen_kernel_launch_id,
          loop_states, active_warps, last_seen_time, exit_candidate_since,
          last_is_defer_blocking, last_hang_check_time, deadlock_consecutive_hits,
          kernel_start_time, last_data_received_time, terminated,
          requests, streak, sent, heard>>

Dump == INSTANCE DelayDump

delays == <<dump, flock, proc, saved, mishaps>>

NoDump == dump = 0 /\ flock = 0 /\ proc = 0 /\ saved = 0 /\ mishaps = 0

DeviceInit ==
    /\ Init /\ Hang!Init
    /\ \/ analysis \in {"trace", "deadlock_detection"} /\ NoDump
       \/ analysis = "random_delay" /\ Dump!DumpInit

Trace  == analysis = "trace" /\ Next /\ UNCHANGED <<analysis, hang, delays>>
Detect == analysis = "deadlock_detection" /\ Hang!Next /\ UNCHANGED <<analysis, vars, delays>>
Delay  == analysis = "random_delay" /\ Dump!DumpNext /\ UNCHANGED <<analysis, vars, hang>>

DeviceNext == Trace \/ Detect \/ Delay

(* The receiver thread runs, and every call into the driver returns.       *)
DeviceSpec ==
    /\ DeviceInit /\ [][DeviceNext]_<<analysis, hang, delays, vars>>
    /\ WF_vars(analysis = "trace" /\ Receiver /\ UNCHANGED <<analysis, hang, delays>>)
    /\ WF_vars(analysis = "trace" /\ HostReturns /\ UNCHANGED <<analysis, hang, delays>>)

(* The timeouts guard captured kernels and nothing else.  They have a time *)
(* to count from while a kernel is captured that was launched directly or  *)
(* has sent a record, even if it is launched while the receiver still      *)
(* finishes the ones before it (enter_kernel_launch against                *)
(* finish_requested_captures); and the no-data timeout kills only while a  *)
(* kernel is captured and after that much silence since the last record    *)
(* and the last direct launch (check_no_data_timeout).  A graph node is    *)
(* covered from its first record only, and until then by the times of the  *)
(* captures it overlaps, if any (nvbit_at_graph_node_launch).              *)
WatchdogsAreTrue == Hang!WatchdogArmed /\ Hang!NoDataIsSilence

(* The file left for a replay holds every kernel some process of the run   *)
(* has saved, and nothing that none of them instrumented                   *)
(* (merge_delay_config_file).                                              *)
DumpIsTheRun == analysis = "random_delay" => Dump!DumpIsTheRun
=============================================================================
