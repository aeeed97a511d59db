---------------------------- MODULE HangDetector ----------------------------
(***************************************************************************)
(* The watchdogs of one context's receiver thread (src/analysis.cu): the   *)
(* deadlock heuristic over warp activity, the kernel timeout and the       *)
(* no-data timeout.  Time is time(nullptr), in seconds.  Launch calls, of  *)
(* one kernel or of a graph with its nodes, do not overlap, but the        *)
(* receiver may still be parsing or finishing the kernels of one call when *)
(* the next is made; the channel is trusted and keeps the order of the     *)
(* calls (module TraceCapture).                                            *)
(***************************************************************************)
EXTENDS Integers, FiniteSets

CONSTANTS
    Warps,
    None,             \* no timestamp
    MaxKernels,       \* bound: kernel launches, graph nodes included
    MaxGraphNodes,    \* bound: launches of graph nodes
    MaxClock,         \* bound: seconds
    Throttle,         \* HANG_CHECK_THROTTLE_SECS
    HistoryLen,       \* PC_HISTORY_LEN
    LoopRepeatThresh, \* LOOP_REPEAT_THRESH
    KernelTimeout,    \* kernel_timeout_s, 0 when off
    NoDataTimeout     \* no_data_timeout_s, 0 when off

Kernels == 1..MaxKernels
Seconds == 1..MaxClock

VARIABLES
    clock,
    launched,       \* kernels launched so far
    running,        \* the kernels of the launch call under way
    graphs,         \* the nodes of every graph launch so far
    open,           \* kernels with a trace writer
    taken,          \* completion requests the receiver has yet to finish
    last_seen_kernel_launch_id,
    loop_states, active_warps, last_seen_time, exit_candidate_since,
    last_is_defer_blocking,
    last_hang_check_time, deadlock_consecutive_hits,
    kernel_start_time, last_data_received_time,
    terminated,     \* why the process was killed, "no" while it lives
    \* history variables
    streak,         \* consecutive stalled checks of the kernel last seen
    sent,           \* open kernels that sent a record
    heard           \* when a kernel was last launched directly or sent a record

warpState == <<loop_states, active_warps, last_seen_time, exit_candidate_since,
               last_is_defer_blocking>>
hangCheck == <<last_hang_check_time, deadlock_consecutive_hits, streak>>
times == <<kernel_start_time, last_data_received_time, heard>>
kernels == <<launched, running, graphs, open>>
vars == <<clock, kernels, last_seen_kernel_launch_id, warpState, hangCheck, times,
          taken, sent, terminated>>

GraphNodes == UNION graphs

NoLoop == [filled |-> 0, repeat_cnt |-> 0, loop_flag |-> FALSE]

Init ==
    /\ clock = 1
    /\ launched = 0 /\ running = {}
    /\ graphs = {}
    /\ open = {} /\ taken = {}
    /\ last_seen_kernel_launch_id = 0
    /\ loop_states = [w \in Warps |-> NoLoop]
    /\ active_warps = {}
    /\ last_seen_time = [w \in Warps |-> None]
    /\ exit_candidate_since = [w \in Warps |-> None]
    /\ last_is_defer_blocking = {}
    /\ last_hang_check_time = 0
    /\ deadlock_consecutive_hits = 0
    /\ kernel_start_time = 0
    /\ last_data_received_time = 0
    /\ terminated = "no"
    /\ streak = 0
    /\ sent = {} /\ heard = 0

-----------------------------------------------------------------------------
Alive == terminated = "no"

Tick ==
    /\ clock < MaxClock
    /\ clock' = clock + 1
    /\ UNCHANGED <<kernels, last_seen_kernel_launch_id, warpState, hangCheck, times,
                   taken, sent, terminated>>

(* A writer for the next launch id.                                        *)
OpenWriter ==
    /\ launched < MaxKernels
    /\ launched' = launched + 1
    /\ open' = open \cup {launched + 1}

(* enter_kernel_launch, of an instrumented kernel.                         *)
Launch ==
    /\ Alive
    /\ running = {}
    /\ OpenWriter
    /\ running' = {launched + 1}
    /\ kernel_start_time' = clock
    /\ last_data_received_time' = 0
    /\ heard' = clock
    /\ UNCHANGED <<clock, graphs, last_seen_kernel_launch_id, warpState, hangCheck,
                   taken, sent, terminated>>

(* nvbit_at_graph_node_launch, of an instrumented node: the first of a     *)
(* graph launch or one more.  The times stay what they are.                *)
LaunchGraphNode ==
    /\ Alive
    /\ running = {} \/ running \in graphs
    /\ Cardinality(GraphNodes) < MaxGraphNodes
    /\ OpenWriter
    /\ running' = running \cup {launched + 1}
    /\ graphs' = (graphs \ {running}) \cup {running \cup {launched + 1}}
    /\ UNCHANGED <<clock, last_seen_kernel_launch_id, warpState, hangCheck, times,
                   taken, sent, terminated>>

(* leave_kernel_launch, leave_graph_launch                                 *)
LaunchEnds ==
    /\ Alive
    /\ running # {}
    /\ running' = {}
    /\ UNCHANGED <<clock, launched, graphs, open, last_seen_kernel_launch_id, warpState,
                   hangCheck, times, taken, sent, terminated>>

(* clear_deadlock_state, but for the times and the records that follow.    *)
Cleared ==
    [loops |-> [w \in Warps |-> NoLoop], active |-> {},
     seen |-> [w \in Warps |-> None], exits |-> [w \in Warps |-> None],
     barrier |-> {}]

Current ==
    [loops |-> loop_states, active |-> active_warps, seen |-> last_seen_time,
     exits |-> exit_candidate_since, barrier |-> last_is_defer_blocking]

Becomes(s) ==
    /\ loop_states' = s.loops
    /\ active_warps' = s.active
    /\ last_seen_time' = s.seen
    /\ exit_candidate_since' = s.exits
    /\ last_is_defer_blocking' = s.barrier

(* Mutant: the state is cleared although the next kernel is under way.     *)
ClearsWatchdogAlways(k) == TRUE

ClearsWatchdog(k) == open = {k}

(* finish_requested_captures of the oldest kernel that ended               *)
FinishCapture(k) ==
    /\ Alive
    /\ k \in open /\ k \notin running
    /\ \A j \in open : k <= j
    /\ open' = open \ {k}
    /\ taken' = taken \ {k} /\ sent' = sent \ {k}
    /\ IF ClearsWatchdog(k)
       THEN /\ Becomes(Cleared)
            /\ kernel_start_time' = 0
            /\ last_data_received_time' = 0
            /\ streak' = 0
       ELSE UNCHANGED <<warpState, kernel_start_time,
                        last_data_received_time, streak>>
    /\ UNCHANGED <<clock, launched, running, graphs, last_seen_kernel_launch_id,
                   last_hang_check_time, deadlock_consecutive_hits, heard,
                   terminated>>

-----------------------------------------------------------------------------

(* update_loop_state; repeats: the signature of the full history is the    *)
(* one computed for the previous record.  The count stops where it no      *)
(* longer matters.                                                         *)
UpdateLoopState(s, repeats) ==
    IF s.filled + 1 < HistoryLen THEN [s EXCEPT !.filled = @ + 1]
    ELSE LET cnt == IF ~repeats THEN 1
                    ELSE IF s.repeat_cnt > LoopRepeatThresh THEN s.repeat_cnt
                    ELSE s.repeat_cnt + 1
         IN  [filled |-> HistoryLen, repeat_cnt |-> cnt,
              loop_flag |-> cnt > LoopRepeatThresh]

(* Records arrive in the order of the launch calls; those of the nodes of  *)
(* one graph mix.                                                          *)
InOrder(k) ==
    \/ k >= last_seen_kernel_launch_id
    \/ \E g \in graphs : {k, last_seen_kernel_launch_id} \subseteq g

(* One register record in recv_thread_fun: of an EXIT, of a blocking       *)
(* barrier or of another instruction.                                      *)
Record(k, w, kind, repeats) ==
    /\ Alive
    /\ taken = {}
    /\ k \in open
    /\ InOrder(k)
    /\ LET new == k # last_seen_kernel_launch_id
           s   == IF new THEN Cleared ELSE Current
       IN  /\ repeats => s.loops[w].repeat_cnt > 0
           /\ Becomes([loops |-> [s.loops EXCEPT ![w] = UpdateLoopState(@, repeats)],
                       active |-> s.active \cup {w},
                       seen |-> [s.seen EXCEPT ![w] = clock],
                       exits |-> IF kind = "exit" /\ s.exits[w] = None
                                 THEN [s.exits EXCEPT ![w] = clock] ELSE s.exits,
                       barrier |-> IF kind = "barrier" THEN s.barrier \cup {w}
                                   ELSE s.barrier \ {w}])
           /\ kernel_start_time' = IF new THEN clock ELSE kernel_start_time
           /\ last_hang_check_time' = IF new THEN clock ELSE last_hang_check_time
           /\ streak' = IF new THEN 0 ELSE streak
    /\ last_seen_kernel_launch_id' = k
    /\ last_data_received_time' = clock
    /\ sent' = sent \cup {k} /\ heard' = clock
    /\ UNCHANGED <<clock, kernels, taken, deadlock_consecutive_hits, terminated>>

-----------------------------------------------------------------------------
(* The checks at the end of an iteration.                                  *)

(* Warps that sent an EXIT, nothing since, and had a second to do so.      *)
ExitedWarps ==
    {w \in active_warps :
       /\ exit_candidate_since[w] # None
       /\ last_seen_time[w] <= exit_candidate_since[w]
       /\ clock - exit_candidate_since[w] >= Throttle}

Pruned ==
    [Current EXCEPT !.active = @ \ ExitedWarps,
                    !.loops = [w \in Warps |-> IF w \in ExitedWarps THEN NoLoop ELSE @[w]],
                    !.seen = [w \in Warps |-> IF w \in ExitedWarps THEN None ELSE @[w]],
                    !.exits = [w \in Warps |-> IF w \in ExitedWarps THEN None ELSE @[w]]]

(* No active warp makes progress: each is at a barrier or in a loop.       *)
CandidateHang(s) ==
    /\ s.active # {}
    /\ \A w \in s.active : w \in s.barrier \/ s.loops[w].loop_flag

(* check_kernel_hang: the third stalled check in a row kills the process.  *)
(* The next iteration begins with the requests made until now.             *)
CheckKernelHang ==
    /\ Alive
    /\ taken = {}
    /\ last_seen_kernel_launch_id # 0
    /\ clock - last_hang_check_time >= Throttle
    /\ last_hang_check_time' = clock
    /\ taken' = open \ running
    /\ IF active_warps = {}
       THEN /\ streak' = 0
            /\ UNCHANGED <<warpState, deadlock_consecutive_hits, terminated>>
       ELSE /\ Becomes(Pruned)
            /\ IF CandidateHang(Pruned)
               THEN /\ deadlock_consecutive_hits' = deadlock_consecutive_hits + 1
                    /\ streak' = streak + 1
                    /\ terminated' = IF deadlock_consecutive_hits + 1 >= 3 THEN "hang"
                                     ELSE terminated
               ELSE /\ deadlock_consecutive_hits' = 0
                    /\ streak' = 0
                    /\ UNCHANGED terminated
    /\ UNCHANGED <<clock, kernels, last_seen_kernel_launch_id, times, sent>>

(* check_kernel_timeout, when the timeout counts from the first data       *)
CheckKernelTimeout ==
    /\ Alive
    /\ taken = {}
    /\ KernelTimeout > 0
    /\ last_seen_kernel_launch_id # 0
    /\ kernel_start_time # 0
    /\ clock - kernel_start_time >= KernelTimeout
    /\ terminated' = "timeout"
    /\ UNCHANGED <<clock, kernels, last_seen_kernel_launch_id, warpState, hangCheck,
                   times, taken, sent>>

(* Silence counts from the last data, or from the launch before any.       *)
ReferenceTime ==
    IF last_data_received_time # 0 THEN last_data_received_time ELSE kernel_start_time

(* check_no_data_timeout                                                   *)
CheckNoDataTimeout ==
    /\ Alive
    /\ taken = {}
    /\ NoDataTimeout > 0
    /\ ReferenceTime # 0
    /\ clock - ReferenceTime >= NoDataTimeout
    /\ terminated' = "no_data"
    /\ UNCHANGED <<clock, kernels, last_seen_kernel_launch_id, warpState, hangCheck,
                   times, taken, sent>>

Next ==
    \/ Tick \/ Launch \/ LaunchGraphNode \/ LaunchEnds
    \/ \E k \in Kernels : FinishCapture(k)
    \/ \E k \in Kernels, w \in Warps, kind \in {"step", "barrier", "exit"},
          repeats \in BOOLEAN : Record(k, w, kind, repeats)
    \/ CheckKernelHang \/ CheckKernelTimeout \/ CheckNoDataTimeout

Spec == Init /\ [][Next]_vars

-----------------------------------------------------------------------------
(* Properties.                                                             *)

(* The timeouts have a time to count from while a kernel is captured that  *)
(* was launched directly or has sent a record, even if it is launched      *)
(* while the receiver still finishes the ones before it                    *)
(* (enter_kernel_launch against finish_requested_captures).  A graph node  *)
(* that has sent nothing is not covered: nvbit_at_graph_node_launch starts *)
(* no time.                                                                *)
WatchdogArmed ==
    \A k \in open : k \notin GraphNodes \/ k \in sent => kernel_start_time # 0

(* The no-data timeout kills only while a kernel is captured, and after    *)
(* that much silence since the last record and the last direct launch: so  *)
(* never between captures, and a direct launch is never charged with the   *)
(* silence before it.  The launch of a graph node is no such event: a node *)
(* inherits the silence of the captures it overlaps.                       *)
NoDataIsSilence ==
    terminated = "no_data" => open # {} /\ clock - heard >= NoDataTimeout

(* A hang verdict rests on three stalled checks in a row of the kernel     *)
(* that is killed (check_kernel_hang, clear_deadlock_state).               *)
HangIsSustained == terminated = "hang" => streak >= 3

=============================================================================
