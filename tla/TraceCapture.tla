---------------------------- MODULE TraceCapture ----------------------------
(***************************************************************************)
(* How one CUDA context captures its kernel launches: the application      *)
(* thread inside the launch callbacks (src/cutracer.cu), the channel from  *)
(* the device, the receiver thread (src/analysis.cu), the completion queue *)
(* between the two threads (include/capture_completion.h) and one trace    *)
(* writer per launch (src/trace_writer.cpp).  The callbacks hold           *)
(* cuda_event_mutex from the entry of a launch to its exit, so launches of *)
(* the context do not overlap; the receiver overlaps with everything.      *)
(***************************************************************************)
EXTENDS Integers, Sequences, FiniteSets, Functions

CONSTANTS
    MaxLaunches,   \* bound: kernel launches, graph nodes included
    MaxRecords,    \* bound: records all kernels send together
    MaxUnloads,    \* bound: module unloads
    None,          \* no writer
    DiskMayFail    \* whether writing a trace file may fail

(* TraceWriter, and the footer of a trace file.                            *)
Writer == [enabled : BOOLEAN, accepting : BOOLEAN, errors : BOOLEAN,
           buffered : Nat, written : Nat, dropped : Nat]
FooterRecord == [status : {"complete", "incomplete", "unavailable"},
                 written : Nat, dropped : Nat]

ASSUME CaptureAssumption ==
    /\ MaxLaunches \in Nat /\ MaxRecords \in Nat /\ MaxUnloads \in Nat
    /\ DiskMayFail \in BOOLEAN
    /\ None \notin Writer /\ None \notin FooterRecord

Launches == 1..MaxLaunches

(* A record is well formed, has impossible operand counts, or has a        *)
(* header the receiver cannot parse.                                       *)
Records == [launch : Launches, form : {"good", "invalid", "corrupt"}]

VARIABLES
    host,        \* the application thread
    nextId,      \* global_kernel_launch_id
    device,      \* records pushed by the device and not yet copied
    pushed,      \* per launch, records its kernel pushed
    rpc,         \* where the receiver thread is
    chunk,       \* copied records that are not yet parsed
    taken,       \* requests the receiver took at the last chunk boundary
    pending, graph_launches, barrier, taken_barrier, finished_barrier,
    writers,     \* trace_writers
    footer,      \* per launch, what finish wrote
    channel_failed,
    recv_thread_done,
    tables,      \* launches whose SASS tables are still registered
    unloads,
    \* history variable
    harmed       \* launches that met a fault of their own

receiver == <<rpc, chunk, taken>>
barriers == <<barrier, taken_barrier, finished_barrier>>
files    == <<writers, footer>>
context  == <<recv_thread_done, unloads>>
vars == <<host, nextId, device, pushed, receiver, pending, graph_launches,
          barriers, files, channel_failed, tables, context, harmed>>

(* The constructor; a writer whose file cannot be opened is disabled.      *)
NewWriter(opened) == [enabled |-> opened, accepting |-> TRUE, buffered |-> 0,
                      written |-> 0, dropped |-> 0, errors |-> FALSE]

IdleHost == [pc |-> "idle", graph |-> FALSE, launch |-> 0,
             completed |-> FALSE, drained |-> FALSE, awaited |-> 0]

Init ==
    /\ host = IdleHost
    /\ nextId = 1
    /\ device = <<>>
    /\ pushed = [l \in Launches |-> 0]
    /\ rpc = "take" /\ chunk = <<>> /\ taken = <<>>
    /\ pending = <<>> /\ graph_launches = <<>>
    /\ barrier = 0 /\ taken_barrier = 0 /\ finished_barrier = 0
    /\ writers = [l \in Launches |-> None]
    /\ footer = [l \in Launches |-> None]
    /\ channel_failed = FALSE
    /\ recv_thread_done = "WORKING"
    /\ tables = {}
    /\ unloads = 0
    /\ harmed = {}

Open == {l \in Launches : writers[l] # None}

Elements(s) == {s[i] : i \in DOMAIN s}

-----------------------------------------------------------------------------
(* TraceWriter.                                                            *)

(* flush_locked and finish_buffer_write: a batch that fails is dropped as  *)
(* a whole and ends the writer.                                            *)
Flush(w, ok) ==
    IF ~w.enabled THEN w
    ELSE IF ok THEN [w EXCEPT !.written = @ + w.buffered, !.buffered = 0]
    ELSE [w EXCEPT !.dropped = @ + w.buffered, !.buffered = 0,
                   !.errors = TRUE, !.enabled = FALSE]

DiskOutcomes == IF DiskMayFail THEN BOOLEAN ELSE {TRUE}

is_enabled(w) == w.enabled /\ w.accepting

(* write_trace, write_json_format.  known: the record's instruction was    *)
(* identified; full: the buffer reaches its threshold and is flushed.      *)
WriteTrace(w, known, full, ok) ==
    IF ~is_enabled(w) THEN [w EXCEPT !.dropped = @ + 1]
    ELSE LET v == [w EXCEPT !.buffered = @ + 1, !.errors = @ \/ ~known]
         IN  IF full THEN Flush(v, ok) ELSE v

MarkCaptureError(w) == [w EXCEPT !.errors = TRUE]

(* mark_capture_error of a record that is not written.                     *)
DropRecord(w) == [w EXCEPT !.errors = TRUE, !.dropped = @ + 1]

Disable(w, ok) == [Flush([w EXCEPT !.errors = TRUE], ok) EXCEPT !.accepting = FALSE]

(* finish: no footer reaches the file of a writer that failed.             *)
Footer(w, completed, drained, ok) ==
    LET f == Flush(w, ok)
    IN  [status |-> IF ~f.enabled THEN "unavailable"
                    ELSE IF f.errors \/ ~completed \/ ~drained \/ f.dropped > 0
                    THEN "incomplete" ELSE "complete",
         written |-> f.written, dropped |-> f.dropped]

-----------------------------------------------------------------------------
(* The application thread.                                                 *)

Reaches(p) == [host EXCEPT !.pc = p]

(* create_trace_writer_locked                                              *)
CreateWriter(l, w) ==
    /\ writers' = [writers EXCEPT ![l] = w]
    /\ tables' = tables \cup {l}

(* enter_kernel_launch: a kernel is instrumented, and gets a writer, only  *)
(* while the channel is trusted.                                           *)
EnterKernelLaunch ==
    /\ host.pc = "idle"
    /\ nextId \in Launches
    /\ nextId' = nextId + 1
    /\ host' = [IdleHost EXCEPT !.pc = "kernel", !.launch = nextId]
    /\ IF channel_failed THEN UNCHANGED <<writers, tables, harmed>>
       ELSE \E opened \in DiskOutcomes :
               /\ CreateWriter(nextId, NewWriter(opened))
               /\ harmed' = IF opened THEN harmed ELSE harmed \cup {nextId}
    /\ UNCHANGED <<device, pushed, receiver, pending, graph_launches, barriers,
                   footer, channel_failed, context>>

(* The entry of cuGraphLaunch.                                             *)
EnterGraphLaunch ==
    /\ host.pc = "idle"
    /\ nextId \in Launches
    /\ host' = [IdleHost EXCEPT !.pc = "kernel", !.graph = TRUE]
    /\ UNCHANGED <<nextId, device, pushed, receiver, pending, graph_launches,
                   barriers, files, channel_failed, tables, context, harmed>>

(* nvbit_at_graph_node_launch: the completion of a node is not verified,   *)
(* so its writer starts with an error.                                     *)
GraphNodeLaunch ==
    /\ host.pc = "kernel" /\ host.graph
    /\ nextId \in Launches
    /\ nextId' = nextId + 1
    /\ IF channel_failed THEN UNCHANGED <<writers, tables, graph_launches, harmed>>
       ELSE /\ \E opened \in DiskOutcomes :
                  CreateWriter(nextId, MarkCaptureError(NewWriter(opened)))
            /\ graph_launches' = Append(graph_launches, nextId)
            /\ harmed' = harmed \cup {nextId}
    /\ UNCHANGED <<host, device, pushed, receiver, pending, barriers, footer,
                   channel_failed, context>>

(* cuGraphLaunchWithArguments is not captured, and what it ran may have    *)
(* written to the channel.                                                 *)
UnsupportedGraphLaunch ==
    /\ host.pc = "idle"
    /\ channel_failed' = TRUE
    /\ UNCHANGED <<host, nextId, device, pushed, receiver, pending, graph_launches,
                   barriers, files, tables, context, harmed>>

Running == IF host.graph THEN Elements(graph_launches) ELSE {host.launch} \cap tables

SumOf(f) == FoldFunction(LAMBDA a, b : a + b, 0, f)

(* A running kernel pushes a record.                                       *)
KernelPush(l) ==
    /\ host.pc = "kernel"
    /\ l \in Running
    /\ SumOf(pushed) < MaxRecords
    /\ \E form \in {"good", "invalid", "corrupt"} :
          device' = Append(device, [launch |-> l, form |-> form])
    /\ pushed' = [pushed EXCEPT ![l] = @ + 1]
    /\ UNCHANGED <<host, nextId, receiver, pending, graph_launches, barriers,
                   files, channel_failed, tables, context, harmed>>

(* synchronize_and_drain_capture, first half: the kernel is waited for.    *)
(* The launch call reports failure only when nothing ran.                  *)
SynchronizeKernel ==
    /\ host.pc = "kernel"
    /\ \/ \E succeeded \in BOOLEAN :
             /\ ~succeeded => \A l \in Running : pushed[l] = 0
             /\ host' = [Reaches("flush") EXCEPT !.completed = succeeded]
             /\ UNCHANGED channel_failed
       \/ /\ host' = Reaches("request")
          /\ channel_failed' = TRUE
    /\ UNCHANGED <<nextId, device, pushed, receiver, pending, graph_launches,
                   barriers, files, tables, context, harmed>>

(* Second half: the flush kernel ends once the receiver has copied the     *)
(* last record, or it fails.                                               *)
FlushChannel ==
    /\ host.pc = "flush"
    /\ \/ /\ device = <<>>
          /\ host' = [Reaches("request") EXCEPT !.drained = TRUE]
          /\ UNCHANGED channel_failed
       \/ /\ host' = Reaches("request")
          /\ channel_failed' = TRUE
    /\ UNCHANGED <<nextId, device, pushed, receiver, pending, graph_launches,
                   barriers, files, tables, context, harmed>>

Request(l) == [launch |-> l, completed |-> host.completed, drained |-> host.drained]

(* Mutant: the nodes of a graph are not requested at its exit.             *)
RequestCompletionDirect ==
    /\ host.pc = "request"
    /\ pending' = IF host.graph THEN pending ELSE Append(pending, Request(host.launch))
    /\ host' = IdleHost
    /\ harmed' = IF host.completed /\ host.drained THEN harmed
                 ELSE harmed \cup {host.launch}
    /\ UNCHANGED <<nextId, device, pushed, receiver, graph_launches, barriers, files,
                   channel_failed, tables, context>>

(* leave_kernel_launch, leave_graph_launch                                 *)
RequestCompletion ==
    /\ host.pc = "request"
    /\ IF host.graph
       THEN /\ pending' = pending \o
                     [i \in DOMAIN graph_launches |-> Request(graph_launches[i])]
            /\ graph_launches' = <<>>
            /\ UNCHANGED harmed
       ELSE /\ pending' = Append(pending, Request(host.launch))
            /\ harmed' = IF host.completed /\ host.drained THEN harmed
                         ELSE harmed \cup {host.launch}
            /\ UNCHANGED graph_launches
    /\ host' = IdleHost
    /\ UNCHANGED <<nextId, device, pushed, receiver, barriers, files,
                   channel_failed, tables, context>>

(* forget_runtime_module and wait_for_receiver: the tables of an unloaded  *)
(* module are retired at the receiver's next chunk boundary.               *)
UnloadModule ==
    /\ host.pc = "idle"
    /\ tables # {}
    /\ unloads < MaxUnloads
    /\ unloads' = unloads + 1
    /\ barrier' = barrier + 1
    /\ host' = [IdleHost EXCEPT !.pc = "waiting", !.awaited = barrier + 1]
    /\ UNCHANGED <<nextId, device, pushed, receiver, pending, graph_launches,
                   taken_barrier, finished_barrier, files, channel_failed,
                   tables, recv_thread_done, harmed>>

(* Mutant: a boundary that began before the wait ends it.                  *)
ReachedBoundaryEarly == finished_barrier >= host.awaited - 1

ReachedBoundary == finished_barrier >= host.awaited

(* After 120 seconds the module is retired anyway.                         *)
RetireModule ==
    /\ host.pc = "waiting"
    /\ \/ ReachedBoundary /\ UNCHANGED channel_failed
       \/ ~ReachedBoundary /\ channel_failed' = TRUE
    /\ tables' = {}
    /\ host' = IdleHost
    /\ UNCHANGED <<nextId, device, pushed, receiver, pending, graph_launches,
                   barriers, files, context, harmed>>

(* nvbit_at_ctx_term; the result of its own flush is not checked.          *)
TerminateContext ==
    /\ host.pc = "idle"
    /\ recv_thread_done' = "STOP"
    /\ host' = Reaches("stopping")
    /\ UNCHANGED <<nextId, device, pushed, receiver, pending, graph_launches,
                   barriers, files, channel_failed, tables, unloads, harmed>>

ContextGone ==
    /\ host.pc = "stopping"
    /\ recv_thread_done = "FINISHED"
    /\ host' = Reaches("down")
    /\ UNCHANGED <<nextId, device, pushed, receiver, pending, graph_launches,
                   barriers, files, channel_failed, tables, context, harmed>>

-----------------------------------------------------------------------------
(* The receiver thread.                                                    *)

(* Mutant: requests are taken between two records of a chunk.              *)
AtChunkBoundaryAnywhere == rpc \in {"take", "parse"}

AtChunkBoundary == rpc = "take"

(* take_at_chunk_boundary, in the loop or after it.                        *)
TakeRequests ==
    /\ AtChunkBoundary
    /\ taken_barrier' = barrier
    /\ taken' = pending
    /\ pending' = <<>>
    /\ rpc' = IF recv_thread_done = "WORKING" THEN "finish" ELSE "last_finish"
    /\ UNCHANGED <<host, nextId, device, pushed, chunk, graph_launches, barrier,
                   finished_barrier, files, channel_failed, tables, context, harmed>>

Finish(l, w, completed, drained, ok) ==
    /\ footer' = [footer EXCEPT ![l] = Footer(w, completed, drained, ok)]
    /\ writers' = [writers EXCEPT ![l] = None]
    /\ harmed' = IF ok THEN harmed ELSE harmed \cup {l}

(* finish_requested_captures, for one request; a launch that was not       *)
(* instrumented has no writer.                                             *)
FinishRequested ==
    /\ rpc \in {"finish", "last_finish"}
    /\ taken # <<>>
    /\ LET q == Head(taken)
           w == writers[q.launch]
       IN  IF w = None THEN UNCHANGED <<files, harmed>>
           ELSE \E ok \in DiskOutcomes :
                   Finish(q.launch,
                          IF channel_failed THEN MarkCaptureError(w) ELSE w,
                          q.completed, q.drained, ok)
    /\ taken' = Tail(taken)
    /\ UNCHANGED <<host, nextId, device, pushed, rpc, chunk, pending, graph_launches,
                   barriers, channel_failed, tables, context>>

FinishedBarrier == taken_barrier

(* finished_chunk_boundary                                                 *)
FinishBoundary ==
    /\ rpc \in {"finish", "last_finish"}
    /\ taken = <<>>
    /\ finished_barrier' = FinishedBarrier
    /\ rpc' = IF rpc = "finish" THEN "recv" ELSE "close"
    /\ UNCHANGED <<host, nextId, device, pushed, chunk, taken, pending, graph_launches,
                   barrier, taken_barrier, files, channel_failed, tables, context,
                   harmed>>

(* ChannelHost::recv copies what has arrived, perhaps nothing, and         *)
(* acknowledges it before it is parsed.                                    *)
ReceiveChunk ==
    /\ rpc = "recv"
    /\ \E n \in 0..Len(device) :
          /\ chunk' = chunk \o SubSeq(device, 1, n)
          /\ device' = SubSeq(device, n + 1, Len(device))
    /\ rpc' = "parse"
    /\ UNCHANGED <<host, nextId, pushed, taken, pending, graph_launches, barriers,
                   files, channel_failed, tables, context, harmed>>

(* mark_channel_failure                                                    *)
ChannelFailure ==
    /\ channel_failed' = TRUE
    /\ writers' = [l \in Launches |->
                      IF l \in Open THEN MarkCaptureError(writers[l]) ELSE None]

(* A header that cannot be parsed ends the chunk.                          *)
ParseCorrupt ==
    /\ rpc = "parse" /\ chunk # <<>>
    /\ Head(chunk).form = "corrupt"
    /\ chunk' = <<>>
    /\ ChannelFailure
    /\ UNCHANGED <<host, nextId, device, pushed, rpc, taken, pending, graph_launches,
                   barriers, footer, tables, context, harmed>>

(* A record whose launch has no writer any more.                           *)
ParseOrphan ==
    /\ rpc = "parse" /\ chunk # <<>>
    /\ Head(chunk).form # "corrupt"
    /\ Head(chunk).launch \notin Open
    /\ chunk' = Tail(chunk)
    /\ ChannelFailure
    /\ UNCHANGED <<host, nextId, device, pushed, rpc, taken, pending, graph_launches,
                   barriers, footer, tables, context, harmed>>

ParseRecord ==
    /\ rpc = "parse" /\ chunk # <<>>
    /\ LET r == Head(chunk)
       IN  /\ r.form # "corrupt"
           /\ r.launch \in Open
           /\ \E full \in BOOLEAN, ok \in DiskOutcomes :
                 /\ writers' = [writers EXCEPT ![r.launch] =
                       IF r.form = "good" THEN WriteTrace(@, r.launch \in tables, full, ok)
                       ELSE DropRecord(@)]
                 /\ harmed' = IF r.form = "good" /\ r.launch \in tables /\ (full => ok)
                              THEN harmed ELSE harmed \cup {r.launch}
    /\ chunk' = Tail(chunk)
    /\ UNCHANGED <<host, nextId, device, pushed, rpc, taken, pending, graph_launches,
                   barriers, footer, channel_failed, tables, context>>

(* The end of an iteration: the periodic flush and check_trace_size_limit, *)
(* each if it is due.                                                      *)
PeriodicChecks ==
    /\ rpc = "parse" /\ chunk = <<>>
    /\ \/ UNCHANGED <<writers, harmed>>
       \/ \E ok \in DiskOutcomes :
             /\ writers' = [l \in Launches |->
                               IF l \in Open THEN Flush(writers[l], ok) ELSE None]
             /\ harmed' = IF ok THEN harmed ELSE harmed \cup Open
       \/ \E l \in Open, ok \in DiskOutcomes :
             /\ is_enabled(writers[l])
             /\ writers' = [writers EXCEPT ![l] = Disable(@, ok)]
             /\ harmed' = harmed \cup {l}
    /\ rpc' = "take"
    /\ UNCHANGED <<host, nextId, device, pushed, chunk, taken, pending, graph_launches,
                   barriers, footer, channel_failed, tables, context>>

(* The end of recv_thread_fun: what was never requested is incomplete.     *)
CloseWriters ==
    /\ rpc = "close"
    /\ \E ok \in DiskOutcomes :
          footer' = [l \in Launches |-> IF l \in Open
                                        THEN Footer(writers[l], FALSE, FALSE, ok)
                                        ELSE footer[l]]
    /\ writers' = [l \in Launches |-> None]
    /\ recv_thread_done' = "FINISHED"
    /\ rpc' = "exited"
    /\ UNCHANGED <<host, nextId, device, pushed, chunk, taken, pending, graph_launches,
                   barriers, channel_failed, tables, unloads, harmed>>

-----------------------------------------------------------------------------
Receiver ==
    \/ TakeRequests \/ FinishRequested \/ FinishBoundary \/ ReceiveChunk
    \/ ParseCorrupt \/ ParseOrphan \/ ParseRecord
    \/ PeriodicChecks \/ CloseWriters

HostReturns ==
    \/ SynchronizeKernel \/ FlushChannel \/ RequestCompletion
    \/ RetireModule \/ ContextGone

HostCalls ==
    \/ EnterKernelLaunch \/ EnterGraphLaunch \/ GraphNodeLaunch
    \/ UnsupportedGraphLaunch \/ UnloadModule \/ TerminateContext

Next ==
    \/ Receiver \/ HostReturns \/ HostCalls
    \/ \E l \in Launches : KernelPush(l)

Spec == Init /\ [][Next]_vars

(* The receiver thread runs, and every call into the driver returns.       *)
FairSpec == Spec /\ WF_vars(Receiver) /\ WF_vars(HostReturns)

-----------------------------------------------------------------------------
(* Properties.                                                             *)

(* Footers are true.  A trace whose footer says "complete" holds every     *)
(* record its kernel sent, although the channel acknowledges records       *)
(* before they are parsed (take_at_chunk_boundary, finish).  While the     *)
(* channel is trusted a footer accounts for every record, as written or as *)
(* dropped, whatever was disabled or failed meanwhile (write_trace,        *)
(* finish_buffer_write), and a launch that met no fault is not reported    *)
(* incomplete: requests cannot overtake or outlive the capture they are    *)
(* about (finish_requested_captures).                                      *)
FootersAreTrue ==
    \A l \in Launches : footer[l] # None =>
       /\ footer[l].status = "complete" =>
             footer[l].written = pushed[l] /\ footer[l].dropped = 0
       /\ ~channel_failed =>
             /\ footer[l].written + footer[l].dropped = pushed[l]
             /\ l \notin harmed => footer[l].status = "complete"

(* The SASS tables of a module are only retired once no record that needs  *)
(* them is left to parse (wait_for_receiver_boundary).                     *)
TablesOutliveRecords ==
    ~channel_failed => \A r \in Elements(device) \cup Elements(chunk) : r.launch \in tables

(* Every capture is finished while the application lives: its footer does  *)
(* not wait for the end of the context.                                    *)
EveryCaptureFinishes ==
    \A l \in Launches : writers[l] # None ~> footer[l] # None

=============================================================================
