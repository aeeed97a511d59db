-------------------------- MODULE CoordinatorCalls --------------------------
(***************************************************************************)
(* What DistributedCoordinator.start begins: a session pinned to a kernel  *)
(* (SessionCoordinator), or the parent of a discovery, which starts such   *)
(* sessions itself (DiscoveryFanout).                                      *)
(***************************************************************************)
EXTENDS SessionCoordinator

CONSTANTS
    Root, Discovery, Kernels, MaxKernels,
    TargetScoped,       \* the initial experiments a parent runs for its children
    MaxLapses           \* bound: calls that fail and workers that stop in a fan-out

VARIABLES
    pinned,     \* unit.kernel is set
    sessions, worker, childJobs, lapses

(* Follow-up rounds are left to the pinned session.  A finding is the      *)
(* payload under which a child can reach every state of its life.          *)
Fanout == INSTANCE DiscoveryFanout WITH
    Experiments    <- Initial,
    Shared         <- TargetScoped,
    Payloads       <- {"signal"},
    MaxRounds      <- 0,
    NoVal          <- Absent,
    MaxFaults      <- MaxLapses

ASSUME CallsAssumption ==
    /\ Root \notin Kernels
    /\ Discovery \notin Experiments
    /\ TargetScoped \subseteq Initial \ Stress
    /\ MaxLapses \in Nat
    /\ Absent \notin Fanout!StoredChild

fanout == <<sessions, worker, childJobs, lapses>>

CallsInit == Init /\ Fanout!FanoutInit /\ pinned \in BOOLEAN

PinnedSession   == pinned /\ Next /\ UNCHANGED <<pinned, fanout>>
DiscoveryParent == ~pinned /\ Fanout!FanoutNext /\ UNCHANGED <<pinned, vars>>

CallsNext == PinnedSession \/ DiscoveryParent

CallsSpec == CallsInit /\ [][CallsNext]_<<pinned, fanout, vars>>

(* A pinned session among hosts that go on, retry and reconcile.           *)
PinnedInit == CallsInit /\ pinned

CallsFairSpec == PinnedInit /\ [][CallsNext]_<<pinned, fanout, vars>> /\ Fairness

(* A discovery that calls itself complete has left nothing behind          *)
(* (_create_discovery_children; DiscoveryFanout says what that means).     *)
FanoutIsWhole == Fanout!FanoutIsWhole

=============================================================================
