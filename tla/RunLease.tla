------------------------------ MODULE RunLease ------------------------------
(***************************************************************************)
(* Ownership of one Run (python/cutracer/service/run_lease.py) over the    *)
(* compare-and-swap Run-control store (file_run_store.py,                  *)
(* run_contracts.validate_run_update).                                     *)
(*                                                                         *)
(* A controller is one RunLease object: its main thread enters the lease,  *)
(* checks it, updates the control record and exits; its heartbeat thread   *)
(* renews the lease concurrently and without the object's lock.  Every     *)
(* load and every compare-and-swap is a step of its own, so anything may   *)
(* happen between the two.  All controllers read the same clock.           *)
(***************************************************************************)
EXTENDS Integers

CONSTANTS
    Controllers,    \* RunLease objects, identified with their owner tokens
    None,           \* the empty owner_token / an unbound write-once field
    LeaseMs,        \* lease_ms, in ticks of the model's clock
    HeartbeatFloor, \* the 0.1 s floor of the heartbeat interval, in ticks
    Deadline,       \* input.deadline_ms
    MaxAttempts,    \* the range(8) of every compare-and-swap loop
    MaxClock,       \* bound: the clock stops here (see Tick)
    MaxUpdates,     \* bound: update() calls that return, per controller
    StoreMayFail,   \* whether a store call may raise StoreUnavailable
    Prompt          \* whether the clock waits for threads that have a step due

ASSUME LeaseAssumption ==
    /\ None \notin Controllers
    /\ LeaseMs \in Nat \ {0}
    /\ HeartbeatFloor \in Nat \ {0}
    /\ Deadline \in Nat
    /\ MaxAttempts \in Nat \ {0}
    /\ MaxClock \in Nat
    /\ MaxUpdates \in Nat
    /\ StoreMayFail \in BOOLEAN
    /\ Prompt \in BOOLEAN

VARIABLES
    clock,     \* the wall clock every clock_ms() reads
    control,   \* the stored RunControl record
    main,      \* where each controller's main thread is
    attempt,   \* failed attempts of the main thread's current loop
    snap,      \* the record the main thread loaded, and when
    hb,        \* where each controller's heartbeat thread is
    hattempt,  \* failed attempts of the current _renew
    hsnap,     \* the record the heartbeat loaded, and when
    nextBeat,  \* when _stop.wait(interval_s) times out
    stop,      \* the _stop event
    failure,   \* whether _failure is set
    \* history variables
    until,     \* expiry of the last record each controller wrote as its own
    acked      \* how many update() calls of each controller have returned

vars == <<clock, control, main, attempt, snap, hb, hattempt, hsnap, nextBeat,
          stop, failure, until, acked>>

mainVars == <<main, attempt, snap, stop>>
hbVars   == <<hb, hattempt, hsnap, nextBeat, failure>>

Owners == Controllers \cup {None}

RunControl == [revision : Nat, owner_token : Owners, lease_expires_ms : Nat,
               submission_token : Owners, applied : [Controllers -> Nat]]

Snapshot == [rec : RunControl, at : Nat]

MinOf(a, b) == IF a <= b THEN a ELSE b

IntervalWholeLease == LeaseMs

(* The heartbeat period: a third of the lease, floored.                    *)
Interval == IF LeaseMs \div 3 >= HeartbeatFloor THEN LeaseMs \div 3
                                                ELSE HeartbeatFloor

NewControl == [revision |-> 0, owner_token |-> None, lease_expires_ms |-> 0,
               submission_token |-> None, applied |-> [c \in Controllers |-> 0]]

NoSnapshot == [rec |-> NewControl, at |-> 0]

Init ==
    /\ clock = 0
    /\ control = NewControl
    /\ main = [c \in Controllers |-> "enter"]
    /\ attempt = [c \in Controllers |-> 0]
    /\ snap = [c \in Controllers |-> NoSnapshot]
    /\ hb = [c \in Controllers |-> "off"]
    /\ hattempt = [c \in Controllers |-> 0]
    /\ hsnap = [c \in Controllers |-> NoSnapshot]
    /\ nextBeat = [c \in Controllers |-> 0]
    /\ stop = [c \in Controllers |-> FALSE]
    /\ failure = [c \in Controllers |-> FALSE]
    /\ until = [c \in Controllers |-> 0]
    /\ acked = [c \in Controllers |-> 0]

-----------------------------------------------------------------------------
(* The store.  compare_and_swap writes only over the expected revision, and *)
(* never rebinds a write-once field.                                       *)

CasMatchesAny(rec) == control.revision >= rec.revision

CasMatches(rec) == control.revision = rec.revision

BindingAllowed(new) ==
    control.submission_token # None =>
        new.submission_token = control.submission_token

CompareAndSwap(rec, new) ==
    /\ CasMatches(rec)
    /\ BindingAllowed(new)
    /\ control' = [new EXCEPT !.revision = rec.revision + 1]

(* A StoreUnavailable leaves it open whether the write took effect.        *)
CasUnavailable(rec, new) ==
    /\ StoreMayFail
    /\ CompareAndSwap(rec, new) \/ UNCHANGED control

-----------------------------------------------------------------------------
(* _check_unlocked, on the record as loaded now.                           *)
CheckPasses(c) ==
    /\ clock < Deadline
    /\ ~failure[c]
    /\ control.owner_token = c
    /\ control.lease_expires_ms > clock

(* A loaded record goes out of scope with the attempt that loaded it.      *)
Drop(c)  == snap' = [snap EXCEPT ![c] = NoSnapshot]
HDrop(c) == hsnap' = [hsnap EXCEPT ![c] = NoSnapshot]

Take(c) == snap' = [snap EXCEPT ![c] = [rec |-> control, at |-> clock]]

(* Entering: `__enter__'.  A refused controller is built again by its      *)
(* caller with a token the store has never seen, so it may try again.      *)
EnterRefused(c) ==
    /\ main[c] = "enter"
    /\ clock < Deadline
    /\ control.owner_token # None
    /\ control.lease_expires_ms > clock
    /\ attempt' = [attempt EXCEPT ![c] = 0]
    /\ UNCHANGED <<clock, control, main, snap, stop, hbVars, until, acked>>

(* RunDeadlineReached, or the store could not be read.                     *)
EnterRaises(c) ==
    /\ main[c] = "enter"
    /\ clock >= Deadline \/ StoreMayFail
    /\ main' = [main EXCEPT ![c] = "refused"]
    /\ UNCHANGED <<clock, control, attempt, snap, stop, hbVars, until, acked>>

MayTakeEarly(rec) == rec.owner_token = None \/ rec.lease_expires_ms <= clock + 1

MayTake(rec) == rec.owner_token = None \/ rec.lease_expires_ms <= clock

EnterLoad(c) ==
    /\ main[c] = "enter"
    /\ clock < Deadline
    /\ MayTake(control)
    /\ Take(c)
    /\ main' = [main EXCEPT ![c] = "enter_cas"]
    /\ UNCHANGED <<clock, control, attempt, stop, hbVars, until, acked>>

Owned(c, s) == [s.rec EXCEPT !.owner_token = c,
                             !.lease_expires_ms = MinOf(s.at + LeaseMs, Deadline)]

EnterCas(c) ==
    /\ main[c] = "enter_cas"
    /\ CompareAndSwap(snap[c].rec, Owned(c, snap[c]))
    /\ until' = [until EXCEPT ![c] = control'.lease_expires_ms]
    /\ main' = [main EXCEPT ![c] = "holding"]
    /\ hb' = [hb EXCEPT ![c] = "wait"]
    /\ nextBeat' = [nextBeat EXCEPT ![c] = clock + Interval]
    /\ Drop(c)
    /\ UNCHANGED <<clock, attempt, stop, hattempt, hsnap, failure, acked>>

(* A conflict retries with a fresh load; the eighth raises StoreConflict.  *)
EnterConflict(c) ==
    /\ main[c] = "enter_cas"
    /\ ~CasMatches(snap[c].rec)
    /\ main' = [main EXCEPT ![c] = "enter"]
    /\ attempt' = [attempt EXCEPT ![c] =
                     IF @ + 1 < MaxAttempts THEN @ + 1 ELSE 0]
    /\ Drop(c)
    /\ UNCHANGED <<clock, control, stop, hbVars, until, acked>>

EnterUnavailable(c) ==
    /\ main[c] = "enter_cas"
    /\ CasUnavailable(snap[c].rec, Owned(c, snap[c]))
    /\ main' = [main EXCEPT ![c] = "refused"]
    /\ Drop(c)
    /\ UNCHANGED <<clock, attempt, stop, hbVars, until, acked>>

-----------------------------------------------------------------------------
(* Leaving the with block, normally or on an exception: `__exit__' sets    *)
(* _stop and waits at most a second, so the heartbeat may still be running. *)
Leave(c) ==
    /\ main' = [main EXCEPT ![c] = "release"]
    /\ attempt' = [attempt EXCEPT ![c] = 0]
    /\ stop' = [stop EXCEPT ![c] = TRUE]

Exit(c) ==
    /\ main[c] = "holding"
    /\ Leave(c)
    /\ UNCHANGED <<clock, control, snap, hbVars, until, acked>>

(* check / before_dispatch raising: the controller leaves.                 *)
CheckRaises(c) ==
    /\ main[c] \in {"holding", "update"}
    /\ ~CheckPasses(c) \/ StoreMayFail
    /\ Leave(c)
    /\ UNCHANGED <<clock, control, snap, hbVars, until, acked>>

StartUpdate(c) ==
    /\ main[c] = "holding"
    /\ acked[c] < MaxUpdates
    /\ main' = [main EXCEPT ![c] = "update"]
    /\ attempt' = [attempt EXCEPT ![c] = 0]
    /\ UNCHANGED <<clock, control, snap, stop, hbVars, until, acked>>

UpdateLoad(c) ==
    /\ main[c] = "update"
    /\ CheckPasses(c)
    /\ Take(c)
    /\ main' = [main EXCEPT ![c] = "update_cas"]
    /\ UNCHANGED <<clock, control, attempt, stop, hbVars, until, acked>>

(* The two kinds of transform callers pass: record progress, and bind a    *)
(* write-once field.                                                       *)
Transforms(c, rec) ==
    LET noted == [rec.applied EXCEPT ![c] = @ + 1] IN
    {[rec EXCEPT !.applied = noted],
     [rec EXCEPT !.applied = noted, !.submission_token = c]}

UpdateCas(c) ==
    /\ main[c] = "update_cas"
    /\ \E new \in Transforms(c, snap[c].rec) : CompareAndSwap(snap[c].rec, new)
    /\ until' = [until EXCEPT ![c] = control'.lease_expires_ms]
    /\ acked' = [acked EXCEPT ![c] = @ + 1]
    /\ main' = [main EXCEPT ![c] = "holding"]
    /\ Drop(c)
    /\ UNCHANGED <<clock, attempt, stop, hbVars>>

(* StoreConflict: check and try again, or RunLeaseLost after the last one. *)
UpdateConflict(c) ==
    /\ main[c] = "update_cas"
    /\ ~CasMatches(snap[c].rec)
    /\ IF attempt[c] + 1 < MaxAttempts
       THEN /\ attempt' = [attempt EXCEPT ![c] = @ + 1]
            /\ main' = [main EXCEPT ![c] = "update"]
            /\ UNCHANGED stop
       ELSE Leave(c)
    /\ Drop(c)
    /\ UNCHANGED <<clock, control, hbVars, until, acked>>

(* RunInputConflict or StoreUnavailable propagates out of the with block.  *)
UpdateRaises(c) ==
    /\ main[c] = "update_cas"
    /\ \E new \in Transforms(c, snap[c].rec) :
          \/ /\ CasMatches(snap[c].rec)
             /\ ~BindingAllowed(new)
             /\ UNCHANGED control
          \/ CasUnavailable(snap[c].rec, new)
    /\ Leave(c)
    /\ Drop(c)
    /\ UNCHANGED <<clock, hbVars, until, acked>>

-----------------------------------------------------------------------------
(* Releasing: the loop of `__exit__'.                                      *)
ReleaseLoad(c) ==
    /\ main[c] = "release"
    /\ \/ /\ control.owner_token = c
          /\ Take(c)
          /\ main' = [main EXCEPT ![c] = "release_cas"]
       \/ /\ control.owner_token # c
          /\ UNCHANGED snap
          /\ main' = [main EXCEPT ![c] = "released"]
    /\ UNCHANGED <<clock, control, attempt, stop, hbVars, until, acked>>

Unowned(rec) == [rec EXCEPT !.owner_token = None, !.lease_expires_ms = 0]

ReleaseCas(c) ==
    /\ main[c] = "release_cas"
    /\ CompareAndSwap(snap[c].rec, Unowned(snap[c].rec))
    /\ until' = [until EXCEPT ![c] = 0]
    /\ main' = [main EXCEPT ![c] = "released"]
    /\ Drop(c)
    /\ UNCHANGED <<clock, attempt, stop, hbVars, acked>>

ReleaseConflict(c) ==
    /\ main[c] = "release_cas"
    /\ ~CasMatches(snap[c].rec)
    /\ IF attempt[c] + 1 < MaxAttempts
       THEN /\ attempt' = [attempt EXCEPT ![c] = @ + 1]
            /\ main' = [main EXCEPT ![c] = "release"]
       ELSE /\ main' = [main EXCEPT ![c] = "exhausted"]
            /\ UNCHANGED attempt
    /\ Drop(c)
    /\ UNCHANGED <<clock, control, stop, hbVars, until, acked>>

ReleaseUnavailable(c) ==
    /\ \/ main[c] = "release" /\ StoreMayFail /\ UNCHANGED control
       \/ /\ main[c] = "release_cas"
          /\ CasUnavailable(snap[c].rec, Unowned(snap[c].rec))
    /\ until' = [until EXCEPT ![c] = 0]
    /\ main' = [main EXCEPT ![c] = "unreleased"]
    /\ Drop(c)
    /\ UNCHANGED <<clock, attempt, stop, hbVars, acked>>

-----------------------------------------------------------------------------
(* The heartbeat thread.                                                   *)
HeartbeatWake(c) ==
    /\ hb[c] = "wait"
    /\ \/ stop[c] /\ hb' = [hb EXCEPT ![c] = "dead"]
       \/ /\ ~stop[c]
          /\ clock >= nextBeat[c]
          /\ hb' = [hb EXCEPT ![c] = "renew"]
    /\ hattempt' = [hattempt EXCEPT ![c] = 0]
    /\ UNCHANGED <<clock, control, mainVars, hsnap, nextBeat, failure, until, acked>>

(* _renew looks at _stop, then loads the record: two steps.                *)
RenewStart(c) ==
    /\ hb[c] = "renew"
    /\ hb' = [hb EXCEPT ![c] = IF stop[c] THEN "dead" ELSE "renew_load"]
    /\ UNCHANGED <<clock, control, mainVars, hattempt, hsnap, nextBeat, failure,
                   until, acked>>

RenewLoad(c) ==
    /\ hb[c] = "renew_load"
    /\ CheckPasses(c)
    /\ hsnap' = [hsnap EXCEPT ![c] = [rec |-> control, at |-> clock]]
    /\ hb' = [hb EXCEPT ![c] = "renew_cas"]
    /\ UNCHANGED <<clock, control, mainVars, hattempt, nextBeat, failure, until, acked>>

(* Any exception in _renew ends the thread with _failure set.              *)
HeartbeatFails(c) ==
    /\ failure' = [failure EXCEPT ![c] = TRUE]
    /\ hb' = [hb EXCEPT ![c] = "dead"]

RenewRaisesAndLoops(c) ==
    /\ hb[c] = "renew_load"
    /\ ~CheckPasses(c) \/ StoreMayFail
    /\ failure' = [failure EXCEPT ![c] = TRUE]
    /\ hb' = [hb EXCEPT ![c] = "wait"]
    /\ UNCHANGED <<clock, control, mainVars, hattempt, hsnap, nextBeat, until, acked>>

RenewRaises(c) ==
    /\ hb[c] = "renew_load"
    /\ ~CheckPasses(c) \/ StoreMayFail
    /\ HeartbeatFails(c)
    /\ UNCHANGED <<clock, control, mainVars, hattempt, hsnap, nextBeat, until, acked>>

(* The clock is read again, at some t between the check and the write.     *)
Renewed(rec, t) == [rec EXCEPT !.lease_expires_ms = MinOf(t + LeaseMs, Deadline)]

RenewCas(c) ==
    /\ hb[c] = "renew_cas"
    /\ \E t \in hsnap[c].at..clock :
          CompareAndSwap(hsnap[c].rec, Renewed(hsnap[c].rec, t))
    /\ until' = [until EXCEPT ![c] = control'.lease_expires_ms]
    /\ hb' = [hb EXCEPT ![c] = "wait"]
    /\ nextBeat' = [nextBeat EXCEPT ![c] = clock + Interval]
    /\ HDrop(c)
    /\ UNCHANGED <<clock, mainVars, hattempt, failure, acked>>

RenewConflict(c) ==
    /\ hb[c] = "renew_cas"
    /\ ~CasMatches(hsnap[c].rec)
    /\ IF hattempt[c] + 1 < MaxAttempts
       THEN /\ hattempt' = [hattempt EXCEPT ![c] = @ + 1]
            /\ hb' = [hb EXCEPT ![c] = "renew"]
            /\ UNCHANGED failure
       ELSE HeartbeatFails(c) /\ UNCHANGED hattempt
    /\ HDrop(c)
    /\ UNCHANGED <<clock, control, mainVars, nextBeat, until, acked>>

RenewUnavailable(c) ==
    /\ hb[c] = "renew_cas"
    /\ \E t \in hsnap[c].at..clock :
          CasUnavailable(hsnap[c].rec, Renewed(hsnap[c].rec, t))
    /\ HeartbeatFails(c)
    /\ HDrop(c)
    /\ UNCHANGED <<clock, mainVars, hattempt, nextBeat, until, acked>>

-----------------------------------------------------------------------------
Finished == {"released", "unreleased", "exhausted", "refused", "crashed"}

(* The process dies: both threads are gone, the stored record is not.      *)
Crash(c) ==
    /\ main[c] \notin Finished
    /\ main' = [main EXCEPT ![c] = "crashed"]
    /\ hb' = [hb EXCEPT ![c] = "dead"]
    /\ UNCHANGED <<clock, control, attempt, snap, stop, hattempt, hsnap, nextBeat,
                   failure, until, acked>>

InCall == {"enter_cas", "update", "update_cas", "release", "release_cas"}

StepDue(c) ==
    \/ main[c] \in InCall
    \/ hb[c] \in {"renew", "renew_load", "renew_cas"}
    \/ hb[c] = "wait" /\ (stop[c] \/ clock >= nextBeat[c])

(* MaxClock bounds the clock, except that it still passes for a heartbeat  *)
(* that waits for its period.                                              *)
Tick ==
    /\ \/ clock < MaxClock
       \/ \E c \in Controllers : hb[c] = "wait" /\ clock < nextBeat[c]
    /\ Prompt => \A c \in Controllers : ~StepDue(c)
    /\ clock' = clock + 1
    /\ UNCHANGED <<control, mainVars, hbVars, until, acked>>

Main(c) ==
    \/ EnterRefused(c) \/ EnterRaises(c) \/ EnterLoad(c) \/ EnterCas(c)
    \/ EnterConflict(c) \/ EnterUnavailable(c)
    \/ Exit(c) \/ CheckRaises(c)
    \/ StartUpdate(c) \/ UpdateLoad(c) \/ UpdateCas(c) \/ UpdateConflict(c)
    \/ UpdateRaises(c)
    \/ ReleaseLoad(c) \/ ReleaseCas(c) \/ ReleaseConflict(c) \/ ReleaseUnavailable(c)

Heartbeat(c) ==
    \/ HeartbeatWake(c) \/ RenewStart(c) \/ RenewLoad(c) \/ RenewRaises(c)
    \/ RenewCas(c) \/ RenewConflict(c) \/ RenewUnavailable(c)

Next ==
    \/ Tick
    \/ \E c \in Controllers : Main(c) \/ Heartbeat(c) \/ Crash(c)

Spec == Init /\ [][Next]_vars

(* Threads are scheduled, calls of the store return and time passes;       *)
(* nobody is obliged to crash, to start an update or to leave.             *)
FairSpec ==
    /\ Spec
    /\ WF_vars(Tick)
    /\ \A c \in Controllers : /\ WF_vars(Heartbeat(c))
                               /\ WF_vars(main[c] \in InCall /\ Main(c))

-----------------------------------------------------------------------------
MainStates == {"enter", "enter_cas", "holding", "update", "update_cas",
               "release", "release_cas"} \cup Finished

HbStates == {"off", "wait", "renew", "renew_load", "renew_cas", "dead"}

(* Every variable has its type, and no compare-and-swap loop of run_lease  *)
(* goes beyond its range(8).                                               *)
TypeOK ==
    /\ clock \in Nat
    /\ control \in RunControl
    /\ main \in [Controllers -> MainStates]
    /\ attempt \in [Controllers -> 0..(MaxAttempts - 1)]
    /\ snap \in [Controllers -> Snapshot]
    /\ hb \in [Controllers -> HbStates]
    /\ hattempt \in [Controllers -> 0..(MaxAttempts - 1)]
    /\ hsnap \in [Controllers -> Snapshot]
    /\ nextBeat \in [Controllers -> Nat]
    /\ stop \in [Controllers -> BOOLEAN]
    /\ failure \in [Controllers -> BOOLEAN]
    /\ until \in [Controllers -> Nat]
    /\ acked \in [Controllers -> Nat]

InBlock == {"holding", "update", "update_cas"}

(* A controller inside its with block whose own last written expiry is     *)
(* still ahead of the clock.                                               *)
Authority(c) == main[c] \in InBlock /\ clock < until[c]

(* No two controllers hold the Run at once: between __enter__ and the      *)
(* expiry a controller last wrote, nobody else gets past __enter__,        *)
(* whatever renewals, updates, crashes and ambiguous store failures occur. *)
LeaseExclusive ==
    \A c, d \in Controllers : Authority(c) /\ Authority(d) => c = d

(* An update() that returned stays in the record: neither a heartbeat that *)
(* rewrites a snapshot, nor a takeover, nor a release drops it.            *)
NoLostUpdate == \A c \in Controllers : control.applied[c] >= acked[c]

(* "Releasing below cannot be undone by a fresh renewal" (__exit__): once  *)
(* released, a controller's token never owns the Run, although its         *)
(* heartbeat may still be in the middle of _renew.                         *)
ReleaseIsFinal ==
    \A c \in Controllers : main[c] = "released" => control.owner_token # c

(* The heartbeat does not let the lease lapse under a live owner (the      *)
(* comment in _renew): while threads run promptly, a controller in its     *)
(* with block whose heartbeat has met no error (_failure is unset) owns an *)
(* unexpired lease until the deadline.                                     *)
LiveOwnerKeepsLease ==
    \A c \in Controllers :
        main[c] \in InBlock /\ ~failure[c] /\ clock < Deadline =>
            control.owner_token = c /\ control.lease_expires_ms > clock

(* No heartbeat thread runs on for ever: it ends after __exit__, after the *)
(* lease is lost or when the deadline passes, even if its controller hangs. *)
NoOrphanHeartbeat ==
    \A c \in Controllers : hb[c] # "off" ~> hb[c] = "dead"

=============================================================================
