--------------------------- MODULE RunLeaseProofs ---------------------------
(***************************************************************************)
(* For every number of controllers, lease length, deadline and attempt     *)
(* limit: the lease is exclusive, no acknowledged update is lost, a        *)
(* release is final, and a heartbeat that comes in time keeps the lease of *)
(* a live owner.                                                           *)
(***************************************************************************)
EXTENDS RunLease, TLAPS

(* A snapshot that is not outdated is the stored record itself.            *)
Fresh(s) ==
    /\ s.rec.revision <= control.revision
    /\ s.rec.revision = control.revision => s.rec = control
    /\ s.at <= clock

ExpiryBounded ==
    control.lease_expires_ms <= clock + LeaseMs /\ control.lease_expires_ms <= Deadline

MainSnapOK(c) ==
    /\ main[c] \in {"enter_cas", "update_cas", "release_cas"} => Fresh(snap[c])
    /\ main[c] = "enter_cas" =>
          snap[c].rec.owner_token = None \/ snap[c].rec.lease_expires_ms <= snap[c].at
    /\ main[c] \in {"update_cas", "release_cas"} => snap[c].rec.owner_token = c

HbSnapOK(c) ==
    hb[c] = "renew_cas" =>
        /\ Fresh(hsnap[c])
        /\ hsnap[c].rec.owner_token = c
        /\ hsnap[c].rec.lease_expires_ms <= hsnap[c].at + LeaseMs
        /\ hsnap[c].rec.lease_expires_ms <= Deadline

UntilOK(c) ==
    until[c] > clock =>
        control.owner_token = c /\ until[c] <= control.lease_expires_ms

(* The strengthening: an expiry a controller still believes in is backed   *)
(* by the stored record, and every snapshot a compare-and-swap will be     *)
(* tried with is outdated or equal to the record.                          *)
IInv ==
    /\ TypeOK
    /\ ExpiryBounded
    /\ \A c \in Controllers : MainSnapOK(c) /\ HbSnapOK(c) /\ UntilOK(c)
    /\ NoLostUpdate
    /\ ReleaseIsFinal

-----------------------------------------------------------------------------
(* A compare-and-swap that succeeds replaces exactly the record that was   *)
(* loaded (validate_run_update).                                           *)
LEMMA CasReplacesSnapshot ==
    ASSUME NEW s \in Snapshot, NEW new, Fresh(s), CompareAndSwap(s.rec, new)
    PROVE  s.rec = control /\ control' = [new EXCEPT !.revision = control.revision + 1]
BY DEF CompareAndSwap, CasMatches, Fresh

(* The initial state satisfies the strengthened invariant.                 *)
LEMMA InitIInv == Init => IInv
<1> SUFFICES ASSUME Init PROVE IInv
  OBVIOUS
<1>1. NewControl \in RunControl /\ NoSnapshot \in Snapshot
  BY DEF NewControl, RunControl, NoSnapshot, Snapshot, Owners
<1>2. TypeOK
  BY <1>1, LeaseAssumption DEF Init, TypeOK, MainStates, HbStates
<1>3. ExpiryBounded /\ NoLostUpdate /\ ReleaseIsFinal
  BY LeaseAssumption DEF Init, ExpiryBounded, NoLostUpdate, ReleaseIsFinal, NewControl
<1>4. ASSUME NEW c \in Controllers
      PROVE  MainSnapOK(c) /\ HbSnapOK(c) /\ UntilOK(c)
  BY DEF Init, MainSnapOK, HbSnapOK, UntilOK
<1> QED BY <1>2, <1>3, <1>4 DEF IInv

-----------------------------------------------------------------------------
(* The records the compare-and-swaps write are well typed.                 *)
LEMMA WrittenRecords ==
    ASSUME NEW c \in Controllers, NEW s \in Snapshot, NEW t \in Nat
    PROVE  /\ Owned(c, s) \in RunControl
           /\ Unowned(s.rec) \in RunControl
           /\ Renewed(s.rec, t) \in RunControl
           /\ Transforms(c, s.rec) \subseteq RunControl
<1>1. s.rec \in RunControl /\ s.at \in Nat
  BY DEF Snapshot
<1>2. MinOf(s.at + LeaseMs, Deadline) \in Nat /\ MinOf(t + LeaseMs, Deadline) \in Nat
  BY <1>1, LeaseAssumption DEF MinOf
<1>3. Owned(c, s) \in RunControl /\ Unowned(s.rec) \in RunControl
      /\ Renewed(s.rec, t) \in RunControl
  BY <1>1, <1>2 DEF Owned, Unowned, Renewed, RunControl, Owners
<1>4. Transforms(c, s.rec) \subseteq RunControl
  <2> DEFINE noted == [s.rec.applied EXCEPT ![c] = @ + 1]
  <2>1. noted \in [Controllers -> Nat]
    BY <1>1 DEF RunControl
  <2> HIDE DEF noted
  <2>2. [s.rec EXCEPT !.applied = noted] \in RunControl
    BY <1>1, <2>1 DEF RunControl
  <2>3. [s.rec EXCEPT !.applied = noted, !.submission_token = c] \in RunControl
    BY <1>1, <2>1 DEF RunControl, Owners
  <2> QED BY <2>2, <2>3 DEF Transforms, noted
<1> QED BY <1>3, <1>4

LEMMA CasTyped ==
    ASSUME NEW s \in Snapshot, NEW new \in RunControl, CompareAndSwap(s.rec, new)
    PROVE  control' \in RunControl
BY DEF CompareAndSwap, RunControl, Snapshot

(* Leaving the with block and failing the heartbeat keep the types.        *)
LEMMA LeaveTyped ==
    ASSUME TypeOK, NEW c \in Controllers, Leave(c)
    PROVE  /\ main' \in [Controllers -> MainStates]
           /\ attempt' \in [Controllers -> 0..(MaxAttempts - 1)]
           /\ stop' \in [Controllers -> BOOLEAN]
<1>1. main' \in [Controllers -> MainStates]
  BY DEF TypeOK, Leave, MainStates
<1>2. attempt' \in [Controllers -> 0..(MaxAttempts - 1)]
  BY LeaseAssumption DEF TypeOK, Leave
<1>3. stop' \in [Controllers -> BOOLEAN]
  BY DEF TypeOK, Leave
<1> QED BY <1>1, <1>2, <1>3

LEMMA HeartbeatFailsTyped ==
    ASSUME TypeOK, NEW c \in Controllers, HeartbeatFails(c)
    PROVE  /\ hb' \in [Controllers -> HbStates]
           /\ failure' \in [Controllers -> BOOLEAN]
<1>1. hb' \in [Controllers -> HbStates]
  BY DEF TypeOK, HeartbeatFails, HbStates
<1>2. failure' \in [Controllers -> BOOLEAN]
  BY DEF TypeOK, HeartbeatFails
<1> QED BY <1>1, <1>2

(* Every step of the specification keeps every variable's type.            *)
LEMMA TypeStep == TypeOK /\ [Next]_vars => TypeOK'
<1> SUFFICES ASSUME TypeOK, [Next]_vars PROVE TypeOK'
  OBVIOUS
<1> USE LeaseAssumption
<1>0. NoSnapshot \in Snapshot /\ [rec |-> control, at |-> clock] \in Snapshot
  BY DEF TypeOK, NoSnapshot, Snapshot, NewControl, RunControl, Owners
<1>i. Interval \in Nat
  BY DEF Interval
<1>1. CASE UNCHANGED vars
  BY <1>1 DEF vars, TypeOK
<1>2. CASE Tick
  BY <1>2 DEF Tick, TypeOK, mainVars, hbVars
<1>3. ASSUME NEW c \in Controllers, Main(c)
      PROVE  TypeOK'
  <2> DEFINE s == snap[c]
  <2>a. s \in Snapshot
    BY DEF TypeOK
  <2>1. CASE EnterRefused(c) \/ EnterRaises(c) \/ EnterLoad(c)
    BY <2>1, <1>0 DEF EnterRefused, EnterRaises, EnterLoad, Take, TypeOK, hbVars,
        MainStates, Finished
  <2>2. CASE EnterCas(c)
    <3>1. control' \in RunControl
      BY <2>2, <2>a, WrittenRecords, CasTyped DEF EnterCas
    <3>2. control'.lease_expires_ms \in Nat
      BY <3>1 DEF RunControl
    <3> QED BY <2>2, <3>1, <3>2, <1>0, <1>i DEF EnterCas, Drop, TypeOK, MainStates, HbStates
  <2>3. CASE EnterConflict(c)
    BY <2>3, <1>0 DEF EnterConflict, Drop, TypeOK, hbVars, MainStates
  <2>4. CASE EnterUnavailable(c)
    <3>1. control' \in RunControl
      BY <2>4, <2>a, WrittenRecords, CasTyped DEF EnterUnavailable, CasUnavailable, TypeOK
    <3> QED BY <2>4, <3>1, <1>0 DEF EnterUnavailable, Drop, TypeOK, hbVars, MainStates, Finished
  <2>5. CASE Exit(c) \/ CheckRaises(c)
    BY <2>5, LeaveTyped DEF Exit, CheckRaises, TypeOK, hbVars
  <2>12. CASE StartUpdate(c) \/ UpdateLoad(c)
    BY <2>12, <1>0 DEF StartUpdate, UpdateLoad, Take, TypeOK, hbVars, MainStates
  <2>11. CASE UpdateConflict(c)
    <3>1. CASE attempt[c] + 1 < MaxAttempts
      BY <2>11, <3>1, <1>0 DEF UpdateConflict, Drop, TypeOK, hbVars, MainStates
    <3>2. CASE ~(attempt[c] + 1 < MaxAttempts)
      BY <2>11, <3>2, <1>0, LeaveTyped DEF UpdateConflict, Drop, TypeOK, hbVars
    <3> QED BY <3>1, <3>2
  <2>6. CASE UpdateCas(c)
    <3>1. control' \in RunControl
      BY <2>6, <2>a, WrittenRecords, CasTyped DEF UpdateCas
    <3>2. control'.lease_expires_ms \in Nat
      BY <3>1 DEF RunControl
    <3> QED BY <2>6, <3>1, <3>2, <1>0 DEF UpdateCas, Drop, TypeOK, hbVars, MainStates
  <2>7. CASE UpdateRaises(c)
    <3>1. control' \in RunControl
      BY <2>7, <2>a, WrittenRecords, CasTyped DEF UpdateRaises, CasUnavailable, TypeOK
    <3> QED BY <2>7, <3>1, <1>0, LeaveTyped DEF UpdateRaises, Drop, TypeOK, hbVars
  <2>8. CASE ReleaseLoad(c)
    BY <2>8, <1>0 DEF ReleaseLoad, Take, TypeOK, hbVars, MainStates, Finished
  <2>9. CASE ReleaseCas(c) \/ ReleaseUnavailable(c)
    <3>1. control' \in RunControl
      BY <2>9, <2>a, WrittenRecords, CasTyped
         DEF ReleaseCas, ReleaseUnavailable, CasUnavailable, TypeOK
    <3> QED BY <2>9, <3>1, <1>0 DEF ReleaseCas, ReleaseUnavailable, Drop, TypeOK, hbVars,
            MainStates, Finished
  <2>10. CASE ReleaseConflict(c)
    <3>1. CASE attempt[c] + 1 < MaxAttempts
      BY <2>10, <3>1, <1>0 DEF ReleaseConflict, Drop, TypeOK, hbVars, MainStates
    <3>2. CASE ~(attempt[c] + 1 < MaxAttempts)
      BY <2>10, <3>2, <1>0 DEF ReleaseConflict, Drop, TypeOK, hbVars, MainStates, Finished
    <3> QED BY <3>1, <3>2
  <2> QED BY <1>3, <2>1, <2>2, <2>3, <2>4, <2>5, <2>6, <2>7, <2>8, <2>9, <2>10,
        <2>11, <2>12 DEF Main
<1>4. ASSUME NEW c \in Controllers, Heartbeat(c)
      PROVE  TypeOK'
  <2>a. hsnap[c] \in Snapshot /\ \A t \in hsnap[c].at..clock : t \in Nat
    BY DEF TypeOK, Snapshot
  <2>1. CASE HeartbeatWake(c) \/ RenewStart(c)
    BY <2>1 DEF HeartbeatWake, RenewStart, TypeOK, mainVars, HbStates
  <2>6. CASE RenewRaises(c)
    BY <2>6, HeartbeatFailsTyped DEF RenewRaises, TypeOK, mainVars
  <2>5. CASE RenewConflict(c)
    <3>1. CASE hattempt[c] + 1 < MaxAttempts
      BY <2>5, <3>1, <1>0 DEF RenewConflict, HDrop, TypeOK, mainVars, HbStates
    <3>2. CASE ~(hattempt[c] + 1 < MaxAttempts)
      BY <2>5, <3>2, <1>0, HeartbeatFailsTyped DEF RenewConflict, HDrop, TypeOK, mainVars
    <3> QED BY <3>1, <3>2
  <2>2. CASE RenewLoad(c)
    BY <2>2, <1>0 DEF RenewLoad, TypeOK, mainVars, HbStates
  <2>3. CASE RenewCas(c)
    <3>1. control' \in RunControl
      BY <2>3, <2>a, WrittenRecords, CasTyped DEF RenewCas
    <3>2. control'.lease_expires_ms \in Nat
      BY <3>1 DEF RunControl
    <3> QED BY <2>3, <3>1, <3>2, <1>0, <1>i DEF RenewCas, HDrop, TypeOK, mainVars, HbStates
  <2>4. CASE RenewUnavailable(c)
    <3>1. control' \in RunControl
      BY <2>4, <2>a, WrittenRecords, CasTyped DEF RenewUnavailable, CasUnavailable, TypeOK
    <3> QED BY <2>4, <3>1, <1>0, HeartbeatFailsTyped DEF RenewUnavailable, HDrop, TypeOK, mainVars
  <2> QED BY <1>4, <2>1, <2>2, <2>3, <2>4, <2>5, <2>6 DEF Heartbeat
<1>5. ASSUME NEW c \in Controllers, Crash(c)
      PROVE  TypeOK'
  BY <1>5 DEF Crash, TypeOK, MainStates, Finished, HbStates
<1> QED BY <1>1, <1>2, <1>3, <1>4, <1>5 DEF Next

(* Type correctness: every reachable state of a Run's controllers is well  *)
(* typed, attempt counters included.                                       *)
THEOREM TypeCorrect == Spec => []TypeOK
<1>1. Init => TypeOK
  BY InitIInv DEF IInv
<1> QED BY <1>1, TypeStep, PTL DEF Spec

-----------------------------------------------------------------------------
(* What the lease part of the invariant says of one controller.            *)
Local(c) == MainSnapOK(c) /\ HbSnapOK(c) /\ UntilOK(c)

(* A step that leaves the record, the clock and every pending snapshot     *)
(* alone: only a controller that is about to use a snapshot must hold one. *)
LEMMA QuietStep ==
    ASSUME IInv, UNCHANGED <<control, clock, until, acked>>, NEW c \in Controllers,
           \A d \in Controllers : d # c =>
              main'[d] = main[d] /\ snap'[d] = snap[d] /\ hb'[d] = hb[d]
              /\ hsnap'[d] = hsnap[d],
           MainSnapOK(c)', HbSnapOK(c)', main'[c] = "released" => control.owner_token # c
    PROVE  /\ ExpiryBounded' /\ NoLostUpdate' /\ ReleaseIsFinal'
           /\ \A d \in Controllers : Local(d)'
<1>1. ExpiryBounded' /\ NoLostUpdate'
  BY DEF IInv, ExpiryBounded, NoLostUpdate
<1>2. ReleaseIsFinal'
  BY DEF IInv, ReleaseIsFinal
<1>3. ASSUME NEW d \in Controllers PROVE Local(d)'
  <2>1. UntilOK(d)'
    BY DEF IInv, UntilOK
  <2>2. CASE d = c
    BY <2>1, <2>2 DEF Local
  <2>3. CASE d # c
    BY <2>1, <2>3 DEF Local, IInv, MainSnapOK, HbSnapOK, Fresh
  <2> QED BY <2>2, <2>3
<1> QED BY <1>1, <1>2, <1>3

(* A step of controller c that replaces the record it or its heartbeat     *)
(* loaded, leaving c with no snapshot to use on the side that wrote.       *)
LEMMA WriteStep ==
    ASSUME IInv, TypeOK', UNCHANGED clock, NEW c \in Controllers,
           control'.revision = control.revision + 1,
           \A d \in Controllers : control'.applied[d] >= acked'[d],
           \A d \in Controllers : d # c =>
              /\ main'[d] = main[d] /\ snap'[d] = snap[d] /\ hb'[d] = hb[d]
              /\ hsnap'[d] = hsnap[d] /\ until'[d] = until[d],
           main'[c] \in {"enter_cas", "update_cas", "release_cas"} =>
              main'[c] = main[c] /\ snap'[c] = snap[c],
           hb'[c] = "renew_cas" => hb[c] = hb'[c] /\ hsnap'[c] = hsnap[c],
           ExpiryBounded',
           \* whoever believed in the old record's expiry was c or was wrong to
           control.owner_token = c \/ control.owner_token = None
              \/ control.lease_expires_ms <= clock,
           UntilOK(c)',
           control'.owner_token \in {c, None},
           main'[c] = "released" => control'.owner_token # c
    PROVE  /\ ExpiryBounded' /\ NoLostUpdate' /\ ReleaseIsFinal'
           /\ \A d \in Controllers : Local(d)'
<1>t. clock \in Nat /\ control.revision \in Nat /\ control.lease_expires_ms \in Nat
  BY DEF IInv, TypeOK, RunControl
<1>1. NoLostUpdate'
  BY DEF NoLostUpdate
<1>2. ReleaseIsFinal'
  BY LeaseAssumption DEF IInv, ReleaseIsFinal
<1>3. ASSUME NEW d \in Controllers PROVE UntilOK(d)'
  <2>1. CASE d # c
    <3>1. until[d] \in Nat /\ UntilOK(d)
      BY DEF IInv, TypeOK
    <3>2. ~(until[d] > clock)
      BY <1>t, <2>1, <3>1, LeaseAssumption DEF UntilOK
    <3> QED BY <2>1, <3>2 DEF UntilOK
  <2> QED BY <2>1
<1>4. ASSUME NEW d \in Controllers PROVE MainSnapOK(d)' /\ HbSnapOK(d)'
  <2>1. MainSnapOK(d) /\ HbSnapOK(d) /\ snap[d] \in Snapshot /\ hsnap[d] \in Snapshot
    BY DEF IInv, TypeOK
  <2>2. snap[d].rec.revision \in Nat /\ hsnap[d].rec.revision \in Nat
    BY <2>1 DEF Snapshot, RunControl
  <2>3. MainSnapOK(d)'
    BY <1>t, <2>1, <2>2 DEF MainSnapOK, Fresh
  <2>4. HbSnapOK(d)'
    BY <1>t, <2>1, <2>2 DEF HbSnapOK, Fresh
  <2> QED BY <2>3, <2>4
<1> QED BY <1>1, <1>2, <1>3, <1>4 DEF Local

-----------------------------------------------------------------------------
(* The record a snapshot compare-and-swap would replace.                   *)
LEMMA SnapshotFacts ==
    ASSUME TypeOK, NEW c \in Controllers
    PROVE  /\ snap[c].rec \in RunControl /\ snap[c].at \in Nat
           /\ hsnap[c].rec \in RunControl /\ hsnap[c].at \in Nat
           /\ control \in RunControl /\ clock \in Nat
           /\ control.lease_expires_ms \in Nat /\ control.revision \in Nat
BY DEF TypeOK, Snapshot, RunControl

(* The main thread keeps the strengthened invariant.                       *)
LEMMA MainStep ==
    ASSUME IInv, TypeOK', NEW c \in Controllers, Main(c)
    PROVE  /\ ExpiryBounded' /\ NoLostUpdate' /\ ReleaseIsFinal'
           /\ \A d \in Controllers : Local(d)'
<1> USE LeaseAssumption
<1>t. /\ snap[c].rec \in RunControl /\ snap[c].at \in Nat
      /\ control \in RunControl /\ clock \in Nat
      /\ control.lease_expires_ms \in Nat /\ control.revision \in Nat
  BY SnapshotFacts DEF IInv
<1>k. MainSnapOK(c) /\ HbSnapOK(c) /\ UntilOK(c) /\ ExpiryBounded /\ NoLostUpdate
  BY DEF IInv
<1>s. snap[c] \in Snapshot
  BY DEF IInv, TypeOK
<1>h. ASSUME UNCHANGED <<control, clock, hb, hsnap>> PROVE HbSnapOK(c)'
  BY <1>h, <1>k DEF HbSnapOK, Fresh
<1>1. CASE EnterRefused(c) \/ EnterRaises(c) \/ Exit(c) \/ CheckRaises(c) \/ StartUpdate(c)
  <2>1. /\ UNCHANGED <<control, clock, until, acked, hb, hsnap, snap>>
        /\ main'[c] \in {"enter", "refused", "release", "update"}
        /\ \A d \in Controllers : d # c => main'[d] = main[d]
    BY <1>1 DEF IInv, TypeOK, EnterRefused, EnterRaises, Exit, CheckRaises, StartUpdate,
        Leave, hbVars
  <2>2. MainSnapOK(c)'
    BY <2>1 DEF MainSnapOK
  <2> QED BY <2>1, <2>2, <1>h, QuietStep
<1>2. CASE EnterLoad(c) \/ UpdateLoad(c) \/ ReleaseLoad(c)
  <2>1. /\ UNCHANGED <<control, clock, until, acked, hb, hsnap>>
        /\ \A d \in Controllers : d # c => main'[d] = main[d] /\ snap'[d] = snap[d]
    BY <1>2 DEF IInv, TypeOK, EnterLoad, UpdateLoad, ReleaseLoad, Take, hbVars
  <2>2. MainSnapOK(c)'
    <3>1. CASE EnterLoad(c)
      BY <3>1, <1>t DEF IInv, TypeOK, EnterLoad, Take, MayTake, MainSnapOK, Fresh
    <3>2. CASE UpdateLoad(c)
      BY <3>2, <1>t DEF IInv, TypeOK, UpdateLoad, Take, CheckPasses, MainSnapOK, Fresh
    <3>3. CASE ReleaseLoad(c)
      BY <3>3, <1>t DEF IInv, TypeOK, ReleaseLoad, Take, MainSnapOK, Fresh
    <3> QED BY <1>2, <3>1, <3>2, <3>3
  <2>3. main'[c] = "released" => control.owner_token # c
    BY <1>2 DEF IInv, TypeOK, EnterLoad, UpdateLoad, ReleaseLoad
  <2> QED BY <2>1, <2>2, <2>3, <1>h, QuietStep
<1>3. CASE EnterConflict(c) \/ UpdateConflict(c) \/ ReleaseConflict(c)
  <2>1. /\ UNCHANGED <<control, clock, until, acked, hb, hsnap>>
        /\ main'[c] \in {"enter", "update", "release", "exhausted"}
        /\ \A d \in Controllers : d # c => main'[d] = main[d] /\ snap'[d] = snap[d]
    BY <1>3 DEF IInv, TypeOK, EnterConflict, UpdateConflict, ReleaseConflict, Leave, Drop, hbVars
  <2>2. MainSnapOK(c)'
    BY <2>1 DEF MainSnapOK
  <2> QED BY <2>1, <2>2, <1>h, QuietStep
<1>4. CASE EnterCas(c)
  <2>1. /\ snap[c].rec = control /\ snap[c].at <= clock
        /\ control' = [Owned(c, snap[c]) EXCEPT !.revision = control.revision + 1]
        /\ control.owner_token = None \/ control.lease_expires_ms <= clock
    <3>1. main[c] = "enter_cas" /\ CompareAndSwap(snap[c].rec, Owned(c, snap[c]))
      BY <1>4 DEF EnterCas
    <3>2. Fresh(snap[c])
      BY <3>1, <1>k DEF MainSnapOK
    <3> QED BY <3>1, <3>2, <1>k, <1>s, <1>t, CasReplacesSnapshot DEF MainSnapOK, Fresh
  <2>2. /\ control'.revision = control.revision + 1
        /\ control'.owner_token = c
        /\ control'.applied = control.applied
        /\ control'.lease_expires_ms = MinOf(snap[c].at + LeaseMs, Deadline)
    BY <2>1, <1>t DEF Owned, RunControl
  <2>3. /\ UNCHANGED <<clock, acked, hsnap>>
        /\ main'[c] = "holding" /\ hb'[c] = "wait"
        /\ until'[c] = control'.lease_expires_ms
        /\ \A d \in Controllers : d # c =>
              main'[d] = main[d] /\ snap'[d] = snap[d] /\ hb'[d] = hb[d] /\ until'[d] = until[d]
    BY <1>4 DEF IInv, TypeOK, EnterCas, Drop
  <2>4. ExpiryBounded'
    BY <2>1, <2>2, <2>3, <1>t DEF ExpiryBounded, MinOf
  <2>5. UntilOK(c)'
    BY <2>2, <2>3 DEF UntilOK, IInv, TypeOK, RunControl
  <2> QED BY <2>1, <2>2, <2>3, <2>4, <2>5, <1>k, WriteStep DEF NoLostUpdate
<1>5. CASE EnterUnavailable(c)
  <2>0. /\ UNCHANGED <<clock, acked, hsnap, hb, until>>
        /\ main'[c] = "refused"
        /\ \A d \in Controllers : d # c => main'[d] = main[d] /\ snap'[d] = snap[d]
    BY <1>5 DEF IInv, TypeOK, EnterUnavailable, Drop, hbVars
  <2>1. CASE CompareAndSwap(snap[c].rec, Owned(c, snap[c]))
    <3>1. /\ snap[c].rec = control /\ snap[c].at <= clock
          /\ control' = [Owned(c, snap[c]) EXCEPT !.revision = control.revision + 1]
          /\ control.owner_token = None \/ control.lease_expires_ms <= clock
      BY <1>5, <2>1, <1>k, <1>s, <1>t, CasReplacesSnapshot
         DEF EnterUnavailable, MainSnapOK, Fresh
    <3>2. /\ control'.revision = control.revision + 1
          /\ control'.owner_token = c
          /\ control'.applied = control.applied
          /\ control'.lease_expires_ms = MinOf(snap[c].at + LeaseMs, Deadline)
      BY <3>1, <1>t DEF Owned, RunControl
    <3>3. ExpiryBounded'
      BY <3>1, <3>2, <2>0, <1>t DEF ExpiryBounded, MinOf
    <3>4. UntilOK(c)'
      <4>1. until[c] \in Nat
        BY DEF IInv, TypeOK
      <4>2. ~(until[c] > clock)
        BY <3>1, <4>1, <1>k, <1>t DEF UntilOK
      <4> QED BY <4>2, <2>0 DEF UntilOK
    <3> QED BY <2>0, <3>1, <3>2, <3>3, <3>4, <1>k, WriteStep DEF NoLostUpdate
  <2>2. CASE UNCHANGED control
    <3>1. MainSnapOK(c)'
      BY <2>0 DEF MainSnapOK
    <3> QED BY <2>0, <2>2, <3>1, <1>h, QuietStep
  <2> QED BY <1>5, <2>1, <2>2 DEF EnterUnavailable, CasUnavailable
<1>6. CASE UpdateCas(c) \/ UpdateRaises(c)
  <2>0. /\ UNCHANGED <<clock, hsnap, hb>>
        /\ main'[c] \in {"holding", "release"}
        /\ \A d \in Controllers : d # c =>
              /\ main'[d] = main[d] /\ snap'[d] = snap[d] /\ until'[d] = until[d]
              /\ acked'[d] = acked[d]
    BY <1>6 DEF IInv, TypeOK, UpdateCas, UpdateRaises, Leave, Drop, hbVars
  <2>1. ASSUME NEW new \in Transforms(c, snap[c].rec), CompareAndSwap(snap[c].rec, new),
               acked'[c] \in {acked[c], acked[c] + 1},
               until'[c] \in {until[c], control'.lease_expires_ms}
        PROVE  /\ ExpiryBounded' /\ NoLostUpdate' /\ ReleaseIsFinal'
               /\ \A d \in Controllers : Local(d)'
    <3>1. /\ snap[c].rec = control /\ control.owner_token = c
          /\ control' = [new EXCEPT !.revision = control.revision + 1]
      BY <1>6, <2>1, <1>k, <1>s, CasReplacesSnapshot
         DEF UpdateCas, UpdateRaises, MainSnapOK
    <3>2. /\ control'.revision = control.revision + 1
          /\ control'.owner_token = c
          /\ control'.applied = [control.applied EXCEPT ![c] = @ + 1]
          /\ control'.lease_expires_ms = control.lease_expires_ms
      BY <2>1, <3>1, <1>t DEF Transforms, RunControl
    <3>3. ExpiryBounded'
      BY <3>2, <2>0, <1>k DEF ExpiryBounded
    <3>4. UntilOK(c)'
      BY <3>1, <3>2, <2>0, <2>1, <1>k, <1>t DEF UntilOK
    <3>5. \A d \in Controllers : control'.applied[d] >= acked'[d]
      <4>1. control.applied \in [Controllers -> Nat] /\ acked \in [Controllers -> Nat]
        BY <1>t DEF IInv, TypeOK, RunControl
      <4>2. ASSUME NEW d \in Controllers PROVE control'.applied[d] >= acked'[d]
        <5>1. acked[d] \in Nat /\ control.applied[d] \in Nat /\ control.applied[d] >= acked[d]
          BY <4>1, <1>k DEF NoLostUpdate
        <5>2. CASE d = c
          BY <4>1, <5>1, <5>2, <3>2, <2>1
        <5>3. CASE d # c
          BY <4>1, <5>1, <5>3, <3>2, <2>0
        <5> QED BY <5>2, <5>3
      <4> QED BY <4>2
    <3> QED BY <2>0, <3>1, <3>2, <3>3, <3>4, <3>5, WriteStep
  <2>2. CASE UNCHANGED <<control, until, acked>>
    <3>1. MainSnapOK(c)'
      BY <2>0 DEF MainSnapOK
    <3> QED BY <2>0, <2>2, <3>1, <1>h, QuietStep
  <2>3. CASE UpdateCas(c)
    <3>1. acked'[c] = acked[c] + 1 /\ until'[c] = control'.lease_expires_ms
      BY <2>3 DEF UpdateCas, IInv, TypeOK
    <3> QED BY <2>3, <3>1, <2>1 DEF UpdateCas
  <2>4. CASE UpdateRaises(c)
    <3>1. UNCHANGED <<until, acked>>
      BY <2>4 DEF UpdateRaises
    <3> QED BY <2>4, <3>1, <2>1, <2>2 DEF UpdateRaises, CasUnavailable
  <2> QED BY <1>6, <2>3, <2>4
<1>7. CASE ReleaseCas(c) \/ ReleaseUnavailable(c)
  <2>0. /\ UNCHANGED <<clock, acked, hsnap, hb>>
        /\ main'[c] \in {"released", "unreleased"} /\ until'[c] = 0
        /\ \A d \in Controllers : d # c =>
              main'[d] = main[d] /\ snap'[d] = snap[d] /\ until'[d] = until[d]
    BY <1>7 DEF IInv, TypeOK, ReleaseCas, ReleaseUnavailable, Drop, hbVars
  <2>u. UntilOK(c)'
    BY <2>0, <1>t DEF UntilOK
  <2>1. CASE main[c] = "release_cas" /\ CompareAndSwap(snap[c].rec, Unowned(snap[c].rec))
    <3>1. /\ snap[c].rec = control /\ control.owner_token = c
          /\ control' = [Unowned(snap[c].rec) EXCEPT !.revision = control.revision + 1]
      BY <2>1, <1>k, <1>s, CasReplacesSnapshot DEF MainSnapOK
    <3>2. /\ control'.revision = control.revision + 1
          /\ control'.owner_token = None
          /\ control'.applied = control.applied
          /\ control'.lease_expires_ms = 0
      BY <3>1, <1>t DEF Unowned, RunControl
    <3>3. ExpiryBounded'
      BY <3>2, <2>0, <1>t DEF ExpiryBounded
    <3> QED BY <2>0, <2>u, <3>1, <3>2, <3>3, <1>k, WriteStep DEF NoLostUpdate
  <2>2. CASE UNCHANGED control /\ main'[c] = "unreleased"
    <3>1. ExpiryBounded' /\ NoLostUpdate' /\ ReleaseIsFinal'
      BY <2>0, <2>2 DEF IInv, ExpiryBounded, NoLostUpdate, ReleaseIsFinal
    <3>2. ASSUME NEW d \in Controllers PROVE Local(d)'
      <4>1. MainSnapOK(d) /\ HbSnapOK(d) /\ UntilOK(d)
        BY DEF IInv
      <4>2. UntilOK(d)'
        BY <4>1, <2>0, <2>2, <2>u DEF UntilOK
      <4>3. MainSnapOK(d)'
        BY <4>1, <2>0, <2>2 DEF MainSnapOK, Fresh
      <4>4. HbSnapOK(d)'
        BY <4>1, <2>0, <2>2 DEF HbSnapOK, Fresh
      <4> QED BY <4>2, <4>3, <4>4 DEF Local
    <3> QED BY <3>1, <3>2
  <2>3. CASE ReleaseCas(c)
    BY <2>3, <2>1 DEF ReleaseCas
  <2>4. CASE ReleaseUnavailable(c)
    <3>1. main'[c] = "unreleased"
      BY <2>4 DEF ReleaseUnavailable, IInv, TypeOK
    <3> QED BY <2>4, <3>1, <2>1, <2>2 DEF ReleaseUnavailable, CasUnavailable
  <2> QED BY <1>7, <2>3, <2>4
<1> QED BY <1>1, <1>2, <1>3, <1>4, <1>5, <1>6, <1>7 DEF Main

(* The heartbeat keeps the strengthened invariant: a renewal only moves    *)
(* its own controller's expiry forward.                                    *)
LEMMA HeartbeatStep ==
    ASSUME IInv, TypeOK', NEW c \in Controllers, Heartbeat(c)
    PROVE  /\ ExpiryBounded' /\ NoLostUpdate' /\ ReleaseIsFinal'
           /\ \A d \in Controllers : Local(d)'
<1> USE LeaseAssumption
<1>t. /\ hsnap[c].rec \in RunControl /\ hsnap[c].at \in Nat
      /\ control \in RunControl /\ clock \in Nat
      /\ control.lease_expires_ms \in Nat /\ control.revision \in Nat
  BY SnapshotFacts DEF IInv
<1>k. MainSnapOK(c) /\ HbSnapOK(c) /\ UntilOK(c) /\ ExpiryBounded /\ NoLostUpdate
  BY DEF IInv
<1>s. hsnap[c] \in Snapshot
  BY DEF IInv, TypeOK
<1>m. ASSUME UNCHANGED <<control, clock, main, snap>> PROVE MainSnapOK(c)'
  BY <1>m, <1>k DEF MainSnapOK, Fresh
<1>r. ASSUME UNCHANGED <<control, main>> PROVE main'[c] = "released" => control.owner_token # c
  BY <1>r DEF IInv, ReleaseIsFinal
<1>1. CASE HeartbeatWake(c) \/ RenewStart(c) \/ RenewRaises(c) \/ RenewConflict(c)
  <2>1. /\ UNCHANGED <<control, clock, until, acked, main, snap>>
        /\ hb'[c] \in {"dead", "renew", "renew_load"}
        /\ \A d \in Controllers : d # c => hb'[d] = hb[d] /\ hsnap'[d] = hsnap[d]
    BY <1>1 DEF IInv, TypeOK, HeartbeatWake, RenewStart, RenewRaises, RenewConflict,
        HeartbeatFails, HDrop, mainVars
  <2>2. HbSnapOK(c)'
    BY <2>1 DEF HbSnapOK
  <2> QED BY <2>1, <2>2, <1>m, <1>r, QuietStep
<1>2. CASE RenewLoad(c)
  <2>1. /\ UNCHANGED <<control, clock, until, acked, main, snap>>
        /\ hsnap'[c] = [rec |-> control, at |-> clock]
        /\ control.owner_token = c
        /\ \A d \in Controllers : d # c => hb'[d] = hb[d] /\ hsnap'[d] = hsnap[d]
    BY <1>2 DEF IInv, TypeOK, RenewLoad, CheckPasses, mainVars
  <2>2. HbSnapOK(c)'
    BY <2>1, <1>k, <1>t DEF HbSnapOK, Fresh, ExpiryBounded
  <2> QED BY <2>1, <2>2, <1>m, <1>r, QuietStep
<1>3. CASE RenewCas(c) \/ RenewUnavailable(c)
  <2>0. /\ UNCHANGED <<clock, acked, main, snap>>
        /\ hb'[c] \in {"wait", "dead"}
        /\ hb[c] = "renew_cas"
        /\ until'[c] \in {until[c], control'.lease_expires_ms}
        /\ \A d \in Controllers : d # c =>
              hb'[d] = hb[d] /\ hsnap'[d] = hsnap[d] /\ until'[d] = until[d]
    BY <1>3 DEF IInv, TypeOK, RenewCas, RenewUnavailable, HeartbeatFails, HDrop, mainVars
  <2>h. /\ Fresh(hsnap[c]) /\ hsnap[c].rec.owner_token = c
        /\ hsnap[c].rec.lease_expires_ms <= hsnap[c].at + LeaseMs
        /\ hsnap[c].rec.lease_expires_ms <= Deadline
    BY <2>0, <1>k DEF HbSnapOK
  <2>1. ASSUME NEW t \in hsnap[c].at..clock,
               CompareAndSwap(hsnap[c].rec, Renewed(hsnap[c].rec, t))
        PROVE  /\ ExpiryBounded' /\ NoLostUpdate' /\ ReleaseIsFinal'
               /\ \A d \in Controllers : Local(d)'
    <3>1. /\ hsnap[c].rec = control
          /\ control' = [Renewed(hsnap[c].rec, t) EXCEPT !.revision = control.revision + 1]
      BY <2>1, <2>h, <1>s, CasReplacesSnapshot
    <3>2. /\ control'.revision = control.revision + 1
          /\ control.owner_token = c /\ control'.owner_token = c
          /\ control'.applied = control.applied
          /\ control'.lease_expires_ms = MinOf(t + LeaseMs, Deadline)
      BY <2>h, <3>1, <1>t DEF Renewed, RunControl
    <3>3. control.lease_expires_ms <= control'.lease_expires_ms
      BY <2>1, <2>h, <3>1, <3>2, <1>t DEF MinOf
    <3>4. ExpiryBounded'
      BY <2>0, <2>1, <3>2, <1>t DEF ExpiryBounded, MinOf
    <3>5. UntilOK(c)'
      <4>1. until[c] \in Nat /\ control'.lease_expires_ms \in Nat
        BY DEF IInv, TypeOK, RunControl
      <4> QED BY <4>1, <2>0, <3>2, <3>3, <1>k, <1>t DEF UntilOK
    <3>6. main'[c] # "released"
      BY <2>0, <3>2 DEF IInv, ReleaseIsFinal
    <3> QED BY <2>0, <3>2, <3>4, <3>5, <3>6, <1>k, WriteStep DEF NoLostUpdate
  <2>2. CASE UNCHANGED <<control, until>>
    <3>1. HbSnapOK(c)'
      BY <2>0 DEF HbSnapOK
    <3> QED BY <2>0, <2>2, <3>1, <1>m, <1>r, QuietStep
  <2>3. CASE RenewCas(c)
    BY <2>3, <2>1 DEF RenewCas
  <2>4. CASE RenewUnavailable(c)
    BY <2>4, <2>1, <2>2 DEF RenewUnavailable, CasUnavailable
  <2> QED BY <1>3, <2>3, <2>4
<1> QED BY <1>1, <1>2, <1>3 DEF Heartbeat

(* Every step keeps the strengthened invariant.                            *)
LEMMA StepIInv == IInv /\ [Next]_vars => IInv'
<1> SUFFICES ASSUME IInv, [Next]_vars PROVE IInv'
  OBVIOUS
<1>0. TypeOK'
  BY TypeStep DEF IInv
<1>1. CASE UNCHANGED vars
  BY <1>1 DEF vars, IInv, TypeOK, ExpiryBounded, MainSnapOK, HbSnapOK, UntilOK, Fresh,
      NoLostUpdate, ReleaseIsFinal
<1>2. CASE Tick
  <2>1. UNCHANGED <<control, main, snap, hb, hsnap, until, acked>> /\ clock' = clock + 1
    BY <1>2 DEF Tick, mainVars, hbVars
  <2>2. clock \in Nat /\ control.lease_expires_ms \in Nat
    BY DEF IInv, TypeOK, RunControl
  <2>3. ExpiryBounded' /\ NoLostUpdate' /\ ReleaseIsFinal'
    BY <2>1, <2>2, LeaseAssumption DEF IInv, ExpiryBounded, NoLostUpdate, ReleaseIsFinal
  <2>4. ASSUME NEW c \in Controllers PROVE Local(c)'
    <3>1. MainSnapOK(c) /\ HbSnapOK(c) /\ UntilOK(c)
      BY DEF IInv
    <3>2. snap[c].at \in Nat /\ hsnap[c].at \in Nat /\ until[c] \in Nat
      BY DEF IInv, TypeOK, Snapshot
    <3>3. MainSnapOK(c)'
      BY <2>1, <2>2, <3>1, <3>2 DEF MainSnapOK, Fresh
    <3>4. HbSnapOK(c)'
      BY <2>1, <2>2, <3>1, <3>2 DEF HbSnapOK, Fresh
    <3>5. UntilOK(c)'
      BY <2>1, <2>2, <3>1, <3>2 DEF UntilOK
    <3> QED BY <3>3, <3>4, <3>5 DEF Local
  <2> QED BY <1>0, <2>3, <2>4 DEF IInv, Local
<1>3. ASSUME NEW c \in Controllers, Main(c) PROVE IInv'
  BY <1>0, <1>3, MainStep DEF IInv, Local
<1>4. ASSUME NEW c \in Controllers, Heartbeat(c) PROVE IInv'
  BY <1>0, <1>4, HeartbeatStep DEF IInv, Local
<1>5. ASSUME NEW c \in Controllers, Crash(c) PROVE IInv'
  <2>1. /\ UNCHANGED <<control, clock, until, acked, snap, hsnap>>
        /\ main'[c] = "crashed" /\ hb'[c] = "dead"
        /\ \A d \in Controllers : d # c => main'[d] = main[d] /\ hb'[d] = hb[d]
    BY <1>5 DEF IInv, TypeOK, Crash
  <2>2. MainSnapOK(c)' /\ HbSnapOK(c)'
    BY <2>1 DEF MainSnapOK, HbSnapOK
  <2>3. main'[c] = "released" => control.owner_token # c
    BY <2>1
  <2>4. /\ ExpiryBounded' /\ NoLostUpdate' /\ ReleaseIsFinal'
        /\ \A d \in Controllers : Local(d)'
    BY <2>1, <2>2, <2>3, QuietStep
  <2> QED BY <1>0, <2>4 DEF IInv, Local
<1> QED BY <1>1, <1>2, <1>3, <1>4, <1>5 DEF Next

(* The strengthened invariant holds in every reachable state.              *)
THEOREM LeaseInvariant == Spec => []IInv
BY InitIInv, StepIInv, PTL DEF Spec

(* At most one controller is inside an unexpired lease, for any number of  *)
(* controllers, any lease length and any store failures: the guarantee     *)
(* before_dispatch relies on.                                              *)
THEOREM LeaseIsExclusive == Spec => []LeaseExclusive
<1>1. IInv => LeaseExclusive
  <2> SUFFICES ASSUME IInv, NEW c \in Controllers, NEW d \in Controllers,
                      Authority(c), Authority(d)
               PROVE  c = d
    BY DEF LeaseExclusive
  <2>1. clock \in Nat /\ until[c] \in Nat /\ until[d] \in Nat
    BY DEF IInv, TypeOK
  <2>2. control.owner_token = c
    BY <2>1 DEF IInv, UntilOK, Authority
  <2>3. control.owner_token = d
    BY <2>1 DEF IInv, UntilOK, Authority
  <2> QED BY <2>2, <2>3
<1> QED BY <1>1, LeaseInvariant, PTL

(* No update() that returned is ever overwritten by a renewal, a takeover  *)
(* or a release.                                                           *)
THEOREM UpdatesAreNeverLost == Spec => []NoLostUpdate
<1>1. IInv => NoLostUpdate
  BY DEF IInv
<1> QED BY <1>1, LeaseInvariant, PTL

(* A released Run stays released by its former owner, in-flight renewals   *)
(* of its heartbeat included.                                              *)
THEOREM ReleaseStays == Spec => []ReleaseIsFinal
<1>1. IInv => ReleaseIsFinal
  BY DEF IInv
<1> QED BY <1>1, LeaseInvariant, PTL

-----------------------------------------------------------------------------
(* Time.  While threads run promptly, nothing a thread has begun is        *)
(* interrupted by the clock, and the clock does not pass the next beat of  *)
(* a controller whose heartbeat has met no error.                          *)

Beating(c) == main[c] \in InBlock /\ ~failure[c]

LeaseCovers(c) ==
    \/ control.lease_expires_ms >= Deadline
    \/ control.lease_expires_ms + Interval >= nextBeat[c] + LeaseMs

Alive(c) ==
    /\ main[c] \in {"enter", "enter_cas"} \cup InBlock => stop[c] = FALSE
    /\ main[c] = "enter_cas" => snap[c].at = clock /\ clock < Deadline
    /\ hb[c] = "renew_cas" => hsnap[c].at = clock
    /\ Beating(c) => /\ hb[c] \in {"wait", "renew", "renew_load", "renew_cas"}
                     /\ clock <= nextBeat[c] /\ control.owner_token = c /\ LeaseCovers(c)

Timely == \A c \in Controllers : Alive(c)

LEMMA IntervalType == Interval \in Nat
<1>1. LeaseMs \div 3 \in Nat
  BY LeaseAssumption
<1> QED BY <1>1, LeaseAssumption DEF Interval

(* A beating controller owns a lease that is not over before the deadline. *)
LEMMA BeatingOwns ==
    ASSUME IInv, Interval < LeaseMs, NEW c \in Controllers, Alive(c), Beating(c), clock < Deadline
    PROVE  control.owner_token = c /\ control.lease_expires_ms > clock
<1>1. clock \in Nat /\ control.lease_expires_ms \in Nat /\ nextBeat[c] \in Nat
  BY DEF IInv, TypeOK, RunControl
<1>2. clock <= nextBeat[c] /\ control.owner_token = c /\ LeaseCovers(c)
  BY DEF Alive
<1> QED BY <1>1, <1>2, IntervalType, LeaseAssumption DEF LeaseCovers

(* Another controller's step writes the record only when c has no claim.   *)
LEMMA OthersStayAlive ==
    ASSUME IInv, Interval < LeaseMs, NEW c \in Controllers, Alive(c), UNCHANGED clock,
           main'[c] = main[c], snap'[c] = snap[c], hb'[c] = hb[c], hsnap'[c] = hsnap[c],
           nextBeat'[c] = nextBeat[c], stop'[c] = stop[c], failure'[c] = failure[c],
           \/ UNCHANGED control
           \/ control.owner_token # c
           \/ control.lease_expires_ms <= clock /\ clock < Deadline
    PROVE  Alive(c)'
<1>1. CASE UNCHANGED control
  BY <1>1 DEF Alive, Beating, LeaseCovers
<1>2. CASE ~Beating(c)
  BY <1>2 DEF Alive, Beating
<1>3. CASE Beating(c) /\ ~UNCHANGED control
  <2>1. control.lease_expires_ms <= clock /\ clock < Deadline
    BY <1>3 DEF Alive
  <2>2. control.lease_expires_ms > clock
    BY <1>3, <2>1, BeatingOwns
  <2>3. clock \in Nat /\ control.lease_expires_ms \in Nat
    BY DEF IInv, TypeOK, RunControl
  <2> QED BY <2>1, <2>2, <2>3
<1> QED BY <1>1, <1>2, <1>3

(* Whatever a controller writes, it writes over a record it owns, that     *)
(* nobody owns or whose lease is over.                                     *)
Entitled(c) == \/ control.owner_token \in {c, None}
               \/ control.lease_expires_ms <= clock /\ clock < Deadline

Untouched(d) ==
    /\ main'[d] = main[d] /\ snap'[d] = snap[d] /\ hb'[d] = hb[d] /\ hsnap'[d] = hsnap[d]
    /\ nextBeat'[d] = nextBeat[d] /\ stop'[d] = stop[d] /\ failure'[d] = failure[d]

LEMMA TimelyStep ==
    ASSUME IInv, Timely, Interval < LeaseMs, NEW c \in Controllers, UNCHANGED clock,
           \A d \in Controllers : d # c => Untouched(d),
           UNCHANGED control \/ Entitled(c), Alive(c)'
    PROVE  Timely'
<1> SUFFICES ASSUME NEW d \in Controllers, d # c PROVE Alive(d)'
  BY DEF Timely
<1>1. Alive(d) /\ d # None
  BY LeaseAssumption DEF Timely
<1> QED BY <1>1, OthersStayAlive DEF Untouched, Entitled

(* The main thread.  A snapshot that matches is the record.                *)
LEMMA MainEntitled ==
    ASSUME IInv, Timely, NEW c \in Controllers, NEW new, CompareAndSwap(snap[c].rec, new),
           main[c] \in {"enter_cas", "update_cas", "release_cas"}
    PROVE  /\ Entitled(c) /\ snap[c].rec = control
           /\ control' = [new EXCEPT !.revision = control.revision + 1]
<1>1. MainSnapOK(c) /\ snap[c] \in Snapshot /\ Alive(c)
  BY DEF IInv, TypeOK, Timely
<1>2. Fresh(snap[c])
  BY <1>1 DEF MainSnapOK
<1>3. /\ snap[c].rec = control
      /\ control' = [new EXCEPT !.revision = control.revision + 1]
  BY <1>1, <1>2, CasReplacesSnapshot
<1>4. Entitled(c)
  BY <1>1, <1>3 DEF Entitled, MainSnapOK, Alive
<1> QED BY <1>3, <1>4

LEMMA HeartbeatEntitled ==
    ASSUME IInv, NEW c \in Controllers, NEW new, CompareAndSwap(hsnap[c].rec, new),
           hb[c] = "renew_cas"
    PROVE  /\ Entitled(c) /\ hsnap[c].rec = control
           /\ control' = [new EXCEPT !.revision = control.revision + 1]
<1>1. HbSnapOK(c) /\ hsnap[c] \in Snapshot
  BY DEF IInv, TypeOK
<1>2. Fresh(hsnap[c])
  BY <1>1 DEF HbSnapOK
<1>3. /\ hsnap[c].rec = control
      /\ control' = [new EXCEPT !.revision = control.revision + 1]
  BY <1>1, <1>2, CasReplacesSnapshot
<1>4. Entitled(c)
  BY <1>1, <1>3 DEF Entitled, HbSnapOK
<1> QED BY <1>3, <1>4

(* A main thread that ends outside of its with block, or goes on inside it *)
(* over the same record.                                                   *)
LEMMA MainMoves ==
    ASSUME IInv, Timely, Interval < LeaseMs, NEW c \in Controllers, UNCHANGED <<clock, hbVars>>,
           \A d \in Controllers : d # c =>
              main'[d] = main[d] /\ snap'[d] = snap[d] /\ stop'[d] = stop[d],
           main'[c] \notin {"enter", "enter_cas"} \cup InBlock,
           UNCHANGED control \/ Entitled(c)
    PROVE  Timely'
<1>1. Alive(c)'
  BY DEF Timely, Alive, Beating, hbVars, InBlock
<1>2. \A d \in Controllers : d # c => Untouched(d)
  BY DEF Untouched, hbVars
<1> QED BY <1>1, <1>2, TimelyStep

LEMMA MainTimely ==
    ASSUME IInv, Timely, Interval < LeaseMs, NEW c \in Controllers, Main(c)
    PROVE  Timely'
<1> USE DEF InBlock
<1>0. Alive(c) /\ control \in RunControl /\ clock \in Nat /\ snap[c].at \in Nat /\ nextBeat[c] \in Nat
  BY DEF IInv, TypeOK, Timely, Snapshot
<1>1. CASE EnterRefused(c)
  <2>1. UNCHANGED <<clock, control, main, snap, stop, hb, hsnap, nextBeat, failure>>
    BY <1>1 DEF EnterRefused, hbVars
  <2>2. Alive(c)'
    BY <1>0, <2>1 DEF Alive, Beating, LeaseCovers
  <2> QED BY <2>1, <2>2, TimelyStep DEF Untouched
<1>2. CASE EnterRaises(c) \/ EnterUnavailable(c) \/ Exit(c) \/ CheckRaises(c) \/ UpdateRaises(c)
           \/ ReleaseLoad(c) \/ ReleaseCas(c) \/ ReleaseConflict(c) \/ ReleaseUnavailable(c)
  <2>1. /\ UNCHANGED <<clock, hbVars>>
        /\ \A d \in Controllers : d # c =>
              main'[d] = main[d] /\ snap'[d] = snap[d] /\ stop'[d] = stop[d]
        /\ main'[c] \notin {"enter", "enter_cas"} \cup InBlock
    BY <1>2 DEF EnterRaises, EnterUnavailable, Exit, CheckRaises, UpdateRaises, ReleaseLoad,
                ReleaseCas, ReleaseConflict, ReleaseUnavailable, Leave, Drop, Take, IInv, TypeOK
  <2>2. UNCHANGED control \/ Entitled(c)
    BY <1>2, MainEntitled DEF EnterRaises, EnterUnavailable, Exit, CheckRaises, UpdateRaises,
       ReleaseLoad, ReleaseCas, ReleaseConflict, ReleaseUnavailable, CasUnavailable
  <2> QED BY <2>1, <2>2, MainMoves
<1>3. CASE EnterLoad(c)
  <2>1. /\ UNCHANGED <<clock, control, stop, hb, hsnap, nextBeat, failure>>
        /\ main[c] = "enter" /\ clock < Deadline
        /\ main'[c] = "enter_cas" /\ snap'[c].at = clock
        /\ \A d \in Controllers : d # c => main'[d] = main[d] /\ snap'[d] = snap[d]
    BY <1>3 DEF EnterLoad, Take, hbVars, IInv, TypeOK
  <2>2. Alive(c)'
    BY <1>0, <2>1 DEF Alive, Beating
  <2> QED BY <2>1, <2>2, TimelyStep DEF Untouched
<1>4. CASE EnterCas(c)
  <2>1. /\ UNCHANGED <<clock, stop, hsnap, failure>> /\ main[c] = "enter_cas"
        /\ CompareAndSwap(snap[c].rec, Owned(c, snap[c]))
        /\ main'[c] = "holding" /\ hb'[c] = "wait" /\ nextBeat'[c] = clock + Interval
        /\ \A d \in Controllers : d # c =>
              /\ main'[d] = main[d] /\ snap'[d] = snap[d] /\ hb'[d] = hb[d]
              /\ nextBeat'[d] = nextBeat[d]
    BY <1>4 DEF EnterCas, Drop, IInv, TypeOK
  <2>2. /\ Entitled(c) /\ snap[c].rec = control /\ snap[c].at = clock
        /\ control' = [Owned(c, snap[c]) EXCEPT !.revision = control.revision + 1]
    BY <1>0, <2>1, MainEntitled DEF Alive
  <2>3. /\ control'.owner_token = c
        /\ control'.lease_expires_ms = MinOf(clock + LeaseMs, Deadline)
    BY <1>0, <2>2 DEF Owned, RunControl
  <2>4. LeaseCovers(c)' /\ clock <= clock + Interval
    BY <1>0, <2>1, <2>3, IntervalType, LeaseAssumption DEF LeaseCovers, MinOf
  <2>5. Alive(c)'
    BY <1>0, <2>1, <2>3, <2>4 DEF Alive
  <2> QED BY <2>1, <2>2, <2>5, TimelyStep DEF Untouched
<1>5. CASE EnterConflict(c)
  <2>1. /\ UNCHANGED <<clock, control, stop, hb, hsnap, nextBeat, failure>>
        /\ main[c] = "enter_cas" /\ main'[c] = "enter"
        /\ \A d \in Controllers : d # c => main'[d] = main[d] /\ snap'[d] = snap[d]
    BY <1>5 DEF EnterConflict, Drop, hbVars, IInv, TypeOK
  <2>2. Alive(c)'
    BY <1>0, <2>1 DEF Alive, Beating
  <2> QED BY <2>1, <2>2, TimelyStep DEF Untouched
<1>6. CASE StartUpdate(c) \/ UpdateLoad(c)
  <2>1. /\ UNCHANGED <<clock, control, stop, hb, hsnap, nextBeat, failure>>
        /\ main[c] \in InBlock /\ main'[c] \in InBlock
        /\ \A d \in Controllers : d # c => main'[d] = main[d] /\ snap'[d] = snap[d]
    BY <1>6 DEF StartUpdate, UpdateLoad, Take, hbVars, IInv, TypeOK
  <2>2. Alive(c)'
    BY <1>0, <2>1 DEF Alive, Beating, LeaseCovers
  <2> QED BY <2>1, <2>2, TimelyStep DEF Untouched
<1>7. CASE UpdateCas(c)
  <2>1. /\ UNCHANGED <<clock, stop, hb, hsnap, nextBeat, failure>>
        /\ main[c] = "update_cas" /\ main'[c] = "holding"
        /\ \A d \in Controllers : d # c => main'[d] = main[d] /\ snap'[d] = snap[d]
    BY <1>7 DEF UpdateCas, Drop, hbVars, IInv, TypeOK
  <2>2. PICK new \in Transforms(c, snap[c].rec) : CompareAndSwap(snap[c].rec, new)
    BY <1>7 DEF UpdateCas
  <2>3. /\ Entitled(c) /\ snap[c].rec = control
        /\ control' = [new EXCEPT !.revision = control.revision + 1]
    BY <2>1, <2>2, MainEntitled
  <2>4. /\ new \in RunControl /\ new.owner_token = control.owner_token
        /\ new.lease_expires_ms = control.lease_expires_ms
    <3>1. new \in RunControl
      BY <2>2, WrittenRecords DEF IInv, TypeOK
    <3> QED BY <1>0, <2>2, <2>3, <3>1 DEF Transforms, RunControl
  <2>5. /\ control'.owner_token = control.owner_token
        /\ control'.lease_expires_ms = control.lease_expires_ms
    BY <2>3, <2>4 DEF RunControl
  <2>6. Alive(c)'
    BY <1>0, <2>1, <2>5 DEF Alive, Beating, LeaseCovers
  <2> QED BY <2>1, <2>3, <2>6, TimelyStep DEF Untouched
<1>8. CASE UpdateConflict(c)
  <2>1. /\ UNCHANGED <<clock, control, hb, hsnap, nextBeat, failure>> /\ main[c] = "update_cas"
        /\ \A d \in Controllers : d # c =>
              main'[d] = main[d] /\ snap'[d] = snap[d] /\ stop'[d] = stop[d]
        /\ \/ main'[c] = "update" /\ UNCHANGED stop
           \/ main'[c] = "release"
    BY <1>8 DEF UpdateConflict, Leave, Drop, hbVars, IInv, TypeOK
  <2>2. Alive(c)'
    BY <1>0, <2>1 DEF Alive, Beating, LeaseCovers
  <2> QED BY <2>1, <2>2, TimelyStep DEF Untouched
<1> QED BY <1>1, <1>2, <1>3, <1>4, <1>5, <1>6, <1>7, <1>8 DEF Main

LEMMA HeartbeatTimely ==
    ASSUME IInv, Timely, Interval < LeaseMs, NEW c \in Controllers, Heartbeat(c)
    PROVE  Timely'
<1> USE DEF InBlock
<1>0. Alive(c) /\ control \in RunControl /\ clock \in Nat /\ hsnap[c].at \in Nat /\ nextBeat[c] \in Nat
  BY DEF IInv, TypeOK, Timely, Snapshot
<1>1. CASE HeartbeatWake(c) \/ RenewStart(c) \/ RenewLoad(c)
  <2>1. /\ UNCHANGED <<clock, control, main, snap, stop, nextBeat, failure>>
        /\ hb'[c] \in {"renew", "renew_load", "renew_cas"} \/ (hb'[c] = "dead" /\ stop[c])
        /\ hb'[c] = "renew_cas" => hsnap'[c].at = clock
        /\ \A d \in Controllers : d # c => hb'[d] = hb[d] /\ hsnap'[d] = hsnap[d]
    <3>1. CASE HeartbeatWake(c)
      BY <3>1 DEF HeartbeatWake, mainVars, IInv, TypeOK
    <3>2. CASE RenewStart(c)
      BY <3>2 DEF RenewStart, mainVars, IInv, TypeOK
    <3>3. CASE RenewLoad(c)
      BY <3>3 DEF RenewLoad, mainVars, IInv, TypeOK
    <3> QED BY <1>1, <3>1, <3>2, <3>3
  <2>2. Alive(c)'
    BY <1>0, <2>1 DEF Alive, Beating, LeaseCovers
  <2> QED BY <2>1, <2>2, TimelyStep DEF Untouched
<1>2. CASE RenewRaises(c) \/ RenewUnavailable(c) \/ (RenewConflict(c) /\ HeartbeatFails(c))
  <2>1. /\ UNCHANGED <<clock, main, snap, stop, nextBeat>>
        /\ hb'[c] = "dead" /\ failure'[c] = TRUE
        /\ \A d \in Controllers : d # c =>
              hb'[d] = hb[d] /\ hsnap'[d] = hsnap[d] /\ failure'[d] = failure[d]
    BY <1>2 DEF RenewRaises, RenewUnavailable, RenewConflict, HeartbeatFails, HDrop, mainVars,
                IInv, TypeOK
  <2>2. UNCHANGED control \/ Entitled(c)
    BY <1>2, HeartbeatEntitled DEF RenewRaises, RenewUnavailable, RenewConflict, CasUnavailable
  <2>3. Alive(c)'
    BY <1>0, <2>1 DEF Alive, Beating
  <2> QED BY <2>1, <2>2, <2>3, TimelyStep DEF Untouched
<1>3. CASE RenewConflict(c) /\ ~HeartbeatFails(c)
  <2>1. /\ UNCHANGED <<clock, control, main, snap, stop, nextBeat, failure>>
        /\ hb'[c] = "renew"
        /\ \A d \in Controllers : d # c => hb'[d] = hb[d] /\ hsnap'[d] = hsnap[d]
    BY <1>3 DEF RenewConflict, HDrop, mainVars, IInv, TypeOK
  <2>2. Alive(c)'
    BY <1>0, <2>1 DEF Alive, Beating, LeaseCovers
  <2> QED BY <2>1, <2>2, TimelyStep DEF Untouched
<1>4. CASE RenewCas(c)
  <2>1. /\ UNCHANGED <<clock, main, snap, stop, failure>> /\ hb[c] = "renew_cas"
        /\ hb'[c] = "wait" /\ nextBeat'[c] = clock + Interval
        /\ \A d \in Controllers : d # c =>
              hb'[d] = hb[d] /\ hsnap'[d] = hsnap[d] /\ nextBeat'[d] = nextBeat[d]
    BY <1>4 DEF RenewCas, HDrop, mainVars, IInv, TypeOK
  <2>2. PICK t \in hsnap[c].at..clock : CompareAndSwap(hsnap[c].rec, Renewed(hsnap[c].rec, t))
    BY <1>4 DEF RenewCas
  <2>3. t = clock
    BY <1>0, <2>1, <2>2 DEF Alive
  <2>4. /\ Entitled(c) /\ hsnap[c].rec = control
        /\ control' = [Renewed(control, clock) EXCEPT !.revision = control.revision + 1]
    BY <2>1, <2>2, <2>3, HeartbeatEntitled
  <2>5. /\ control'.owner_token = control.owner_token
        /\ control'.lease_expires_ms = MinOf(clock + LeaseMs, Deadline)
    BY <1>0, <2>4 DEF Renewed, RunControl
  <2>6. LeaseCovers(c)' /\ clock <= clock + Interval
    BY <1>0, <2>1, <2>5, IntervalType, LeaseAssumption DEF LeaseCovers, MinOf
  <2>7. Alive(c)'
    BY <1>0, <2>1, <2>5, <2>6 DEF Alive, Beating
  <2> QED BY <2>1, <2>4, <2>7, TimelyStep DEF Untouched
<1> QED BY <1>1, <1>2, <1>3, <1>4 DEF Heartbeat

LEMMA StepTimely ==
    ASSUME IInv, Timely, Prompt, Interval < LeaseMs, [Next]_vars
    PROVE  Timely'
<1>1. CASE UNCHANGED vars
  BY <1>1 DEF vars, Timely, Alive, Beating, LeaseCovers
<1>2. CASE Tick
  <2>1. /\ UNCHANGED <<control, main, snap, stop, hb, hsnap, nextBeat, failure>>
        /\ clock' = clock + 1 /\ \A c \in Controllers : ~StepDue(c)
    BY <1>2 DEF Tick, mainVars, hbVars
  <2> SUFFICES ASSUME NEW c \in Controllers PROVE Alive(c)'
    BY DEF Timely
  <2>2. Alive(c) /\ clock \in Nat /\ nextBeat[c] \in Nat
    BY DEF Timely, IInv, TypeOK
  <2>3. /\ main[c] # "enter_cas" /\ hb[c] \notin {"renew", "renew_load", "renew_cas"}
        /\ hb[c] = "wait" => ~(clock >= nextBeat[c])
    BY <2>1 DEF StepDue, InCall
  <2> QED BY <2>1, <2>2, <2>3 DEF Alive, Beating, LeaseCovers
<1>3. ASSUME NEW c \in Controllers, Main(c) PROVE Timely'
  BY <1>3, MainTimely
<1>4. ASSUME NEW c \in Controllers, Heartbeat(c) PROVE Timely'
  BY <1>4, HeartbeatTimely
<1>5. ASSUME NEW c \in Controllers, Crash(c) PROVE Timely'
  <2>1. /\ UNCHANGED <<control, clock, snap, stop, hsnap, nextBeat, failure>>
        /\ main'[c] = "crashed" /\ hb'[c] = "dead"
        /\ \A d \in Controllers : d # c => main'[d] = main[d] /\ hb'[d] = hb[d]
    BY <1>5 DEF IInv, TypeOK, Crash
  <2>2. Alive(c)'
    BY <2>1 DEF Alive, Beating, InBlock
  <2> QED BY <2>1, <2>2, TimelyStep DEF Untouched
<1> QED BY <1>1, <1>2, <1>3, <1>4, <1>5 DEF Next

(* The heartbeat does not let the lease lapse under a live owner (_renew), *)
(* for any number of controllers that compete for the Run and however the  *)
(* store fails, provided its period (a third of the lease, floored) is     *)
(* shorter than the lease and threads are not kept from running.           *)
THEOREM LiveOwnersKeepTheirLease ==
    Spec => [](Prompt /\ Interval < LeaseMs => LiveOwnerKeepsLease)
<1> DEFINE Kept == Prompt /\ Interval < LeaseMs => Timely
<1>1. Init => Kept
  BY DEF Init, Timely, Alive, Beating, InBlock
<1>2. IInv /\ Kept /\ [Next]_vars => Kept'
  BY StepTimely
<1>3. IInv /\ Kept => (Prompt /\ Interval < LeaseMs => LiveOwnerKeepsLease)
  <2> SUFFICES ASSUME IInv, Timely, Interval < LeaseMs, NEW c \in Controllers,
                      main[c] \in InBlock, ~failure[c], clock < Deadline
               PROVE  control.owner_token = c /\ control.lease_expires_ms > clock
    BY DEF LiveOwnerKeepsLease
  <2> QED BY BeatingOwns DEF Timely, Beating
<1> HIDE DEF Kept
<1> QED BY <1>1, <1>2, <1>3, LeaseInvariant, PTL DEF Spec

=============================================================================
