---------------------------- MODULE SessionStore ----------------------------
(***************************************************************************)
(* FileSessionStore: one JSON record per session, replaced by renaming a   *)
(* temporary file under the session's file lock, and retention pruning.    *)
(* Several processes use one directory; a process may die at any point     *)
(* (the system then drops its locks) and the machine may lose power, after *)
(* which the directory is what had reached the disk.                       *)
(***************************************************************************)
EXTENDS Naturals, FiniteSets

CONSTANTS Sessions, Procs,
          ActiveTtl, TerminalTtl,   \* active_ttl_s, terminal_ttl_s
          Batch,                    \* prune_batch_size
          MaxRev, MaxTime, MaxFaults   \* bounds

ASSUME StoreAssumption ==
    /\ {ActiveTtl, TerminalTtl, Batch} \subseteq Nat \ {0}
    /\ {MaxRev, MaxTime, MaxFaults} \subseteq Nat
    /\ "free" \notin Procs

VARIABLES
    now,      \* the clock
    mem,      \* mem[s]: the record a reader finds, or Absent
    dur,      \* dur[s]: the record the disk would come back with
    lock,     \* lock[s]: the process that holds the session's lock, or Free
    pc, op,   \* what each process does, and with which arguments
    snap,     \* snap[p]: the last session p loaded
    faults,   \* failed calls, deaths and losses of power so far
    since     \* history: the last acknowledged record and those written since

vars == <<now, mem, dur, lock, pc, op, snap, faults, since>>

Absent == [absent |-> TRUE]
Free == "free"
NoOp == [kind |-> "none"]

Record(rev, terminal, at) ==
    [rev |-> rev, terminal |-> terminal, updated |-> at,
     expires |-> at + (IF terminal THEN TerminalTtl ELSE ActiveTtl)]

-----------------------------------------------------------------------------
Init ==
    /\ now = 0
    /\ mem = [s \in Sessions |-> Absent] /\ dur = [s \in Sessions |-> Absent]
    /\ lock = [s \in Sessions |-> Free]
    /\ pc = [p \in Procs |-> "idle"] /\ op = [p \in Procs |-> NoOp]
    /\ snap = [p \in Procs |-> NoOp] /\ faults = 0
    /\ since = [s \in Sessions |-> {Absent}]

Tick == /\ now < MaxTime /\ now' = now + 1
        /\ UNCHANGED <<mem, dur, lock, pc, op, snap, since, faults>>

\* load, under the shared lock.
Load(p, s) ==
    /\ pc[p] = "idle" /\ lock[s] = Free /\ mem[s] # Absent
    /\ snap' = [snap EXCEPT ![p] = [kind |-> "loaded", s |-> s, rev |-> mem[s].rev]]
    /\ UNCHANGED <<now, mem, dur, lock, pc, op, since, faults>>

\* A call of create, of compare_and_swap with what was loaded, or of
\* prune_expired with the time of the call.
CallCreate(p, s) ==
    /\ pc[p] = "idle"
    /\ pc' = [pc EXCEPT ![p] = "lock"]
    /\ op' = [op EXCEPT ![p] = [kind |-> "create", s |-> s, rev |-> 0, terminal |-> FALSE]]
    /\ UNCHANGED <<now, mem, dur, lock, snap, since, faults>>

CallCas(p) ==
    /\ pc[p] = "idle" /\ snap[p] # NoOp /\ snap[p].rev < MaxRev
    /\ \E terminal \in BOOLEAN :
         op' = [op EXCEPT ![p] = [kind |-> "cas", s |-> snap[p].s, rev |-> snap[p].rev + 1,
                                  terminal |-> terminal]]
    /\ pc' = [pc EXCEPT ![p] = "lock"]
    /\ UNCHANGED <<now, mem, dur, lock, snap, since, faults>>

\* _locked(exclusive=True) of a writer.
LockFree(s) == lock[s] = Free

Acquire(p) ==
    /\ pc[p] = "lock" /\ LockFree(op[p].s)
    /\ lock' = [lock EXCEPT ![op[p].s] = p]
    /\ pc' = [pc EXCEPT ![p] = "check"]
    /\ UNCHANGED <<now, mem, dur, op, snap, since, faults>>

\* create finds no record; compare_and_swap finds the expected revision.
\* Mutant: a compare_and_swap takes any older revision.
MayWriteNewer(p) ==
    LET r == mem[op[p].s]
    IN  IF op[p].kind = "create" THEN r = Absent ELSE r # Absent /\ r.rev <= op[p].rev
MayWrite(p) ==
    LET r == mem[op[p].s]
    IN  IF op[p].kind = "create" THEN r = Absent ELSE r # Absent /\ r.rev + 1 = op[p].rev

\* A call ends: the lock is dropped and what it was about forgotten.
Return(p) ==
    /\ lock' = [s \in Sessions |-> IF lock[s] = p THEN Free ELSE lock[s]]
    /\ pc' = [pc EXCEPT ![p] = "idle"]
    /\ op' = [op EXCEPT ![p] = NoOp]

\* StoreConflict or SessionNotFound.
Refused(p) ==
    /\ pc[p] = "check" /\ ~MayWrite(p)
    /\ Return(p)
    /\ UNCHANGED <<now, mem, dur, snap, since, faults>>

\* _write_record up to the rename: the record is stamped, written to a
\* temporary file and synced.
Stage(p) ==
    /\ pc[p] = "check" /\ MayWrite(p)
    /\ op' = [op EXCEPT ![p] = [kind |-> "write", s |-> op[p].s,
                                record |-> Record(op[p].rev, op[p].terminal, now)]]
    /\ pc' = [pc EXCEPT ![p] = "rename"]
    /\ UNCHANGED <<now, mem, dur, lock, snap, since, faults>>

Rename(p) ==
    /\ pc[p] = "rename"
    /\ mem' = [mem EXCEPT ![op[p].s] = op[p].record]
    /\ since' = [since EXCEPT ![op[p].s] = @ \cup {op[p].record}]
    /\ pc' = [pc EXCEPT ![p] = "sync"]
    /\ UNCHANGED <<now, dur, lock, op, snap, faults>>

\* The directory is synced, with every entry in it, before the writer returns.
\* Mutant: it returns without.
SyncedLater == dur
Synced == mem

Sync(p) ==
    /\ pc[p] = "sync"
    /\ dur' = Synced
    /\ since' = [since EXCEPT ![op[p].s] = {op[p].record}]
    /\ Return(p)
    /\ UNCHANGED <<now, mem, snap, faults>>

\* StoreUnavailable: locking, reading, writing, renaming, removing or syncing
\* failed; the record may be visible or gone and the caller does not know.
Unavailable(p) ==
    /\ pc[p] # "idle"
    /\ Return(p)
    /\ UNCHANGED <<now, mem, dur, snap, since>>
    /\ faults < MaxFaults /\ faults' = faults + 1

-----------------------------------------------------------------------------
(***************************************************************************)
(* prune_expired.  The scan takes no lock; each candidate is looked at     *)
(* again under its lock, against the time of the call.                     *)
(***************************************************************************)
Expired(s, at) == mem[s] # Absent /\ mem[s].expires <= at

\* The first Batch expired sessions in the order of their expiry.
FirstExpired(S) ==
    LET all == {s \in Sessions : Expired(s, now)}
    IN  /\ S \subseteq all /\ Cardinality(S) <= Batch
        /\ S = all \/ Cardinality(S) = Batch
        /\ \A s \in S : \A t \in all \ S : mem[s].expires <= mem[t].expires

CallPrune(p) ==
    /\ pc[p] = "idle"
    /\ \E S \in SUBSET Sessions :
         /\ FirstExpired(S)
         /\ op' = [op EXCEPT ![p] = [kind |-> "prune", todo |-> S, at |-> now, removed |-> FALSE]]
    /\ pc' = [pc EXCEPT ![p] = "prune"]
    /\ UNCHANGED <<now, mem, dur, lock, snap, since, faults>>

\* The candidates are visited one after the other, each under its lock.
PruneLock(p, s) ==
    /\ pc[p] = "prune" /\ s \in op[p].todo /\ lock[s] = Free
    /\ lock' = [lock EXCEPT ![s] = p]
    /\ pc' = [pc EXCEPT ![p] = "remove"]
    /\ op' = [op EXCEPT ![p].todo = @ \ {s}]
    /\ UNCHANGED <<now, mem, dur, snap, since, faults>>

\* Mutant: what the scan found is removed.
StillThere(s, at) == mem[s] # Absent
MayRemove(s, at) == Expired(s, at)

PruneRemove(p, s) ==
    /\ pc[p] = "remove" /\ lock[s] = p
    /\ mem' = [mem EXCEPT ![s] = IF MayRemove(s, op[p].at) THEN Absent ELSE @]
    /\ since' = [since EXCEPT ![s] = IF MayRemove(s, op[p].at) THEN @ \cup {Absent} ELSE @]
    /\ lock' = [lock EXCEPT ![s] = Free]
    /\ op' = [op EXCEPT ![p].removed = @ \/ MayRemove(s, op[p].at)]
    /\ pc' = [pc EXCEPT ![p] = "prune"]
    /\ UNCHANGED <<now, dur, snap, faults>>

\* The directory is synced once, after the last candidate, if one was removed.
PruneSync(p) ==
    /\ pc[p] = "prune" /\ op[p].todo = {}
    /\ dur' = IF op[p].removed THEN mem ELSE dur
    /\ Return(p)
    /\ UNCHANGED <<now, mem, snap, since, faults>>

-----------------------------------------------------------------------------
\* A process dies; the system drops its locks.
Die(p) ==
    /\ pc[p] # "idle"
    /\ Return(p)
    /\ snap' = [snap EXCEPT ![p] = NoOp]
    /\ UNCHANGED <<now, mem, dur, since>>
    /\ faults < MaxFaults /\ faults' = faults + 1

\* The system writes a directory entry back on its own.
WriteBack(s) ==
    /\ dur[s] # mem[s]
    /\ dur' = [dur EXCEPT ![s] = mem[s]]
    /\ UNCHANGED <<now, mem, lock, pc, op, snap, since, faults>>

PowerLoss ==
    /\ mem' = dur
    /\ lock' = [s \in Sessions |-> Free]
    /\ pc' = [p \in Procs |-> "idle"] /\ op' = [p \in Procs |-> NoOp]
    /\ snap' = [p \in Procs |-> NoOp]
    /\ UNCHANGED <<now, dur, since>>
    /\ faults < MaxFaults /\ faults' = faults + 1

Step(p) ==
    \/ \E s \in Sessions : Load(p, s) \/ CallCreate(p, s) \/ PruneLock(p, s) \/ PruneRemove(p, s)
    \/ CallCas(p) \/ CallPrune(p) \/ Acquire(p) \/ Refused(p) \/ Stage(p) \/ Rename(p)
    \/ Sync(p) \/ Unavailable(p) \/ PruneSync(p) \/ Die(p)

Next == \/ Tick \/ PowerLoss
        \/ \E s \in Sessions : WriteBack(s)
        \/ \E p \in Procs : Step(p)

Spec == Init /\ [][Next]_vars

-----------------------------------------------------------------------------
Records == [rev : Nat, terminal : BOOLEAN, updated : Nat, expires : Nat]
PruneOps == [kind : {"prune"}, todo : SUBSET Sessions, at : Nat, removed : BOOLEAN]
Snaps == {NoOp} \cup [kind : {"loaded"}, s : Sessions, rev : Nat]
Ops == {NoOp}
       \cup [kind : {"create", "cas"}, s : Sessions, rev : Nat, terminal : BOOLEAN]
       \cup [kind : {"write"}, s : Sessions, record : Records]
       \cup PruneOps

\* The store's variables are well formed, and a process inside a call that
\* writes or removes holds the session's lock (_locked).
TypeOK ==
    /\ now \in Nat
    /\ mem \in [Sessions -> Records \cup {Absent}] /\ dur \in [Sessions -> Records \cup {Absent}]
    /\ lock \in [Sessions -> Procs \cup {Free}]
    /\ pc \in [Procs -> {"idle", "lock", "check", "rename", "sync", "prune", "remove"}]
    /\ op \in [Procs -> Ops]
    /\ snap \in [Procs -> Snaps]
    /\ faults \in 0..MaxFaults
    /\ since \in [Sessions -> SUBSET (Records \cup {Absent})]
    /\ \A p \in Procs : pc[p] \in {"check", "rename", "sync"} => lock[op[p].s] = p

\* A write whose caller was told that it succeeded survives every crash and loss
\* of power: what is on the disk is that record, a later one, or the absence of
\* one that has expired since (_write_record, prune_expired).
AckedSurvives == \A s \in Sessions : {mem[s], dur[s]} \subseteq since[s]

\* Pruning removes no session whose retention, counted from its last update,
\* has not run out at the time of the call, although the scan may have seen an
\* older record (prune_expired).
PruneOnlyExpired ==
    [][\A s \in Sessions :
          (mem[s] # Absent /\ mem'[s] = Absent /\ ~PowerLoss) =>
              mem[s].updated + (IF mem[s].terminal THEN TerminalTtl ELSE ActiveTtl) <= now]_vars

\* The store is the register the coordinator takes it for.
Register == INSTANCE SessionRegister WITH reg <- mem
ImplementsRegister == Register!Spec
=============================================================================
