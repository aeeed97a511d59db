------------------------ MODULE SessionStoreProofs --------------------------
(***************************************************************************)
(* For any number of sessions and processes and any retention times: the   *)
(* file store keeps acknowledged writes, prunes only expired sessions, and *)
(* implements the register SessionRegister describes.                      *)
(***************************************************************************)
EXTENDS SessionStore, TLAPS

Writing(p) == pc[p] \in {"check", "rename", "sync"}

Ttl(r) == IF r.terminal THEN TerminalTtl ELSE ActiveTtl
Stamped(r) == r # Absent => r.expires = r.updated + Ttl(r)

\* The record r is the next one of a session whose record is old.
Follows(old, r) == \/ old = Absent /\ r.rev = 0
                   \/ old # Absent /\ r.rev = old.rev + 1

\* What a process at each point of a call has made sure of.
OpFits(p) ==
    /\ pc[p] \in {"lock", "check"} =>
          /\ op[p] \in [kind : {"create", "cas"}, s : Sessions, rev : Nat, terminal : BOOLEAN]
          /\ op[p].kind = "create" => op[p].rev = 0
    /\ pc[p] \in {"rename", "sync"} =>
          /\ op[p] \in [kind : {"write"}, s : Sessions, record : Records]
          /\ Stamped(op[p].record)
    /\ pc[p] = "rename" => Follows(mem[op[p].s], op[p].record)
    /\ pc[p] = "sync" => mem[op[p].s] = op[p].record
    /\ pc[p] \in {"prune", "remove"} =>
          /\ op[p] \in PruneOps
          /\ op[p].at <= now

IInv ==
    /\ TypeOK
    /\ \A p \in Procs : OpFits(p)
    /\ \A s \in Sessions : {mem[s], dur[s]} \subseteq since[s]
    /\ \A s \in Sessions : \A r \in since[s] : Stamped(r)

(* No record is the absent one.                                            *)
LEMMA RecordsArePresent == ASSUME NEW r \in Records PROVE r # Absent
<1>1. DOMAIN r = {"rev", "terminal", "updated", "expires"}
  BY DEF Records
<1>2. DOMAIN Absent = {"absent"}
  BY DEF Absent
<1>3. "absent" \notin {"rev", "terminal", "updated", "expires"}
  OBVIOUS
<1> QED BY <1>1, <1>2, <1>3

(* A stamped record is a record.                                           *)
LEMMA RecordType ==
    ASSUME NEW rev \in Nat, NEW terminal \in BOOLEAN, NEW at \in Nat
    PROVE  /\ Record(rev, terminal, at) \in Records
           /\ Stamped(Record(rev, terminal, at))
           /\ Record(rev, terminal, at).rev = rev
<1>1. ActiveTtl \in Nat /\ TerminalTtl \in Nat
  BY StoreAssumption
<1> QED BY <1>1 DEF Record, Records, Stamped, Ttl

(* The store starts in the invariant.                                      *)
LEMMA InitIInv == Init => IInv
<1> SUFFICES ASSUME Init PROVE IInv
  OBVIOUS
<1>1. TypeOK
  BY StoreAssumption DEF Init, TypeOK, Ops, Snaps
<1>2. \A p \in Procs : OpFits(p)
  BY DEF Init, OpFits
<1>3. \A s \in Sessions : {mem[s], dur[s]} \subseteq since[s]
  BY DEF Init
<1>4. \A s \in Sessions : \A r \in since[s] : Stamped(r)
  BY DEF Init, Stamped
<1> QED BY <1>1, <1>2, <1>3, <1>4 DEF IInv

(* A step that leaves the records alone keeps what is known of them.       *)
LEMMA RecordsUntouched ==
    ASSUME IInv, UNCHANGED <<mem, dur, since>>
    PROVE  /\ \A s \in Sessions : {mem'[s], dur'[s]} \subseteq since'[s]
           /\ \A s \in Sessions : \A r \in since'[s] : Stamped(r)
BY DEF IInv, Stamped, Ttl

(* The end of a call: the process is idle and holds no lock of a session   *)
(* another one writes.                                                     *)
LEMMA ReturnKeeps ==
    ASSUME IInv, NEW p \in Procs, Return(p),
           now' = now, mem' = mem, faults' \in 0..MaxFaults,
           \A q \in Procs : q # p => pc'[q] = pc[q],
           dur' \in [Sessions -> Records \cup {Absent}], snap' \in [Procs -> Snaps],
           since' \in [Sessions -> SUBSET (Records \cup {Absent})]
    PROVE  TypeOK' /\ \A q \in Procs : OpFits(q)'
<1>1. lock' \in [Sessions -> Procs \cup {Free}]
  BY DEF IInv, TypeOK, Return
<1>2. pc' \in [Procs -> {"idle", "lock", "check", "rename", "sync", "prune", "remove"}]
      /\ op' \in [Procs -> Ops]
  BY DEF IInv, TypeOK, Return, Ops
<1>3. pc'[p] = "idle" /\ \A q \in Procs : q # p => pc'[q] = pc[q] /\ op'[q] = op[q]
  BY DEF IInv, TypeOK, Return
<1>4. ASSUME NEW q \in Procs, pc'[q] \in {"check", "rename", "sync"}
      PROVE  lock'[op'[q].s] = q
  <2>1. q # p /\ pc'[q] = pc[q] /\ op'[q] = op[q]
    BY <1>3, <1>4
  <2>2. lock[op[q].s] = q /\ op[q].s \in Sessions
    BY <2>1, <1>4 DEF IInv, TypeOK, OpFits
  <2> QED BY <2>1, <2>2 DEF Return, IInv, TypeOK
<1>5. TypeOK'
  BY <1>1, <1>2, <1>4 DEF IInv, TypeOK
<1>6. ASSUME NEW q \in Procs PROVE OpFits(q)'
  BY <1>3 DEF IInv, OpFits, Stamped, Ttl, Follows
<1> QED BY <1>5, <1>6

-----------------------------------------------------------------------------
(* Every step keeps the invariant.                                         *)
LEMMA StepIInv == IInv /\ [Next]_vars => IInv'
<1> SUFFICES ASSUME IInv, [Next]_vars PROVE IInv'
  OBVIOUS
<1> USE DEF IInv
<1>1. CASE Tick
  <2>1. TypeOK'
    BY <1>1 DEF Tick, TypeOK
  <2>2. \A q \in Procs : OpFits(q)'
    <3>1. ASSUME NEW q \in Procs, pc[q] \in {"prune", "remove"} PROVE op[q].at <= now'
      BY <1>1, <3>1 DEF Tick, TypeOK, OpFits, PruneOps
    <3> QED BY <1>1, <3>1 DEF Tick, OpFits, Stamped, Ttl, Follows
  <2> QED BY <1>1, <2>1, <2>2, RecordsUntouched DEF Tick
<1>2. CASE PowerLoss
  <2>1. TypeOK'
    <3>1. faults' \in 0..MaxFaults /\ snap' \in [Procs -> Snaps] /\ op' \in [Procs -> Ops]
      BY <1>2, StoreAssumption DEF PowerLoss, TypeOK, Ops, Snaps
    <3> QED BY <1>2, <3>1 DEF PowerLoss, TypeOK
  <2>2. \A q \in Procs : OpFits(q)'
    BY <1>2 DEF PowerLoss, OpFits
  <2>3. \A s \in Sessions : {mem'[s], dur'[s]} \subseteq since'[s]
    BY <1>2 DEF PowerLoss
  <2>4. \A s \in Sessions : \A r \in since'[s] : Stamped(r)
    BY <1>2 DEF PowerLoss
  <2> QED BY <2>1, <2>2, <2>3, <2>4 DEF Stamped, Ttl
<1>3. ASSUME NEW s \in Sessions, WriteBack(s) PROVE IInv'
  <2>1. TypeOK'
    BY <1>3 DEF WriteBack, TypeOK
  <2>2. \A q \in Procs : OpFits(q)'
    BY <1>3 DEF WriteBack, OpFits, Stamped, Ttl, Follows
  <2>3. \A t \in Sessions : {mem'[t], dur'[t]} \subseteq since'[t]
    BY <1>3 DEF WriteBack, TypeOK
  <2>4. \A t \in Sessions : \A r \in since'[t] : Stamped(r)
    BY <1>3 DEF WriteBack
  <2> QED BY <2>1, <2>2, <2>3, <2>4 DEF Stamped, Ttl
<1>4. ASSUME NEW p \in Procs, NEW s \in Sessions, Load(p, s) PROVE IInv'
  <2>1. mem[s] \in Records
    BY <1>4 DEF Load, TypeOK
  <2>2. TypeOK'
    BY <1>4, <2>1 DEF Load, TypeOK, Records, Snaps
  <2>3. \A q \in Procs : OpFits(q)'
    BY <1>4 DEF Load, OpFits, Stamped, Ttl, Follows
  <2> QED BY <1>4, <2>2, <2>3, RecordsUntouched DEF Load
<1>5. ASSUME NEW p \in Procs, NEW s \in Sessions, CallCreate(p, s) PROVE IInv'
  <2>1. TypeOK'
    BY <1>5 DEF CallCreate, TypeOK, Ops
  <2>2. ASSUME NEW q \in Procs PROVE OpFits(q)'
    <3>1. CASE q = p
      BY <1>5, <3>1 DEF CallCreate, TypeOK, OpFits
    <3>2. CASE q # p
      BY <1>5, <3>2 DEF CallCreate, TypeOK, OpFits, Stamped, Ttl, Follows
    <3> QED BY <3>1, <3>2
  <2> QED BY <1>5, <2>1, <2>2, RecordsUntouched DEF CallCreate
<1>6. ASSUME NEW p \in Procs, CallCas(p) PROVE IInv'
  <2>1. PICK terminal \in BOOLEAN :
          op' = [op EXCEPT ![p] = [kind |-> "cas", s |-> snap[p].s, rev |-> snap[p].rev + 1,
                                   terminal |-> terminal]]
    BY <1>6 DEF CallCas
  <2>2. snap[p].s \in Sessions /\ snap[p].rev \in Nat
    BY <1>6 DEF CallCas, TypeOK, Snaps
  <2>3. TypeOK'
    BY <1>6, <2>1, <2>2 DEF CallCas, TypeOK, Ops
  <2>4. ASSUME NEW q \in Procs PROVE OpFits(q)'
    <3>1. CASE q = p
      BY <1>6, <2>1, <2>2, <3>1 DEF CallCas, TypeOK, OpFits
    <3>2. CASE q # p
      BY <1>6, <2>1, <3>2 DEF CallCas, TypeOK, OpFits, Stamped, Ttl, Follows
    <3> QED BY <3>1, <3>2
  <2> QED BY <1>6, <2>3, <2>4, RecordsUntouched DEF CallCas
<1>7. ASSUME NEW p \in Procs, Acquire(p) PROVE IInv'
  <2>1. op[p].s \in Sessions /\ lock[op[p].s] = Free
    BY <1>7 DEF Acquire, LockFree, OpFits
  <2>2. \A q \in Procs : Writing(q) => op[q].s # op[p].s
    BY <2>1, StoreAssumption DEF TypeOK, Writing, Free
  <2>3. TypeOK'
    BY <1>7, <2>1, <2>2 DEF Acquire, TypeOK, Writing, OpFits
  <2>4. \A q \in Procs : OpFits(q)'
    BY <1>7 DEF Acquire, TypeOK, OpFits, Stamped, Ttl, Follows
  <2> QED BY <1>7, <2>3, <2>4, RecordsUntouched DEF Acquire
<1>8. ASSUME NEW p \in Procs, Refused(p) PROVE IInv'
  <2>1. op[p].s \in Sessions
    BY <1>8 DEF Refused, OpFits
  <2>2. TypeOK' /\ \A q \in Procs : OpFits(q)'
    BY <1>8, <2>1, ReturnKeeps DEF Refused, TypeOK, Return
  <2> QED BY <1>8, <2>2, RecordsUntouched DEF Refused
<1>9. ASSUME NEW p \in Procs, Stage(p) PROVE IInv'
  <2> DEFINE r == Record(op[p].rev, op[p].terminal, now)
  <2>1. op[p] \in [kind : {"create", "cas"}, s : Sessions, rev : Nat, terminal : BOOLEAN]
        /\ (op[p].kind = "create" => op[p].rev = 0)
    BY <1>9 DEF Stage, OpFits
  <2>2. r \in Records /\ Stamped(r) /\ r.rev = op[p].rev
    BY <2>1, RecordType DEF TypeOK
  <2>3. Follows(mem[op[p].s], r)
    BY <1>9, <2>1, <2>2 DEF Stage, MayWrite, Follows
  <2> HIDE DEF r
  <2>4. op' = [op EXCEPT ![p] = [kind |-> "write", s |-> op[p].s, record |-> r]]
    BY <1>9 DEF Stage, r
  <2>5. TypeOK'
    BY <1>9, <2>1, <2>2, <2>4 DEF Stage, TypeOK, Ops
  <2>6. ASSUME NEW q \in Procs PROVE OpFits(q)'
    <3>1. CASE q = p
      BY <1>9, <2>1, <2>2, <2>3, <2>4, <3>1 DEF Stage, TypeOK, OpFits, Stamped, Ttl, Follows
    <3>2. CASE q # p
      BY <1>9, <2>4, <3>2 DEF Stage, TypeOK, OpFits, Stamped, Ttl, Follows
    <3> QED BY <3>1, <3>2
  <2> QED BY <1>9, <2>5, <2>6, RecordsUntouched DEF Stage
<1>10. ASSUME NEW p \in Procs, Rename(p) PROVE IInv'
  <2>1. op[p].s \in Sessions /\ op[p].record \in Records /\ Stamped(op[p].record)
    BY <1>10 DEF Rename, OpFits
  <2>2. TypeOK'
    BY <1>10, <2>1 DEF Rename, TypeOK
  <2>3. ASSUME NEW q \in Procs PROVE OpFits(q)'
    <3>1. CASE q = p
      BY <1>10, <2>1, <3>1 DEF Rename, TypeOK, OpFits, Stamped, Ttl
    <3>2. CASE q # p /\ pc[q] \in {"rename", "sync"}
      <4>1. op[q].s # op[p].s
        BY <1>10, <3>2 DEF Rename, TypeOK
      <4>2. pc'[q] = pc[q] /\ op'[q] = op[q] /\ mem'[op[q].s] = mem[op[q].s]
        BY <1>10, <3>2, <4>1 DEF Rename, TypeOK, OpFits
      <4> QED BY <3>2, <4>2 DEF OpFits, Stamped, Ttl, Follows
    <3>3. CASE q # p /\ pc[q] \notin {"rename", "sync"}
      BY <1>10, <3>3 DEF Rename, TypeOK, OpFits
    <3> QED BY <3>1, <3>2, <3>3
  <2>4. \A s \in Sessions : {mem'[s], dur'[s]} \subseteq since'[s]
    BY <1>10, <2>1 DEF Rename, TypeOK
  <2>5. \A s \in Sessions : \A r \in since'[s] : Stamped(r)
    BY <1>10, <2>1 DEF Rename, TypeOK
  <2> QED BY <2>2, <2>3, <2>4, <2>5 DEF Stamped, Ttl
<1>11. ASSUME NEW p \in Procs, Sync(p) PROVE IInv'
  <2>1. /\ op[p].s \in Sessions /\ op[p].record \in Records /\ Stamped(op[p].record)
        /\ mem[op[p].s] = op[p].record
    BY <1>11 DEF Sync, OpFits
  <2>2. /\ dur' = mem /\ dur' \in [Sessions -> Records \cup {Absent}]
        /\ since' \in [Sessions -> SUBSET (Records \cup {Absent})]
    BY <1>11, <2>1 DEF Sync, Synced, TypeOK
  <2>3. TypeOK' /\ \A q \in Procs : OpFits(q)'
    BY <1>11, <2>1, <2>2, ReturnKeeps DEF Sync, TypeOK, Return
  <2>4. \A s \in Sessions : {mem'[s], dur'[s]} \subseteq since'[s]
    BY <1>11, <2>1, <2>2 DEF Sync, TypeOK
  <2>5. \A s \in Sessions : \A r \in since'[s] : Stamped(r)
    BY <1>11, <2>1 DEF Sync, TypeOK
  <2> QED BY <2>3, <2>4, <2>5 DEF Stamped, Ttl
<1>12. ASSUME NEW p \in Procs, Unavailable(p) PROVE IInv'
  <2>1. faults' \in 0..MaxFaults
    BY <1>12, StoreAssumption DEF Unavailable, TypeOK
  <2>2. TypeOK' /\ \A q \in Procs : OpFits(q)'
    BY <1>12, <2>1, ReturnKeeps DEF Unavailable, TypeOK, Return
  <2> QED BY <1>12, <2>2, RecordsUntouched DEF Unavailable
<1>13. ASSUME NEW p \in Procs, CallPrune(p) PROVE IInv'
  <2>1. PICK S \in SUBSET Sessions :
          op' = [op EXCEPT ![p] = [kind |-> "prune", todo |-> S, at |-> now, removed |-> FALSE]]
    BY <1>13 DEF CallPrune
  <2>2. TypeOK'
    BY <1>13, <2>1 DEF CallPrune, TypeOK, Ops, PruneOps
  <2>3. ASSUME NEW q \in Procs PROVE OpFits(q)'
    <3>1. CASE q = p
      BY <1>13, <2>1, <3>1 DEF CallPrune, TypeOK, OpFits, PruneOps
    <3>2. CASE q # p
      BY <1>13, <2>1, <3>2 DEF CallPrune, TypeOK, OpFits, Stamped, Ttl, Follows
    <3> QED BY <3>1, <3>2
  <2> QED BY <1>13, <2>2, <2>3, RecordsUntouched DEF CallPrune
<1>14. ASSUME NEW p \in Procs, NEW s \in Sessions, PruneLock(p, s) PROVE IInv'
  <2>1. op[p] \in PruneOps /\ op[p].at <= now
    BY <1>14 DEF PruneLock, OpFits
  <2>2. op'[p] = [op[p] EXCEPT !.todo = @ \ {s}]
    BY <1>14 DEF PruneLock, TypeOK
  <2>3. op'[p] \in PruneOps /\ op'[p].at = op[p].at
    BY <2>1, <2>2 DEF PruneOps
  <2>4. \A q \in Procs : Writing(q) => q # p /\ op[q].s # s
    BY <1>14, StoreAssumption DEF PruneLock, TypeOK, Writing, Free
  <2>5. \A q \in Procs : q # p => pc'[q] = pc[q] /\ op'[q] = op[q]
    BY <1>14 DEF PruneLock, TypeOK
  <2>6. op' \in [Procs -> Ops]
    BY <1>14, <2>3 DEF PruneLock, TypeOK, Ops
  <2>7. \A q \in Procs : pc'[q] \in {"check", "rename", "sync"} => lock'[op'[q].s] = q
    BY <1>14, <2>4, <2>5 DEF PruneLock, TypeOK, Writing, OpFits
  <2>8. TypeOK'
    BY <1>14, <2>6, <2>7 DEF PruneLock, TypeOK
  <2>9. ASSUME NEW q \in Procs PROVE OpFits(q)'
    <3>1. CASE q = p
      BY <1>14, <2>1, <2>3, <3>1 DEF PruneLock, TypeOK, OpFits
    <3>2. CASE q # p
      BY <1>14, <2>5, <3>2 DEF PruneLock, TypeOK, OpFits, Stamped, Ttl, Follows
    <3> QED BY <3>1, <3>2
  <2> QED BY <1>14, <2>8, <2>9, RecordsUntouched DEF PruneLock
<1>15. ASSUME NEW p \in Procs, NEW s \in Sessions, PruneRemove(p, s) PROVE IInv'
  <2>1. \A q \in Procs : Writing(q) => q # p /\ op[q].s # s
    BY <1>15 DEF PruneRemove, TypeOK, Writing
  <2>2. op[p] \in PruneOps /\ op[p].at <= now
    BY <1>15 DEF PruneRemove, OpFits
  <2>3. op'[p] = [op[p] EXCEPT !.removed = @ \/ MayRemove(s, op[p].at)]
    BY <1>15 DEF PruneRemove, TypeOK
  <2>4. MayRemove(s, op[p].at) \in BOOLEAN
    BY DEF MayRemove, Expired
  <2>5. op'[p] \in PruneOps /\ op'[p].at = op[p].at
    BY <2>2, <2>3, <2>4 DEF PruneOps
  <2>6. \A q \in Procs : q # p => pc'[q] = pc[q] /\ op'[q] = op[q]
    BY <1>15 DEF PruneRemove, TypeOK
  <2>7. op' \in [Procs -> Ops]
    BY <1>15, <2>5 DEF PruneRemove, TypeOK, Ops
  <2>8. \A q \in Procs : pc'[q] \in {"check", "rename", "sync"} => lock'[op'[q].s] = q
    BY <1>15, <2>1, <2>6 DEF PruneRemove, TypeOK, Writing, OpFits
  <2>9. TypeOK'
    BY <1>15, <2>7, <2>8 DEF PruneRemove, TypeOK
  <2>10. ASSUME NEW q \in Procs PROVE OpFits(q)'
    <3>1. CASE q = p
      BY <1>15, <2>2, <2>5, <3>1 DEF PruneRemove, TypeOK, OpFits
    <3>2. CASE q # p /\ Writing(q)
      <4>1. pc'[q] = pc[q] /\ op'[q] = op[q] /\ now' = now
        BY <1>15, <2>6, <3>2 DEF PruneRemove
      <4>2. mem'[op[q].s] = mem[op[q].s]
        BY <1>15, <2>1, <3>2 DEF PruneRemove, TypeOK, OpFits, Writing
      <4> QED BY <3>2, <4>1, <4>2 DEF OpFits, Stamped, Ttl, Follows, Writing
    <3>3. CASE q # p /\ ~Writing(q)
      BY <1>15, <2>6, <3>3 DEF PruneRemove, OpFits, Writing
    <3> QED BY <3>1, <3>2, <3>3
  <2>11. \A t \in Sessions : {mem'[t], dur'[t]} \subseteq since'[t]
    BY <1>15 DEF PruneRemove, TypeOK
  <2>12. \A t \in Sessions : \A r \in since'[t] : Stamped(r)
    BY <1>15 DEF PruneRemove, TypeOK, Stamped
  <2> QED BY <2>9, <2>10, <2>11, <2>12 DEF Stamped, Ttl
<1>16. ASSUME NEW p \in Procs, PruneSync(p) PROVE IInv'
  <2>1. dur' \in [Sessions -> Records \cup {Absent}] /\ dur' \in {mem, dur}
    BY <1>16 DEF PruneSync, TypeOK
  <2>2. TypeOK' /\ \A q \in Procs : OpFits(q)'
    BY <1>16, <2>1, ReturnKeeps DEF PruneSync, TypeOK, Return
  <2>3. \A s \in Sessions : {mem'[s], dur'[s]} \subseteq since'[s]
    BY <1>16, <2>1 DEF PruneSync
  <2>4. \A s \in Sessions : \A r \in since'[s] : Stamped(r)
    BY <1>16 DEF PruneSync
  <2> QED BY <2>2, <2>3, <2>4 DEF Stamped, Ttl
<1>17. ASSUME NEW p \in Procs, Die(p) PROVE IInv'
  <2>1. faults' \in 0..MaxFaults /\ snap' \in [Procs -> Snaps]
    BY <1>17, StoreAssumption DEF Die, TypeOK, Snaps
  <2>2. TypeOK' /\ \A q \in Procs : OpFits(q)'
    BY <1>17, <2>1, ReturnKeeps DEF Die, TypeOK, Return
  <2> QED BY <1>17, <2>2, RecordsUntouched DEF Die
<1>18. CASE UNCHANGED vars
  <2>1. TypeOK' /\ \A q \in Procs : OpFits(q)'
    BY <1>18 DEF vars, TypeOK, OpFits, Stamped, Ttl, Follows
  <2> QED BY <1>18, <2>1, RecordsUntouched DEF vars
<1> HIDE DEF IInv
<1> QED BY <1>1, <1>2, <1>3, <1>4, <1>5, <1>6, <1>7, <1>8, <1>9, <1>10, <1>11, <1>12, <1>13,
           <1>14, <1>15, <1>16, <1>17, <1>18 DEF Next, Step

(* The invariant holds of every reachable state.                           *)
LEMMA Invariance == Spec => []IInv
BY InitIInv, StepIInv, PTL DEF Spec

(* The store's variables keep their types and writers hold their lock, for *)
(* every number of sessions and processes.                                 *)
THEOREM TypeCorrect == Spec => []TypeOK
<1>1. IInv => TypeOK
  BY DEF IInv
<1> QED BY <1>1, Invariance, PTL

(* No crash and no loss of power takes a session behind an acknowledged    *)
(* write (_write_record).                                                  *)
THEOREM AcknowledgedSurvives == Spec => []AckedSurvives
<1>1. IInv => AckedSurvives
  BY DEF IInv, AckedSurvives
<1> QED BY <1>1, Invariance, PTL
-----------------------------------------------------------------------------
(* What a prune removes had expired when prune_expired was called.         *)
LEMMA RemovedHadExpired ==
    ASSUME IInv, NEW p \in Procs, NEW s \in Sessions, PruneRemove(p, s), mem'[s] # mem[s]
    PROVE  /\ mem[s] \in Records /\ mem[s].expires <= now
           /\ mem[s].updated + Ttl(mem[s]) <= now
<1>1. op[p].at \in Nat /\ op[p].at <= now /\ now \in Nat
  BY DEF IInv, TypeOK, OpFits, PruneRemove, PruneOps
<1>2. mem[s] # Absent /\ mem[s].expires <= op[p].at
  BY DEF IInv, TypeOK, PruneRemove, MayRemove, Expired
<1>3. mem[s] \in Records /\ Stamped(mem[s])
  BY <1>2 DEF IInv, TypeOK
<1>4. mem[s].expires \in Nat /\ mem[s].expires = mem[s].updated + Ttl(mem[s])
  BY <1>2, <1>3 DEF Records, Stamped
<1> QED BY <1>1, <1>2, <1>3, <1>4

(* A step other than these three leaves the records a reader finds alone.  *)
LEMMA ReadersUndisturbed ==
    ASSUME IInv, [Next]_vars, ~PowerLoss,
           \A p \in Procs : ~Rename(p) /\ \A s \in Sessions : ~PruneRemove(p, s)
    PROVE  mem' = mem
BY DEF Next, Step, vars, Tick, WriteBack, Load, CallCreate, CallCas, Acquire, Refused, Stage,
       Sync, Unavailable, CallPrune, PruneLock, PruneSync, Die

(* Pruning takes no session away before its retention has run out, however *)
(* the scan, the writers and the clock interleave (prune_expired).         *)
THEOREM PrunesOnlyExpired == Spec => PruneOnlyExpired
<1> DEFINE Kept == \A s \in Sessions :
                      (mem[s] # Absent /\ mem'[s] = Absent /\ ~PowerLoss) =>
                         mem[s].updated + (IF mem[s].terminal THEN TerminalTtl ELSE ActiveTtl)
                             <= now
<1>1. ASSUME IInv, [Next]_vars PROVE [Kept]_vars
  <2> SUFFICES ASSUME NEW s \in Sessions, mem[s] # Absent, mem'[s] = Absent, ~PowerLoss
               PROVE  mem[s].updated + Ttl(mem[s]) <= now
    BY DEF Ttl
  <2>1. CASE \E p \in Procs : Rename(p)
    <3>1. PICK p \in Procs : Rename(p)
      BY <2>1
    <3>2. op[p].record \in Records /\ op[p].s \in Sessions
      BY <1>1, <3>1 DEF IInv, OpFits, Rename
    <3>3. op[p].record # Absent
      BY <3>2, RecordsArePresent
    <3> QED BY <1>1, <3>1, <3>2, <3>3 DEF Rename, IInv, TypeOK
  <2>2. CASE \E p \in Procs, t \in Sessions : PruneRemove(p, t)
    <3>1. PICK p \in Procs, t \in Sessions : PruneRemove(p, t)
      BY <2>2
    <3>2. t = s
      BY <1>1, <3>1 DEF PruneRemove, IInv, TypeOK
    <3> QED BY <1>1, <3>1, <3>2, RemovedHadExpired
  <2> QED BY <1>1, <2>1, <2>2, ReadersUndisturbed
<1> QED BY <1>1, Invariance, PTL DEF Spec, PruneOnlyExpired

-----------------------------------------------------------------------------
(* Every step of the store is one of the register, or none.                *)
LEMMA StepImplements == IInv /\ [Next]_vars => [Register!Next]_(Register!vars)
<1> SUFFICES ASSUME IInv, [Next]_vars PROVE [Register!Next]_(Register!vars)
  OBVIOUS
<1> USE DEF Register!Next, Register!vars
<1>1. CASE Tick
  BY <1>1 DEF Tick, Register!Tick, IInv, TypeOK
<1>2. CASE PowerLoss
  <2>1. mem' = [s \in Sessions |-> mem'[s]]
    BY <1>2 DEF PowerLoss, IInv, TypeOK
  <2>2. \A s \in Sessions : mem'[s] \in since[s]
    BY <1>2 DEF PowerLoss, IInv
  <2> QED BY <1>2, <2>1, <2>2 DEF PowerLoss, Register!PowerLoss
<1>3. ASSUME NEW p \in Procs, Rename(p) PROVE Register!Next
  <2> DEFINE s == op[p].s
  <2>1. s \in Sessions /\ op[p].record \in Records /\ Follows(mem[s], op[p].record)
    BY <1>3 DEF Rename, IInv, OpFits
  <2>2. mem'[s] = op[p].record /\ mem'[s] # Absent
    BY <1>3, <2>1, RecordsArePresent DEF Rename, IInv, TypeOK
  <2>3. Register!Write(s, mem'[s])
    BY <1>3, <2>2 DEF Rename, Register!Write
  <2>4. Register!Create(s) \/ Register!Replace(s)
    BY <2>1, <2>2, <2>3 DEF Follows, Register!Create, Register!Replace, Absent, Register!Absent
  <2> QED BY <2>1, <2>4
<1>4. ASSUME NEW p \in Procs, Sync(p) PROVE Register!Next
  <2>1. op[p].s \in Sessions /\ mem[op[p].s] = op[p].record
    BY <1>4 DEF Sync, IInv, OpFits
  <2> QED BY <1>4, <2>1 DEF Sync, Register!Acknowledge
<1>5. ASSUME NEW p \in Procs, NEW s \in Sessions, PruneRemove(p, s)
      PROVE  Register!Next \/ UNCHANGED Register!vars
  <2>1. CASE MayRemove(s, op[p].at)
    <3>1. mem'[s] = Absent /\ mem[s] # Absent
      BY <1>5, <2>1 DEF PruneRemove, MayRemove, Expired, IInv, TypeOK
    <3>2. mem[s].expires <= now
      BY <1>5, <3>1, RemovedHadExpired
    <3>3. Register!Write(s, Absent)
      BY <1>5, <2>1 DEF PruneRemove, Register!Write
    <3> QED BY <3>1, <3>2, <3>3 DEF Register!Expire, Absent, Register!Absent
  <2>2. CASE ~MayRemove(s, op[p].at)
    BY <1>5, <2>2 DEF PruneRemove, IInv, TypeOK
  <2> QED BY <2>1, <2>2
<1>6. CASE \/ \E s \in Sessions : WriteBack(s)
           \/ \E p \in Procs :
                 \/ \E s \in Sessions : Load(p, s) \/ CallCreate(p, s) \/ PruneLock(p, s)
                 \/ CallCas(p) \/ CallPrune(p) \/ Acquire(p) \/ Refused(p) \/ Stage(p)
                 \/ Unavailable(p) \/ PruneSync(p) \/ Die(p)
           \/ UNCHANGED vars
  BY <1>6 DEF vars, WriteBack, Load, CallCreate, CallCas, Acquire, Refused, Stage, Unavailable,
              CallPrune, PruneLock, PruneSync, Die
<1> QED BY <1>1, <1>2, <1>3, <1>4, <1>5, <1>6 DEF Next, Step

(* The file store is the register its callers take it for: created once,   *)
(* advancing by one revision, gone only when expired, and never behind an  *)
(* acknowledged write (create, compare_and_swap, prune_expired).           *)
THEOREM StoreImplementsRegister == Spec => ImplementsRegister
<1>1. Init => Register!Init
  BY DEF Init, Register!Init, Absent, Register!Absent
<1> QED BY <1>1, StepImplements, Invariance, PTL
        DEF Spec, ImplementsRegister, Register!Spec
=============================================================================
