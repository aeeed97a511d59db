-------------------------- MODULE SessionRegister ---------------------------
(***************************************************************************)
(* What the session store promises the coordinator: one register per       *)
(* session that is created once, whose revision advances by one with every *)
(* replacement, that disappears only when its retention has run out, and   *)
(* that a loss of power cannot take behind an acknowledged write.          *)
(***************************************************************************)
EXTENDS Naturals

CONSTANT Sessions

VARIABLES now,      \* the clock
          reg,      \* reg[s]: the record a reader finds, or Absent
          since     \* since[s]: what reg[s] has been since its last acknowledgement

vars == <<now, reg, since>>

Absent == [absent |-> TRUE]

Init == /\ now = 0
        /\ reg = [s \in Sessions |-> Absent]
        /\ since = [s \in Sessions |-> {Absent}]

Tick == now' > now /\ UNCHANGED <<reg, since>>

\* reg[s] becomes v.
Write(s, v) == /\ reg' = [reg EXCEPT ![s] = v]
               /\ since' = [since EXCEPT ![s] = @ \cup {v}]
               /\ UNCHANGED now

Create(s) == /\ reg[s] = Absent
             /\ reg'[s] # Absent /\ reg'[s].rev = 0
             /\ Write(s, reg'[s])

Replace(s) == /\ reg[s] # Absent
              /\ reg'[s] # Absent /\ reg'[s].rev = reg[s].rev + 1
              /\ Write(s, reg'[s])

Expire(s) == /\ reg[s] # Absent /\ reg[s].expires <= now
             /\ Write(s, Absent)

\* A writer is told that what it wrote is stored.
Acknowledge(s) == /\ since' = [since EXCEPT ![s] = {reg[s]}]
                  /\ UNCHANGED <<now, reg>>

\* Writes nobody was told of may be undone.
PowerLoss == /\ reg' = [s \in Sessions |-> reg'[s]]
             /\ \A s \in Sessions : reg'[s] \in since[s]
             /\ UNCHANGED <<now, since>>

Next == \/ Tick \/ PowerLoss
        \/ \E s \in Sessions : Create(s) \/ Replace(s) \/ Acknowledge(s) \/ Expire(s)

Spec == Init /\ [][Next]_vars
=============================================================================
