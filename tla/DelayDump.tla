------------------------------ MODULE DelayDump ------------------------------
(***************************************************************************)
(* The delay configuration a run leaves for its replay                     *)
(* (merge_delay_config_file of src/delay_config_file.cpp, save_delay_config*)
(* of src/delay_inject_config.cu).  Every process of the run saves its     *)
(* kernels into one file, each time it instruments another one and once    *)
(* more when it ends.  The file may be left over from another run or       *)
(* unreadable; a process may fail or be killed at any point.               *)
(*                                                                         *)
(* The delays of a kernel follow from the seed, so an entry of a run's     *)
(* file is determined by its key and a configuration is a set of keys.     *)
(***************************************************************************)
EXTENDS Naturals

CONSTANTS
    Procs,          \* processes of the run that instrument kernels
    DumpKernels,    \* keys of the kernels they may meet
    MaxMishaps      \* bound: operations that fail and processes that are killed

VARIABLES
    dump,       \* delay_dump_path
    flock,      \* the holder of <path>.lock
    proc,       \* each process: its kernels, where it is, what it has merged
    saved,      \* history: kernels whose save returned without an error
    mishaps

dumpvars == <<dump, flock, proc, saved, mishaps>>

Free == "free"
NoFile == [is |-> "absent"]
Unreadable == [is |-> "unreadable"]
Config(run, kernels) == [is |-> "config", run |-> run, kernels |-> kernels]
Fresh == [at |-> "running", own |-> {}, merged |-> {}, last |-> FALSE]

DumpInit ==
    /\ dump \in {NoFile, Unreadable} \cup {Config("another", ks) : ks \in SUBSET DumpKernels}
    /\ flock = Free
    /\ proc = [q \in Procs |-> Fresh]
    /\ saved = {} /\ mishaps = 0

At(q, place) == proc[q].at = place
Move(q, new) == proc' = [proc EXCEPT ![q] = new]
Mishap == mishaps < MaxMishaps /\ mishaps' = mishaps + 1

(* Another kernel is instrumented, or the process ends: save_delay_config. *)
Instrument(q, k) ==
    /\ At(q, "running") /\ k \notin proc[q].own
    /\ Move(q, [proc[q] EXCEPT !.at = "save", !.own = @ \cup {k}])
    /\ UNCHANGED <<dump, flock, saved, mishaps>>

Terminate(q) ==
    /\ At(q, "running")
    /\ Move(q, [proc[q] EXCEPT !.at = "save", !.last = TRUE])
    /\ UNCHANGED <<dump, flock, saved, mishaps>>

Returned(q) == [proc[q] EXCEPT !.at = IF proc[q].last THEN "gone" ELSE "running", !.merged = {}]

-----------------------------------------------------------------------------
(* merge_delay_config_file.                                                *)

(* Mutant: the lock is shared.                                             *)
LockShared(q) ==
    /\ At(q, "save")
    /\ flock' = q
    /\ Move(q, [proc[q] EXCEPT !.at = "read"])
    /\ UNCHANGED <<dump, saved, mishaps>>

(* FileLock; it is released when the function returns or the process dies. *)
Lock(q) ==
    /\ At(q, "save") /\ flock = Free
    /\ flock' = q
    /\ Move(q, [proc[q] EXCEPT !.at = "read"])
    /\ UNCHANGED <<dump, saved, mishaps>>

Unlock(q) == flock' = IF flock = q THEN Free ELSE flock

(* same_run_kernels: nothing of a file that is of another run, unreadable  *)
(* or not there.                                                           *)
SameRunKernels == IF dump.is = "config" /\ dump.run = "this" THEN dump.kernels ELSE {}

(* A configuration without kernels leaves an existing file alone.          *)
ReadAndMerge(q) ==
    /\ At(q, "read")
    /\ IF proc[q].own = {} /\ dump # NoFile
       THEN Move(q, Returned(q)) /\ Unlock(q)
       ELSE /\ Move(q, [proc[q] EXCEPT !.at = "replace",
                                        !.merged = SameRunKernels \cup proc[q].own])
            /\ UNCHANGED flock
    /\ UNCHANGED <<dump, saved, mishaps>>

(* The temporary file is the process's own, so only the rename shows.      *)
Replace(q) ==
    /\ At(q, "replace")
    /\ dump' = Config("this", proc[q].merged)
    /\ saved' = saved \cup proc[q].own
    /\ Move(q, Returned(q)) /\ Unlock(q)
    /\ UNCHANGED mishaps

(* The lock, the temporary file or the rename fails; the error is printed. *)
SaveFails(q) ==
    /\ Mishap
    /\ At(q, "save") \/ At(q, "replace")
    /\ Move(q, Returned(q)) /\ Unlock(q)
    /\ UNCHANGED <<dump, saved>>

Killed(q) ==
    /\ Mishap
    /\ ~At(q, "gone")
    /\ Move(q, [Returned(q) EXCEPT !.at = "gone"]) /\ Unlock(q)
    /\ UNCHANGED <<dump, saved>>

DumpNext ==
    \E q \in Procs :
       \/ \E k \in DumpKernels : Instrument(q, k)
       \/ Terminate(q) \/ Lock(q) \/ ReadAndMerge(q) \/ Replace(q)
       \/ SaveFails(q) \/ Killed(q)

DumpSpec == DumpInit /\ [][DumpNext]_dumpvars

-----------------------------------------------------------------------------
(* The file a replay is given holds every kernel some process of the run   *)
(* has saved, however the processes interleave, fail and die, and nothing  *)
(* that no process of the run has instrumented                             *)
(* (merge_delay_config_file).                                              *)
DumpIsTheRun ==
    /\ saved # {} => dump.is = "config" /\ dump.run = "this" /\ saved \subseteq dump.kernels
    /\ dump.is = "config" /\ dump.run = "this" =>
          dump.kernels \subseteq UNION {proc[q].own : q \in Procs}

=============================================================================
