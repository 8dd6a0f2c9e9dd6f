----------------------------- MODULE ImportGate -----------------------------
(***************************************************************************)
(* Accounts put back in the background: DirectAdmin imports, of one archive *)
(* or of several (da_jobs.rs, routes/maintenance.rs), and restores of the  *)
(* panel's own backups (routes/user_restore.rs).  Each kind has a registry *)
(* in memory, and each request looks at the registries before it records   *)
(* its job.  A panel that restarts forgets all of it.                      *)
(* (What JobPool also has goes by another name here, for a module that     *)
(* extends both.)                                                          *)
(***************************************************************************)
EXTENDS Naturals, Sequences, SequencesExt

CONSTANTS
  Singles, Bulks,  \* requests for an import of one archive, of several
  Restores,        \* requests for a restore
  None,
  Files,           \* archives of a bulk import and of a restore
  KeptJobs,        \* KEPT_JOBS
  Disconnects      \* whether callers may go away before they are answered

Imports  == Singles \cup Bulks
GateJobs == Imports \cup Restores

ASSUME GateAssumption ==
  /\ Singles \cap Bulks = {} /\ Imports \cap Restores = {} /\ None \notin GateJobs
  /\ Files \in Nat \ {0} /\ KeptJobs \in Nat \ {0} /\ Disconnects \in BOOLEAN

VARIABLES
  entry,   \* each job's status in its registry; "none" for those that are in none
  pc,      \* the request's next step, then the worker's
  at,      \* how many archives the worker has been through
  done,    \* the restores' counters
  failed,
  kept,    \* the restores' registry, oldest first
  lock     \* the restore that holds that registry over several steps

gateVars == <<entry, pc, at, done, failed, kept, lock>>

Working  == {"begin", "work"}
GateEnds == {"completed", "failed", "done"}

ArchivesOf(j) == IF j \in Singles THEN 1 ELSE Files

GateInit ==
  /\ entry = [j \in GateJobs |-> "none"]
  /\ pc = [j \in GateJobs |-> "look"]
  /\ at = [j \in GateJobs |-> 0]
  /\ done = [r \in Restores |-> 0] /\ failed = [r \in Restores |-> 0]
  /\ kept = <<>>
  /\ lock = None

AnyRunning(kind) == \E j \in kind : entry[j] = "running"

-----------------------------------------------------------------------------
(* Imports: `start_da_import`, `start_da_bulk_import`. *)

\* `any_running` locks one registry after the other; `running`, the third.
\* An answer of 429 ends the request.
LookAt(i, from, kind, to) ==
  /\ pc[i] = from
  /\ pc' = [pc EXCEPT ![i] = IF AnyRunning(kind) THEN "refused" ELSE to]
  /\ UNCHANGED <<entry, at, done, failed, kept, lock>>

Look(i) ==
  \/ LookAt(i, "look", Singles, "bulk")
  \/ LookAt(i, "bulk", Bulks, "restore")
  \/ lock = None /\ LookAt(i, "restore", Restores, "remember")

\* The job is pending; its worker is spawned before anything is awaited.
Remember(i) ==
  /\ pc[i] = "remember"
  /\ entry' = [entry EXCEPT ![i] = "pending"]
  /\ pc' = [pc EXCEPT ![i] = "begin"]
  /\ UNCHANGED <<at, done, failed, kept, lock>>

BeginImport(i) ==
  /\ pc[i] = "begin"
  /\ entry' = [entry EXCEPT ![i] = "running"]
  /\ pc' = [pc EXCEPT ![i] = "work"]
  /\ UNCHANGED <<at, done, failed, kept, lock>>

\* One archive, whatever becomes of it: the next one follows.
Import(i) ==
  /\ pc[i] = "work" /\ at[i] < ArchivesOf(i)
  /\ at' = [at EXCEPT ![i] = @ + 1]
  /\ UNCHANGED <<entry, pc, done, failed, kept, lock>>

\* Slip: a failure is logged, and the job is left as it is.
SlipEndImport(i) ==
  /\ pc[i] = "work" /\ at[i] = ArchivesOf(i)
  /\ entry' \in {entry, [entry EXCEPT ![i] = "completed"]}
  /\ pc' = [pc EXCEPT ![i] = "over"]
  /\ UNCHANGED <<at, done, failed, kept, lock>>

\* A bulk import ends "completed"; its results say which archives failed.
EndImport(i) ==
  /\ pc[i] = "work" /\ at[i] = ArchivesOf(i)
  /\ \E s \in {"completed"} \cup (IF i \in Singles THEN {"failed"} ELSE {}) :
       entry' = [entry EXCEPT ![i] = s]
  /\ pc' = [pc EXCEPT ![i] = "over"]
  /\ UNCHANGED <<at, done, failed, kept, lock>>

-----------------------------------------------------------------------------
(* Restores: `start` and `work`. *)

\* Slip: the other restores are not looked at.
SlipEnter(r) ==
  /\ pc[r] = "look" /\ lock = None
  /\ pc' = [pc EXCEPT ![r] = "singles"]
  /\ lock' = r
  /\ UNCHANGED <<entry, at, done, failed, kept>>

\* The registry is locked from here to the end of `Record`.
Enter(r) ==
  /\ pc[r] = "look" /\ lock = None
  /\ IF AnyRunning(Restores)
       THEN pc' = [pc EXCEPT ![r] = "refused"] /\ UNCHANGED lock
       ELSE pc' = [pc EXCEPT ![r] = "singles"] /\ lock' = r
  /\ UNCHANGED <<entry, at, done, failed, kept>>

\* `any_running`, which locks the imports' registries in between.
LookInside(r, from, kind, to) ==
  /\ pc[r] = from
  /\ IF AnyRunning(kind)
       THEN pc' = [pc EXCEPT ![r] = "refused"] /\ lock' = None
       ELSE pc' = [pc EXCEPT ![r] = to] /\ UNCHANGED lock
  /\ UNCHANGED <<entry, at, done, failed, kept>>

LookAtImports(r) ==
  \/ LookInside(r, "singles", Singles, "bulks")
  \/ LookInside(r, "bulks", Bulks, "record")

\* Slip: the newest jobs are dropped.
SlipTrim(q) == SubSeq(q, 1, IF Len(q) < KeptJobs THEN Len(q) ELSE KeptJobs)

\* The oldest jobs beyond KEPT_JOBS are dropped, whatever their status.
Trim(q) == SubSeq(q, (IF Len(q) > KeptJobs THEN Len(q) - KeptJobs ELSE 0) + 1, Len(q))

Record(r) ==
  /\ pc[r] = "record"
  /\ kept' = Trim(Append(kept, r))
  /\ entry' = [j \in GateJobs |-> IF j = r /\ r \in ToSet(kept') THEN "running"
                                  ELSE IF j \in Restores \ ToSet(kept') THEN "none"
                                  ELSE entry[j]]
  /\ pc' = [pc EXCEPT ![r] = "audit"]
  /\ lock' = None
  /\ UNCHANGED <<at, done, failed>>

\* The audit entry is awaited before the worker is spawned.
Spawn(r) ==
  /\ pc[r] = "audit"
  /\ pc' = [pc EXCEPT ![r] = "work"]
  /\ UNCHANGED <<entry, at, done, failed, kept, lock>>

\* A caller that goes away takes the handler with it, at the await.
Disconnect(r) ==
  /\ Disconnects
  /\ pc[r] = "audit"
  /\ pc' = [pc EXCEPT ![r] = "dropped"]
  /\ UNCHANGED <<entry, at, done, failed, kept, lock>>

\* `change` does nothing for a job that is no longer kept.
Count(r, counter) ==
  IF r \in ToSet(kept) THEN [counter EXCEPT ![r] = @ + 1] ELSE counter

\* Slip: an archive that cannot be fetched is only marked on its item.
SlipFail(r) == UNCHANGED <<done, failed>>

\* The fetch, or the restore, of one archive has failed.
Fail(r) == failed' = Count(r, failed) /\ UNCHANGED done

Restored(r) == done' = Count(r, done) /\ UNCHANGED failed

\* One archive: fetched and restored, or not; the next one follows.
Restore(r) ==
  /\ pc[r] = "work" /\ at[r] < Files /\ lock = None
  /\ Fail(r) \/ Restored(r)
  /\ at' = [at EXCEPT ![r] = @ + 1]
  /\ UNCHANGED <<entry, pc, kept, lock>>

EndRestore(r) ==
  /\ pc[r] = "work" /\ at[r] = Files /\ lock = None
  /\ entry' = IF r \in ToSet(kept) THEN [entry EXCEPT ![r] = "done"] ELSE entry
  /\ pc' = [pc EXCEPT ![r] = "over"]
  /\ UNCHANGED <<at, done, failed, kept, lock>>

-----------------------------------------------------------------------------
Import_(i)  == Look(i) \/ Remember(i) \/ BeginImport(i) \/ Import(i) \/ EndImport(i)
Restore_(r) ==
  Enter(r) \/ LookAtImports(r) \/ Record(r) \/ Spawn(r) \/ Restore(r) \/ EndRestore(r)

GateNext ==
  \/ \E i \in Imports : Import_(i)
  \/ \E r \in Restores : Restore_(r) \/ Disconnect(r)

\* A request and a worker go on; every archive comes to an end.
GateFairness ==
  /\ \A i \in Imports : WF_gateVars(Import_(i))
  /\ \A r \in Restores : WF_gateVars(Restore_(r))

GateSpec == GateInit /\ [][GateNext]_gateVars
GateFairSpec == GateSpec /\ GateFairness

-----------------------------------------------------------------------------
(* Properties *)

GateTypeOK ==
  /\ entry \in [GateJobs -> {"none", "pending", "running"} \cup GateEnds]
  /\ pc \in [GateJobs -> Working \cup {"look", "bulk", "restore", "remember", "singles", "bulks",
                                   "record", "audit", "over", "refused", "dropped"}]
  /\ \A j \in GateJobs : at[j] \in 0..ArchivesOf(j)
  /\ done \in [Restores -> 0..Files] /\ failed \in [Restores -> 0..Files]
  /\ kept \in Seq(Restores) /\ Len(kept) <= KeptJobs /\ IsInjective(kept)
  /\ lock \in Restores \cup {None}

\* "Checked and recorded under one lock, so two clicks cannot both start"
\* (`start`, user_restore.rs): one restore at a time works, or is about to.
OneRestore ==
  \A r, s \in Restores : pc[r] \in {"audit", "work"} /\ pc[s] \in {"audit", "work"} => r = s

\* The restore at work is the newest one kept, however many came before it:
\* the page and the gates see it until it ends (`latest_job`, `running`).
SeenWhileAtWork ==
  \A r \in Restores : pc[r] \in {"audit", "work"} =>
    kept # <<>> /\ Last(kept) = r /\ entry[r] = "running"

\* What has ended has been through every archive and counted each once
\* (`work`).
Tally ==
  \A r \in Restores : entry[r] = "done" =>
    at[r] = Files /\ done[r] + failed[r] = Files

\* Whatever is recorded as pending or running ends, unless its caller has gone
\* away before its worker was spawned (`start_da_import`, `work`).
ComesToAnEnd ==
  \A j \in GateJobs :
    entry[j] \in {"pending", "running"} ~> entry[j] \in GateEnds \/ pc[j] = "dropped"
=============================================================================
