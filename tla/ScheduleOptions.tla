--------------------------- MODULE ScheduleOptions ---------------------------
(***************************************************************************)
(* A backup schedule is a row of backup_schedules and a row of             *)
(* backup_schedule_options that says where its archives go and how they    *)
(* are named.  The requests that create and delete a schedule write the    *)
(* two one after the other, a run reads them one after the other, and      *)
(* SQLite hands out the id of a deleted last row again.  A schedule is     *)
(* named here by the request that created it, and so are its options.      *)
(* (What BackupTimer also has goes by another name here, for a module that *)
(* extends both.)                                                          *)
(***************************************************************************)
EXTENDS Naturals

CONSTANTS
  Creates,      \* requests that create a schedule
  Deletes,      \* requests, or deleted accounts, that delete one
  Runs,         \* runs of a schedule, by the timer or by hand
  None,
  MaxId,        \* bound: ids
  ForeignKeys,  \* PRAGMA foreign_keys
  Overlap       \* whether requests overlap

Ids      == 1..MaxId
Requests == Creates \cup Deletes

ASSUME OptionsAssumption ==
  /\ None \notin Creates /\ Creates \cap Deletes = {} /\ Runs \cap Requests = {}
  /\ MaxId \in Nat \ {0} /\ ForeignKeys \in BOOLEAN /\ Overlap \in BOOLEAN

VARIABLES
  row,   \* the schedule of each id
  opt,   \* whose options are there for each id
  pc,    \* each request's next step, each run's
  id,    \* the id it is about
  copy,  \* the schedule a run has read
  used   \* whose options a run goes by; None for the default

optionsVars == <<row, opt, pc, id, copy, used>>

OptionsInit ==
  /\ row = [i \in Ids |-> None]
  /\ opt = [i \in Ids |-> None]
  /\ pc = [p \in Requests \cup Runs |-> "new"]
  /\ id = [p \in Requests \cup Runs |-> 1]
  /\ copy = [r \in Runs |-> None]
  /\ used = [r \in Runs |-> None]

InFlight == {p \in Requests : pc[p] \notin {"new", "over", "failed"}}
MayBegin == Overlap \/ InFlight = {}

\* An INTEGER PRIMARY KEY: one more than the largest there is.
NextId == CHOOSE i \in 1..(MaxId + 1) :
  /\ \A k \in Ids : row[k] # None => k < i
  /\ i = 1 \/ row[i - 1] # None

\* The options' row goes with the schedule's where foreign keys are on.
RemoveRow(i) ==
  /\ row' = [row EXCEPT ![i] = None]
  /\ opt' = IF ForeignKeys THEN [opt EXCEPT ![i] = None] ELSE opt

-----------------------------------------------------------------------------
(* `create_backup_schedule`. *)

Insert(c) ==
  /\ pc[c] = "new" /\ MayBegin
  /\ NextId \in Ids
  /\ row' = [row EXCEPT ![NextId] = c]
  /\ id' = [id EXCEPT ![c] = NextId]
  /\ pc' = [pc EXCEPT ![c] = "set"]
  /\ UNCHANGED <<opt, copy, used>>

\* Slip: an options' row that is there already is left as it is.
SlipSet(c) ==
  /\ pc[c] = "set"
  /\ opt' = IF opt[id[c]] = None THEN [opt EXCEPT ![id[c]] = c] ELSE opt
  /\ pc' = [pc EXCEPT ![c] = "over"]
  /\ UNCHANGED <<row, id, copy, used>>

\* `schedule_options().set`, an upsert.  The foreign key refuses it when the
\* schedule has gone meanwhile.
Set(c) ==
  /\ pc[c] = "set"
  /\ ForeignKeys => row[id[c]] # None
  /\ opt' = [opt EXCEPT ![id[c]] = c]
  /\ pc' = [pc EXCEPT ![c] = "over"]
  /\ UNCHANGED <<row, id, copy, used>>

SetFails(c) ==
  /\ pc[c] = "set"
  /\ pc' = [pc EXCEPT ![c] = "undo"]
  /\ UNCHANGED <<row, opt, id, copy, used>>

\* What was created goes again, unless that fails too: the result is dropped.
Undo(c) ==
  /\ pc[c] = "undo"
  /\ RemoveRow(id[c]) \/ UNCHANGED <<row, opt>>
  /\ pc' = [pc EXCEPT ![c] = "failed"]
  /\ UNCHANGED <<id, copy, used>>

-----------------------------------------------------------------------------
(* `delete_backup_schedule`, and `forget_user_in_schedules` for a schedule  *)
(* that is left with no user.                                               *)

Delete(d) ==
  /\ pc[d] = "new" /\ MayBegin
  /\ \E i \in Ids :
       /\ row[i] # None
       /\ RemoveRow(i)
       /\ id' = [id EXCEPT ![d] = i]
  /\ pc' = [pc EXCEPT ![d] = "forget"]
  /\ UNCHANGED <<copy, used>>

\* `forget_schedule_options`; an error is logged.
Forget(d) ==
  /\ pc[d] = "forget"
  /\ opt' = [opt EXCEPT ![id[d]] = None] \/ opt' = opt
  /\ pc' = [pc EXCEPT ![d] = "over"]
  /\ UNCHANGED <<row, id, copy, used>>

-----------------------------------------------------------------------------
(* A run: the timer's sweep lists the schedules, the request by hand does   *)
(* as well; each reads the options when it comes to the schedule.           *)

Read(r) ==
  /\ pc[r] = "new"
  /\ \E i \in Ids :
       /\ row[i] # None
       /\ copy' = [copy EXCEPT ![r] = row[i]]
       /\ id' = [id EXCEPT ![r] = i]
  /\ pc' = [pc EXCEPT ![r] = "listed"]
  /\ UNCHANGED <<row, opt, used>>

\* `schedule_options().get`: no row is the default.
Begin(r) ==
  /\ pc[r] = "listed"
  /\ used' = [used EXCEPT ![r] = opt[id[r]]]
  /\ pc' = [pc EXCEPT ![r] = "running"]
  /\ UNCHANGED <<row, opt, id, copy>>

\* They cannot be read: the run ends with an error.
BeginFails(r) ==
  /\ pc[r] = "listed"
  /\ pc' = [pc EXCEPT ![r] = "over"]
  /\ UNCHANGED <<row, opt, id, copy, used>>

End(r) ==
  /\ pc[r] = "running"
  /\ pc' = [pc EXCEPT ![r] = "over"]
  /\ UNCHANGED <<row, opt, id, copy, used>>

-----------------------------------------------------------------------------
OptionsNext ==
  \/ \E c \in Creates : Insert(c) \/ Set(c) \/ SetFails(c) \/ Undo(c)
  \/ \E d \in Deletes : Delete(d) \/ Forget(d)
  \/ \E r \in Runs : Read(r) \/ Begin(r) \/ BeginFails(r) \/ End(r)

OptionsSpec == OptionsInit /\ [][OptionsNext]_optionsVars

-----------------------------------------------------------------------------
(* Properties *)

\* Each kind of actor keeps to its own steps.
OptionsTypeOK ==
  /\ row \in [Ids -> Creates \cup {None}] /\ opt \in [Ids -> Creates \cup {None}]
  /\ pc \in [Requests \cup Runs -> {"new", "set", "undo", "failed", "forget",
                                      "listed", "running", "over"}]
  /\ \A c \in Creates : pc[c] \in {"new", "set", "undo", "failed", "over"}
  /\ \A d \in Deletes : pc[d] \in {"new", "forget", "over"}
  /\ \A r \in Runs : pc[r] \in {"new", "listed", "running", "over"}
  /\ id \in [Requests \cup Runs -> Ids]
  /\ copy \in [Runs -> Creates \cup {None}] /\ used \in [Runs -> Creates \cup {None}]

\* A schedule whose creation was answered keeps its own options, whoever had
\* its id before (`set`, `forget_schedule_options`).
KeepsItsOptions ==
  \A i \in Ids : row[i] # None /\ pc[row[i]] = "over" => opt[i] = row[i]
=============================================================================
