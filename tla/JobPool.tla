------------------------------ MODULE JobPool ------------------------------
(***************************************************************************)
(* The panel's background jobs: the registries backup_jobs.rs and          *)
(* file_jobs.rs, which are alike, and the workers that their requests      *)
(* spawn (routes/maintenance.rs).  A registry is a map behind a mutex; it  *)
(* keeps Limit jobs by dropping the oldest finished ones whenever one is   *)
(* added.  A semaphore lets Workers of them work at once.  A backup        *)
(* schedule started by hand takes a permit of the same semaphore and has   *)
(* no job.  Nothing of this outlives the process.                          *)
(***************************************************************************)
EXTENDS Naturals, FiniteSets

CONSTANTS
  Jobs,        \* jobs that requests make: a job's id is random and never again used
  Schedules,   \* schedules that are run by hand
  Limit,       \* BACKUP_JOB_LIMIT, FILE_JOB_LIMIT
  Workers,     \* BACKUP_JOB_WORKERS, FILE_JOB_WORKERS
  MaxTime,     \* bound: seconds
  MaxRestarts  \* bound: how often the panel restarts

ASSUME ConstantsAssumption ==
  /\ IsFiniteSet(Jobs) /\ IsFiniteSet(Schedules) /\ Jobs \cap Schedules = {}
  /\ Limit \in Nat /\ Workers \in Nat \ {0}
  /\ MaxTime \in Nat /\ MaxRestarts \in Nat

VARIABLES
  now,       \* the second
  created,   \* each job's created_at
  sequence,  \* each job's sequence, 0 before it has one
  next,      \* NEXT, the last sequence given
  status,    \* each job in the registry, "none" for those that are not in it
  task,      \* the request's, then the worker's next step
  free,      \* permits of the semaphore
  restarts

vars == <<now, created, sequence, next, status, task, free, restarts>>

Tasks    == Jobs \cup Schedules
InFlight == {"queued", "running"}
Ends     == {"done", "error"}

\* A worker has a permit from acquire_owned to its end.
Holding == {"held", "work", "tell"}

Registry == {j \in Jobs : status[j] # "none"}

Init ==
  /\ now = 0 /\ restarts = 0 /\ next = 0
  /\ created = [j \in Jobs |-> 0]
  /\ sequence = [j \in Jobs |-> 0]
  /\ status = [j \in Jobs |-> "none"]
  /\ task = [t \in Tasks |-> "none"]
  /\ free = Workers

Tick ==
  /\ now < MaxTime
  /\ now' = now + 1
  /\ UNCHANGED <<created, sequence, next, status, task, free, restarts>>

-----------------------------------------------------------------------------
(* Requests. *)

\* `new_job`.
Make(j) ==
  /\ task[j] = "none" /\ sequence[j] = 0
  /\ task' = [task EXCEPT ![j] = "made"]
  /\ created' = [created EXCEPT ![j] = now]
  /\ UNCHANGED <<now, sequence, next, status, free, restarts>>

\* `next_sequence`: before the registry is locked.
Number(j) ==
  /\ task[j] = "made"
  /\ next' = next + 1
  /\ sequence' = [sequence EXCEPT ![j] = next']
  /\ task' = [task EXCEPT ![j] = "numbered"]
  /\ UNCHANGED <<now, created, status, free, restarts>>

\* The order in which `remember` sorts what may go: by second, then by number.
Older(a, b) ==
  \/ created[a] < created[b]
  \/ created[a] = created[b] /\ sequence[a] < sequence[b]

\* Slip: the jobs in flight are counted among those that may go.
SlipRemovable == Registry

\* A queued job is not removable, so neither is the one that is added.
Removable == {j \in Registry : status[j] \notin InFlight}

\* Slip: the newest finished jobs go.
SlipEvicted(j) ==
  {v \in Removable :
     Cardinality({w \in Removable : Older(v, w)}) + Limit < Cardinality(Registry \cup {j})}

\* Slip: one more than Limit is let stay.
SlipEvictedLate(j) ==
  {v \in Removable :
     Cardinality({w \in Removable : Older(w, v)}) + Limit + 1 < Cardinality(Registry \cup {j})}

\* The oldest of them, as many as there are too many.
Evicted(j) ==
  {v \in Removable :
     Cardinality({w \in Removable : Older(w, v)}) + Limit < Cardinality(Registry \cup {j})}

\* `remember`, and the spawn that follows it in the same request.
Queue(j) ==
  /\ task[j] = "numbered"
  /\ status' = [k \in Jobs |-> IF k = j THEN "queued"
                               ELSE IF k \in Evicted(j) THEN "none" ELSE status[k]]
  /\ task' = [task EXCEPT ![j] = "waiting"]
  /\ UNCHANGED <<now, created, sequence, next, free, restarts>>

\* `run_backup_schedule_now`.
RunByHand(s) ==
  /\ task[s] = "none"
  /\ task' = [task EXCEPT ![s] = "waiting"]
  /\ UNCHANGED <<now, created, sequence, next, status, free, restarts>>

-----------------------------------------------------------------------------
(* Workers. *)

\* `worker_permit`.
Acquire(t) ==
  /\ task[t] = "waiting"
  /\ free > 0
  /\ free' = free - 1
  /\ task' = [task EXCEPT ![t] = "held"]
  /\ UNCHANGED <<now, created, sequence, next, status, restarts>>

\* `update`: in place, or nothing when the job is gone.
Update(j, s) ==
  status' = IF status[j] = "none" THEN status ELSE [status EXCEPT ![j] = s]

\* `start`.
Start(j) ==
  /\ task[j] = "held"
  /\ Update(j, "running")
  /\ task' = [task EXCEPT ![j] = "work"]
  /\ UNCHANGED <<now, created, sequence, next, free, restarts>>

\* `finish`: the job is marked before the administrators are told.
Finish(j) ==
  /\ task[j] = "work"
  /\ \E s \in Ends : Update(j, s)
  /\ task' = [task EXCEPT ![j] = "tell"]
  /\ UNCHANGED <<now, created, sequence, next, free, restarts>>

\* Slip: the permit is forgotten.
SlipForget(t) ==
  /\ task[t] = (IF t \in Jobs THEN "tell" ELSE "held")
  /\ task' = [task EXCEPT ![t] = "over"]
  /\ UNCHANGED <<now, created, sequence, next, status, free, restarts>>

\* The end of the spawned task drops its permit: a job's after `tell_backup`,
\* a schedule's after `run_schedule`.
Release(t) ==
  /\ task[t] = (IF t \in Jobs THEN "tell" ELSE "held")
  /\ task' = [task EXCEPT ![t] = "over"]
  /\ free' = free + 1
  /\ UNCHANGED <<now, created, sequence, next, status, restarts>>

\* A restart, or a panic anywhere in the panel.  The sequences begin again in
\* the code; here they go on, which nothing can tell in an empty registry.
Restart ==
  /\ restarts < MaxRestarts
  /\ restarts' = restarts + 1
  /\ status' = [j \in Jobs |-> "none"]
  /\ task' = [t \in Tasks |-> IF task[t] = "none" THEN "none" ELSE "over"]
  /\ free' = Workers
  /\ UNCHANGED <<now, created, sequence, next>>

Request(j) == Make(j) \/ Number(j) \/ Queue(j)
Work(t)    == (t \in Jobs /\ (Start(t) \/ Finish(t))) \/ Release(t)

Next ==
  \/ Tick \/ Restart
  \/ \E j \in Jobs : Request(j)
  \/ \E s \in Schedules : RunByHand(s)
  \/ \E t \in Tasks : Acquire(t) \/ Work(t)

\* A free permit goes to one that waits, and a backup and the mail after it end
\* one way or another.  That the semaphore serves its waiters in turn is not
\* needed, as no task comes twice.
Fairness ==
  /\ WF_vars(\E t \in Tasks : Acquire(t))
  /\ WF_vars(\E t \in Tasks : Work(t))

Spec     == Init /\ [][Next]_vars
FairSpec == Spec /\ Fairness

-----------------------------------------------------------------------------
(* Properties *)

TypeOK ==
  /\ now \in 0..MaxTime /\ restarts \in 0..MaxRestarts /\ next \in Nat
  /\ created \in [Jobs -> 0..MaxTime] /\ sequence \in [Jobs -> Nat]
  /\ status \in [Jobs -> {"none"} \cup InFlight \cup Ends]
  /\ task \in [Tasks -> {"none", "made", "numbered", "waiting", "over"} \cup Holding]
  /\ free \in 0..Workers

\* "a job still running is never evicted while it runs" (backup_jobs.rs, the
\* module's documentation): a worker finds its job, in the state it left it.
WorkersFindTheirJob ==
  \A j \in Jobs :
    /\ task[j] \in {"waiting", "held"} => status[j] = "queued"
    /\ task[j] = "work" => status[j] = "running"

\* "the work itself is limited to two at a time", schedules run by hand
\* included, and no permit is lost or made (`worker_permit`).
WorkersBounded ==
  free + Cardinality({t \in Tasks : task[t] \in Holding}) = Workers

\* "drops the oldest finished ones": a job leaves the registry only when
\* another is added, and no finished job that stays is older than one that
\* goes (`remember`).
OldestGoFirst ==
  [][restarts' = restarts =>
       \A v \in Jobs : status[v] # "none" /\ status'[v] = "none" =>
         /\ status[v] \in Ends
         /\ \A w \in Jobs : status'[w] \in Ends => ~Older(w, v)]_vars

\* "holds fifty entries": right after a job is added, there are no more than
\* Limit, or nothing but jobs in flight (`remember`).
CutToLimit ==
  [][\A j \in Jobs : status[j] = "none" /\ status'[j] = "queued" =>
       \/ Cardinality({k \in Jobs : status'[k] # "none"}) <= Limit
       \/ \A k \in Jobs : status'[k] \in InFlight \cup {"none"}]_vars

\* A job that is queued ends, or the panel restarts (`finish`).
QueuedEnds ==
  \A j \in Jobs : status[j] = "queued" ~> status[j] \in Ends \cup {"none"}

\* The registry and its workers implement JobLife.
Abstract ==
  INSTANCE JobLife WITH
    life <- [j \in Jobs |-> IF status[j] # "none" THEN status[j]
                            ELSE IF task[j] = "over" THEN "gone"
                            ELSE IF task[j] = "tell" THEN "gone" ELSE "new"]

KeepsThePromise == Abstract!Spec
=============================================================================
