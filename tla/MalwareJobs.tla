---------------------------- MODULE MalwareJobs ----------------------------
(***************************************************************************)
(* The registry of malware scan jobs (snpanel-api/src/malware_jobs.rs): a  *)
(* map and a task table in each process, and one directory of files that   *)
(* all processes share.  The panel and the scheduler's one-shot process    *)
(* (main.rs, run_malware_schedules) both start scans and both read jobs,   *)
(* and every read closes a job whose worker it cannot see.                 *)
(*                                                                         *)
(* One job is followed, from the request that starts it in process home.   *)
(* An edit of the map and the write of the file that follows it are two    *)
(* steps, as in the code, where the write is outside the lock.  Stamps     *)
(* have the resolution of a second: Tick is the next one.                  *)
(***************************************************************************)
EXTENDS Naturals

CONSTANTS
  Panel, Runner,  \* the two processes
  Homes,          \* the ones that may start the job
  Readers,        \* those that read jobs: requests, and workers that tell or isolate
  Own,            \* the ones in the process that starts the job; the panel serves the others
  Verb,           \* "get" or "list"
  MaxTime,        \* bound: seconds
  MaxDeaths,      \* bound: how often that process dies by itself
  NoJob

Procs == {Panel, Runner}

ASSUME ConstantsAssumption ==
  /\ Panel # Runner /\ Homes \subseteq Procs
  /\ Own \subseteq Readers
  /\ Verb \in [Readers -> {"get", "list"}]
  /\ MaxTime \in Nat /\ MaxDeaths \in Nat

VARIABLES
  home,     \* the process that starts the job, once for all
  now,      \* the second
  map,      \* each process's copy of the job
  file,     \* the job's file
  task,     \* home's task table has the job's handle
  start,    \* the request that starts the job: its next step
  work,     \* the worker: its next step
  snap,     \* what a writer is about to write: "start", "work"
  reader,   \* each reader's next step
  seen,     \* the copy it took
  answer,   \* the status it answered
  deaths    \* how often home has died

vars == <<home, now, map, file, task, start, work, snap, reader, seen, answer, deaths>>

Final      == {"done", "error"}
Unfinished == {"queued", "running"}
Status     == Unfinished \cup Final \cup {"interrupted"}
Job        == [status : Status, stamp : 0..MaxTime]

\* A worker lives from tokio::spawn to its last statement.
Steps == {"queued", "write_running", "scan", "write_end", "log", "write_log", "forget"}
Live  == work \in Steps

ProcOf(r) == IF r \in Own THEN home ELSE Panel

Init ==
  /\ home \in Homes
  /\ now = 0
  /\ map = [p \in Procs |-> NoJob]
  /\ file = NoJob
  /\ task = FALSE
  /\ start = "map" /\ work = "none"
  /\ snap = [w \in {"start", "work"} |-> NoJob]
  /\ reader = [r \in Readers |-> "idle"]
  /\ seen = [r \in Readers |-> NoJob]
  /\ answer = [r \in Readers |-> "none"]
  /\ deaths = 0

readerVars == <<reader, seen, answer>>

Tick ==
  /\ now < MaxTime
  /\ now' = now + 1
  /\ UNCHANGED <<home, map, file, task, start, work, snap, readerVars, deaths>>

-----------------------------------------------------------------------------
(* `spawn`: remember the job, start the worker, keep its handle. *)

Remember ==
  /\ start = "map"
  /\ LET job == [status |-> "queued", stamp |-> now] IN
       /\ map' = [map EXCEPT ![home] = job]
       /\ snap' = [snap EXCEPT !["start"] = job]
  /\ start' = "write"
  /\ UNCHANGED <<home, now, file, task, work, readerVars, deaths>>

WriteQueued ==
  /\ start = "write"
  /\ file' = snap["start"]
  /\ start' = "spawn"
  /\ UNCHANGED <<home, now, map, task, work, snap, readerVars, deaths>>

SpawnWorker ==
  /\ start = "spawn"
  /\ work' = "queued"
  /\ start' = "keep_handle"
  /\ UNCHANGED <<home, now, map, file, task, snap, readerVars, deaths>>

\* The worker may be over by now: the handle is kept all the same.
KeepHandle ==
  /\ start = "keep_handle"
  /\ task' = TRUE
  /\ start' = "started"
  /\ UNCHANGED <<home, now, map, file, work, snap, readerVars, deaths>>

-----------------------------------------------------------------------------
(* The worker: `run_website_scan_job` and the others. *)

\* `update`: the map's copy is edited; its stamp is not, having one already.
Edit(status) ==
  /\ map' = [map EXCEPT ![home].status = status]
  /\ snap' = [snap EXCEPT !["work"] = map'[home]]

Begin ==
  /\ work = "queued"
  /\ Edit("running")
  /\ work' = "write_running"
  /\ UNCHANGED <<home, now, file, task, start, readerVars, deaths>>

\* A scan ends with a result, or with an error when it could not be run.
End(status) ==
  /\ work = "scan"
  /\ Edit(status)
  /\ work' = "write_end"
  /\ UNCHANGED <<home, now, file, task, start, readerVars, deaths>>

\* `append_log` stamps the job: a line as the scan goes, the last one after it.
Log ==
  /\ work \in {"scan", "log"}
  /\ map' = [map EXCEPT ![home].stamp = now]
  /\ snap' = [snap EXCEPT !["work"] = map'[home]]
  /\ work' = IF work = "scan" THEN "write_running" ELSE "write_log"
  /\ UNCHANGED <<home, now, file, task, start, readerVars, deaths>>

AfterWrite(step) ==
  CASE step = "write_running" -> "scan"
    [] step = "write_end"     -> "log"
    [] step = "write_log"     -> "forget"

\* Slip: what was closed is taken to be over.
SlipWorkerWrites ==
  /\ work \in {"write_running", "write_end", "write_log"}
  /\ file' = IF file # NoJob /\ file.status = "interrupted" THEN file ELSE snap["work"]
  /\ work' = AfterWrite(work)
  /\ UNCHANGED <<home, now, map, task, start, snap, readerVars, deaths>>

\* The file is written over, whatever a reader has made of it meanwhile.
WorkerWrites ==
  /\ work \in {"write_running", "write_end", "write_log"}
  /\ file' = snap["work"]
  /\ work' = AfterWrite(work)
  /\ UNCHANGED <<home, now, map, task, start, snap, readerVars, deaths>>

\* `forget_task`: nothing happens when the handle is not kept yet.
Forget ==
  /\ work = "forget"
  /\ task' = FALSE
  /\ work' = "over"
  /\ UNCHANGED <<home, now, map, file, start, snap, readerVars, deaths>>

-----------------------------------------------------------------------------
(* Readers. *)

\* `get`: the map's copy, else the file.
Get(r) ==
  /\ reader[r] = "idle" /\ Verb[r] = "get"
  /\ LET own   == map[ProcOf(r)]
         found == IF own # NoJob THEN own ELSE file IN
       IF found = NoJob
       THEN answer' = [answer EXCEPT ![r] = "not_found"] /\ UNCHANGED <<reader, seen>>
       ELSE /\ seen' = [seen EXCEPT ![r] = found]
            /\ reader' = [reader EXCEPT ![r] = "check"]
            /\ UNCHANGED answer
  /\ UNCHANGED <<home, now, map, file, task, start, work, snap, deaths>>

\* `list`, `latest`: the map is copied first, the directory is read later.
Gather(r) ==
  /\ reader[r] = "idle" /\ Verb[r] = "list"
  /\ seen' = [seen EXCEPT ![r] = map[ProcOf(r)]]
  /\ reader' = [reader EXCEPT ![r] = "gather"]
  /\ UNCHANGED <<home, now, map, file, task, start, work, snap, answer, deaths>>

\* `dedupe`: the file comes later in the list and wins a tie.
Newer(own, onDisk) ==
  IF own = NoJob THEN onDisk
  ELSE IF onDisk # NoJob /\ onDisk.stamp >= own.stamp THEN onDisk ELSE own

Dedupe(r) ==
  /\ reader[r] = "gather"
  /\ LET found == Newer(seen[r], file) IN
       IF found = NoJob
       THEN /\ answer' = [answer EXCEPT ![r] = "not_found"]
            /\ reader' = [reader EXCEPT ![r] = "idle"]
            /\ UNCHANGED seen
       ELSE /\ seen' = [seen EXCEPT ![r] = found]
            /\ reader' = [reader EXCEPT ![r] = "check"]
            /\ UNCHANGED answer
  /\ UNCHANGED <<home, now, map, file, task, start, work, snap, deaths>>

\* The reader's process has a handle that is not finished.
Owns(p) == p = home /\ task /\ Live

Answers(r, status) ==
  /\ answer' = [answer EXCEPT ![r] = status]
  /\ seen' = [seen EXCEPT ![r] = NoJob]
  /\ reader' = [reader EXCEPT ![r] = "idle"]

\* Slip: a scan that ended in an error is closed as well.
SlipCheck(r) ==
  /\ reader[r] = "check"
  /\ IF seen[r].status \in {"done", "interrupted"} \/ Owns(ProcOf(r))
     THEN Answers(r, seen[r].status) /\ UNCHANGED task
     ELSE /\ reader' = [reader EXCEPT ![r] = "close"]
          /\ task' = (task /\ ProcOf(r) # home)
          /\ UNCHANGED <<seen, answer>>
  /\ UNCHANGED <<home, now, map, file, start, work, snap, deaths>>

\* `finalize_stale`: a finished job is answered as it is, and so is one whose
\* worker this process runs; otherwise the handle goes and the job is closed.
Check(r) ==
  /\ reader[r] = "check"
  /\ IF seen[r].status \notin Unfinished \/ Owns(ProcOf(r))
     THEN Answers(r, seen[r].status) /\ UNCHANGED task
     ELSE /\ reader' = [reader EXCEPT ![r] = "close"]
          /\ task' = (task /\ ProcOf(r) # home)
          /\ UNCHANGED <<seen, answer>>
  /\ UNCHANGED <<home, now, map, file, start, work, snap, deaths>>

\* Slip: the closed job is remembered, in the map as well as on disk.
SlipCloseRemembers(r) ==
  /\ reader[r] = "close"
  /\ file' = [status |-> "interrupted", stamp |-> now]
  /\ map' = [map EXCEPT ![ProcOf(r)] = file']
  /\ Answers(r, "interrupted")
  /\ UNCHANGED <<home, now, task, start, work, snap, deaths>>

\* Slip: the closed job is answered but not written.
SlipCloseUnwritten(r) ==
  /\ reader[r] = "close"
  /\ Answers(r, "interrupted")
  /\ UNCHANGED <<home, now, map, file, task, start, work, snap, deaths>>

\* `interrupted` and its write: the file, not the map.
Close(r) ==
  /\ reader[r] = "close"
  /\ file' = [status |-> "interrupted", stamp |-> now]
  /\ Answers(r, "interrupted")
  /\ UNCHANGED <<home, now, map, task, start, work, snap, deaths>>

-----------------------------------------------------------------------------
(* Processes end. *)

\* What is lost with home: the map, the tasks, the requests in flight.
HomeEnds ==
  /\ map' = [map EXCEPT ![home] = NoJob]
  /\ task' = FALSE
  /\ start' = "lost" /\ work' = IF work = "over" THEN "over" ELSE "lost"
  /\ snap' = [w \in {"start", "work"} |-> NoJob]
  /\ LET cut == {r \in Readers : ProcOf(r) = home} IN
       /\ reader' = [r \in Readers |-> IF r \in cut THEN "idle" ELSE reader[r]]
       /\ seen' = [r \in Readers |-> IF r \in cut THEN NoJob ELSE seen[r]]
  /\ UNCHANGED <<home, now, file, answer>>

\* A restart, an update, a panic in any task of it.
Die ==
  /\ deaths < MaxDeaths
  /\ start # "lost"
  /\ deaths' = deaths + 1
  /\ HomeEnds

\* The one-shot process waits until its task table has let the job go.
RunnerExits ==
  /\ home = Runner
  /\ start = "started"
  /\ ~task
  /\ HomeEnds
  /\ UNCHANGED deaths

StartStep  == Remember \/ WriteQueued \/ SpawnWorker \/ KeepHandle
WorkerStep == Begin \/ (\E s \in Final : End(s)) \/ Log \/ WorkerWrites \/ Forget
ReaderStep(r) == Get(r) \/ Gather(r) \/ Dedupe(r) \/ Check(r) \/ Close(r)

Next ==
  \/ Tick \/ StartStep \/ WorkerStep \/ Die \/ RunnerExits
  \/ \E r \in Readers : ReaderStep(r)

\* The runtime polls its tasks, a scan ends, the runner looks again every five
\* seconds, and a request that has begun gets to its end.  That there is a
\* request is not assumed.
Fairness ==
  /\ WF_vars(StartStep) /\ WF_vars(WorkerStep) /\ WF_vars(RunnerExits)
  /\ \A r \in Readers : WF_vars(Dedupe(r) \/ Check(r) \/ Close(r))

Spec == Init /\ [][Next]_vars
FairSpec == Spec /\ Fairness

-----------------------------------------------------------------------------
(* Properties *)

TypeOK ==
  /\ home \in Homes /\ now \in 0..MaxTime /\ deaths \in 0..MaxDeaths
  /\ map \in [Procs -> Job \cup {NoJob}] /\ file \in Job \cup {NoJob}
  /\ task \in BOOLEAN
  /\ start \in {"map", "write", "spawn", "keep_handle", "started", "lost"}
  /\ work \in {"none", "over", "lost"} \cup Steps
  /\ snap \in [{"start", "work"} -> Job \cup {NoJob}]
  /\ reader \in [Readers -> {"idle", "gather", "check", "close"}]
  /\ seen \in [Readers -> Job \cup {NoJob}]
  /\ answer \in [Readers -> Status \cup {"none", "not_found"}]

\* The end of a scan, once in the map, stays there while the process lives:
\* closing a stale copy never reaches the map (`finalize_stale`).
MapKeepsTheEnd ==
  [][map[home] # NoJob /\ map[home].status \in Final
       => map'[home] = NoJob \/ map'[home].status = map[home].status]_vars

Closed    == file # NoJob /\ file.status = "interrupted"
EndOnDisk == file # NoJob /\ file.status \in Final

\* A scan that a reader closed while its worker lives does not stay closed:
\* the worker's next edit, made to the map's copy, goes to the file again
\* (`update`, `append_log`, beside `finalize_stale`), unless it dies before.
ClosedComesBack ==
  (Closed /\ Live /\ work # "forget") ~> (~Closed \/ work = "lost")

\* The end of a scan that is on disk when the worker is over, and nobody is
\* between its look and its write, is there for good: no read made later, in
\* either process, by id or for the list, takes it for a lost scan, also when
\* the process, its map and its tasks are gone (`get`, `dedupe`,
\* `finalize_stale`).
EndStaysOnDisk ==
  [](/\ work = "over" /\ EndOnDisk
     /\ \A r \in Readers : reader[r] = "idle"
     => []EndOnDisk)

\* A scan that lost its worker does not look alive for ever: when requests
\* keep reading the job, its file is closed (`finalize_stale`).
LostIsClosed ==
  []<>(\E r \in Readers : reader[r] = "check") =>
  ((work = "lost" /\ file # NoJob) ~> (file # NoJob => file.status \notin Unfinished))
=============================================================================
