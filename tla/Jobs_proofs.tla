---------------------------- MODULE Jobs_proofs ------------------------------
(***************************************************************************)
(* Theorems about what the panel does in the background.                   *)
(*                                                                         *)
(* Backup and file jobs (JobPool): for every number of jobs, of workers    *)
(* and every limit, the registry and its workers agree, no permit is lost, *)
(* the oldest finished jobs go first, and JobPool implements JobLife.      *)
(*                                                                         *)
(* Imports and restores (ImportGate): the restores' half of the gate holds *)
(* for any number of requests, of archives and of kept jobs: one restore   *)
(* at a time, seen until it ends, and every archive counted once.          *)
(***************************************************************************)
EXTENDS JobPool, ImportGate, FiniteSetTheorems, SequenceTheorems, TLAPS

Holders == {t \in Tasks : task[t] \in Holding}

\* A job's entry, as far as its worker's step tells it.  The properties need
\* the steps before the queue and after the end as well.
Agreed(j) ==
  /\ task[j] \in {"none", "made", "numbered"} => status[j] = "none"
  /\ task[j] \in {"waiting", "held"} => status[j] = "queued"
  /\ task[j] = "work" => status[j] = "running"
  /\ task[j] \in {"tell", "over"} => status[j] \in Ends \cup {"none"}

\* Only jobs are made or numbered; only jobs work and tell.
ByHand == \A s \in Schedules : task[s] \in {"none", "waiting", "held", "over"}

AllAgreed == \A j \in Jobs : Agreed(j)

IInv == TypeOK /\ ByHand /\ AllAgreed /\ WorkersBounded

-----------------------------------------------------------------------------
(* The holders of permits, counted. *)

LEMMA HoldersFinite == IsFiniteSet(Tasks) /\ \A S \in SUBSET Tasks : IsFiniteSet(S) /\ Cardinality(S) \in Nat
  BY ConstantsAssumption, FS_Union, FS_Subset, FS_CardinalityType DEF Tasks

\* A task that takes a permit is one more holder, one that ends is one less.
LEMMA HoldersCount ==
  ASSUME NEW t \in Tasks
  PROVE  /\ t \notin Holders => Cardinality(Holders \cup {t}) = Cardinality(Holders) + 1
         /\ t \in Holders => Cardinality(Holders \ {t}) = Cardinality(Holders) - 1
  <1>1. IsFiniteSet(Holders)
    BY HoldersFinite DEF Holders
  <1>2. QED
    BY <1>1, FS_AddElement, FS_RemoveElement

\* A step that moves one task changes the holders by that task alone.
LEMMA HoldersStep ==
  ASSUME TypeOK, NEW t \in Tasks, NEW x, task' = [task EXCEPT ![t] = x]
  PROVE  /\ x \in Holding => Holders' = Holders \cup {t}
         /\ x \notin Holding => Holders' = Holders \ {t}
  <1>1. \A u \in Tasks : task'[u] = IF u = t THEN x ELSE task[u]
    BY DEF TypeOK
  <1>2. QED
    BY <1>1 DEF Holders

LEMMA BoundedIsHolders == WorkersBounded <=> free + Cardinality(Holders) = Workers
  BY DEF WorkersBounded, Holders

-----------------------------------------------------------------------------
LEMMA InitInv == Init => IInv
  <1> SUFFICES ASSUME Init PROVE IInv
    OBVIOUS
  <1>1. TypeOK
    BY ConstantsAssumption DEF Init, TypeOK
  <1>2. ByHand /\ AllAgreed
    BY DEF Init, ByHand, AllAgreed, Agreed, Tasks
  <1>3. WorkersBounded
    <2>1. Holders = {}
      BY DEF Init, Holders, Holding
    <2>2. QED
      BY <2>1, FS_EmptySet, ConstantsAssumption, BoundedIsHolders DEF Init
  <1>4. QED
    BY <1>1, <1>2, <1>3 DEF IInv

\* The permits: a step keeps their sum, and their number in range.
LEMMA PermitsStep == IInv /\ [Next]_vars => WorkersBounded' /\ free' \in 0..Workers
  <1> SUFFICES ASSUME IInv, [Next]_vars
               PROVE  free' + Cardinality(Holders') = Workers /\ free' \in 0..Workers
    BY DEF WorkersBounded, Holders
  <1> USE DEF IInv
  <1>0. /\ free \in Nat /\ Cardinality(Holders) \in Nat /\ Cardinality(Holders') \in Nat
        /\ free + Cardinality(Holders) = Workers /\ Workers \in Nat
    BY HoldersFinite, BoundedIsHolders, ConstantsAssumption DEF TypeOK, Holders
  <1>1. ASSUME free' = free, Holders' = Holders
        PROVE  free' + Cardinality(Holders') = Workers /\ free' \in 0..Workers
    BY <1>0, <1>1
  <1>2. CASE Tick \/ UNCHANGED vars
    BY <1>1, <1>2 DEF Tick, vars, Holders
  <1>3. CASE Restart
    <2>1. \A t \in Tasks : task'[t] \in {"none", "over"}
      BY <1>3 DEF Restart
    <2>2. Holders' = {}
      BY <2>1 DEF Holders, Holding
    <2>3. QED
      BY <1>0, <1>3, <2>2, FS_EmptySet DEF Restart
  <1>4. ASSUME NEW j \in Jobs, Request(j)
        PROVE  free' + Cardinality(Holders') = Workers /\ free' \in 0..Workers
    <2>1. PICK x \in {"made", "numbered", "waiting"} : task' = [task EXCEPT ![j] = x]
      BY <1>4 DEF Request, Make, Number, Queue
    <2>2. j \in Tasks /\ j \notin Holders
      BY <1>4 DEF Tasks, Request, Make, Number, Queue, Holders, Holding
    <2>3. Holders' = Holders \ {j}
      <3>1. x \notin Holding
        BY DEF Holding
      <3>2. QED
        BY <2>1, <2>2, <3>1, HoldersStep
    <2>4. free' = free
      BY <1>4 DEF Request, Make, Number, Queue
    <2>5. QED
      BY <1>1, <2>2, <2>3, <2>4
  <1>5. ASSUME NEW s \in Schedules, RunByHand(s)
        PROVE  free' + Cardinality(Holders') = Workers /\ free' \in 0..Workers
    <2>1. s \in Tasks /\ s \notin Holders
      BY <1>5 DEF Tasks, RunByHand, Holders, Holding
    <2>2. Holders' = Holders \ {s}
      <3>1. task' = [task EXCEPT ![s] = "waiting"] /\ "waiting" \notin Holding
        BY <1>5 DEF RunByHand, Holding
      <3>2. QED
        BY <2>1, <3>1, HoldersStep
    <2>3. QED
      BY <1>1, <1>5, <2>1, <2>2 DEF RunByHand
  <1>6. ASSUME NEW t \in Tasks, Acquire(t)
        PROVE  free' + Cardinality(Holders') = Workers /\ free' \in 0..Workers
    <2>1. t \notin Holders
      BY <1>6 DEF Acquire, Holders, Holding
    <2>2. Holders' = Holders \cup {t}
      BY <1>6, HoldersStep DEF Acquire, Holding
    <2>3. Cardinality(Holders') = Cardinality(Holders) + 1
      BY <2>1, <2>2, HoldersCount
    <2>4. QED
      BY <1>0, <1>6, <2>3 DEF Acquire
  <1>7. ASSUME NEW t \in Jobs, Start(t) \/ Finish(t)
        PROVE  free' + Cardinality(Holders') = Workers /\ free' \in 0..Workers
    <2>1. PICK x \in {"work", "tell"} : task' = [task EXCEPT ![t] = x]
      BY <1>7 DEF Start, Finish
    <2>2. t \in Tasks /\ t \in Holders
      BY <1>7 DEF Tasks, Start, Finish, Holders, Holding
    <2>3. Holders' = Holders \cup {t}
      <3>1. x \in Holding
        BY DEF Holding
      <3>2. QED
        BY <2>1, <2>2, <3>1, HoldersStep
    <2>4. QED
      BY <1>1, <1>7, <2>2, <2>3 DEF Start, Finish
  <1>8. ASSUME NEW t \in Tasks, Release(t)
        PROVE  free' + Cardinality(Holders') = Workers /\ free' \in 0..Workers
    <2>1. t \in Holders
      BY <1>8 DEF Release, Holders, Holding
    <2>2. Holders' = Holders \ {t}
      <3>1. task' = [task EXCEPT ![t] = "over"] /\ "over" \notin Holding
        BY <1>8 DEF Release, Holding
      <3>2. QED
        BY <3>1, HoldersStep
    <2>3. Cardinality(Holders') = Cardinality(Holders) - 1
      BY <2>1, <2>2, HoldersCount
    <2>4. QED
      BY <1>0, <1>8, <2>3 DEF Release
  <1>9. QED
    BY <1>2, <1>3, <1>4, <1>5, <1>6, <1>7, <1>8 DEF Next, Work

\* What a job evicted by another had come to: its end.
LEMMA EvictedEnded ==
  ASSUME TypeOK, NEW j \in Jobs, NEW v \in Evicted(j)
  PROVE  v \in Jobs /\ status[v] \in Ends
  BY DEF Evicted, Removable, Registry, TypeOK

\* A registry and its workers: each step keeps them agreed.
LEMMA AgreedStep == IInv /\ [Next]_vars => AllAgreed' /\ ByHand'
  <1> SUFFICES ASSUME IInv, [Next]_vars PROVE AllAgreed' /\ ByHand'
    OBVIOUS
  <1> USE DEF IInv
  <1>1. CASE Tick \/ UNCHANGED vars
    BY <1>1 DEF Tick, vars, AllAgreed, Agreed, ByHand
  <1>2. CASE Restart
    BY <1>2 DEF Restart, AllAgreed, Agreed, ByHand, Tasks
  <1>3. ASSUME NEW j \in Jobs, Make(j) \/ Number(j) PROVE AllAgreed' /\ ByHand'
    BY <1>3, ConstantsAssumption DEF Make, Number, TypeOK, AllAgreed, Agreed, ByHand, Tasks
  <1>4. ASSUME NEW j \in Jobs, Queue(j) PROVE AllAgreed' /\ ByHand'
    <2>1. ByHand'
      BY <1>4, ConstantsAssumption DEF Queue, TypeOK, ByHand, Tasks
    <2>2. ASSUME NEW k \in Jobs PROVE Agreed(k)'
      <3>1. CASE k = j
        BY <1>4, <3>1 DEF Queue, TypeOK, Agreed, Tasks, Ends
      <3>2. CASE k # j /\ k \in Evicted(j)
        <4>1. status[k] \in Ends
          BY <3>2, EvictedEnded
        <4>2. status'[k] = "none" /\ task'[k] = task[k]
          BY <1>4, <3>2 DEF Queue, TypeOK, Tasks
        <4>3. task[k] \in {"tell", "over"}
          BY <4>1 DEF TypeOK, Tasks, AllAgreed, Agreed, Ends, Holding
        <4>4. QED
          BY <4>2, <4>3 DEF Agreed
      <3>3. CASE k # j /\ k \notin Evicted(j)
        <4>1. status'[k] = status[k] /\ task'[k] = task[k]
          BY <1>4, <3>3 DEF Queue, TypeOK, Tasks
        <4>2. QED
          BY <4>1 DEF AllAgreed, Agreed
      <3>4. QED
        BY <3>1, <3>2, <3>3
    <2>3. QED
      BY <2>1, <2>2 DEF AllAgreed
  <1>5. ASSUME NEW s \in Schedules, RunByHand(s) PROVE AllAgreed' /\ ByHand'
    BY <1>5, ConstantsAssumption DEF RunByHand, TypeOK, AllAgreed, Agreed, ByHand, Tasks
  <1>6. ASSUME NEW t \in Tasks, Acquire(t) PROVE AllAgreed' /\ ByHand'
    BY <1>6, ConstantsAssumption DEF Acquire, TypeOK, AllAgreed, Agreed, ByHand, Tasks
  <1>7. ASSUME NEW j \in Jobs, Start(j) \/ Finish(j) PROVE AllAgreed' /\ ByHand'
    <2>1. ByHand'
      BY <1>7, ConstantsAssumption DEF Start, Finish, TypeOK, ByHand, Tasks
    <2>2. ASSUME NEW k \in Jobs \ {j} PROVE Agreed(k)'
      BY <1>7 DEF Start, Finish, Update, TypeOK, AllAgreed, Agreed, Tasks
    <2>3. Agreed(j)'
      BY <1>7 DEF Start, Finish, Update, TypeOK, AllAgreed, Agreed, Tasks, Ends
    <2>4. QED
      BY <2>1, <2>2, <2>3 DEF AllAgreed
  <1>8. ASSUME NEW t \in Tasks, Release(t) PROVE AllAgreed' /\ ByHand'
    BY <1>8, ConstantsAssumption DEF Release, TypeOK, AllAgreed, Agreed, ByHand, Tasks
  <1>9. QED
    BY <1>1, <1>2, <1>3, <1>4, <1>5, <1>6, <1>7, <1>8 DEF Next, Request, Work

LEMMA TypeStep == IInv /\ [Next]_vars => TypeOK'
  <1> SUFFICES ASSUME IInv, [Next]_vars PROVE TypeOK'
    OBVIOUS
  <1> USE DEF IInv
  <1>1. free' \in 0..Workers
    BY PermitsStep
  <1>2. now' \in 0..MaxTime /\ restarts' \in 0..MaxRestarts /\ next' \in Nat
    BY ConstantsAssumption
       DEF Next, vars, TypeOK, Tick, Restart, Request, Make, Number, Queue, RunByHand,
           Acquire, Work, Start, Finish, Release
  <1>3. created' \in [Jobs -> 0..MaxTime] /\ sequence' \in [Jobs -> Nat]
    BY DEF Next, vars, TypeOK, Tick, Restart, Request, Make, Number, Queue, RunByHand,
           Acquire, Work, Start, Finish, Release
  <1>4. status' \in [Jobs -> {"none"} \cup InFlight \cup Ends]
    BY DEF Next, vars, TypeOK, Tick, Restart, Request, Make, Number, Queue, RunByHand,
           Acquire, Work, Start, Finish, Release, Update, InFlight, Ends
  <1>5. task' \in [Tasks -> {"none", "made", "numbered", "waiting", "over"} \cup Holding]
    BY DEF Next, vars, TypeOK, Tick, Restart, Request, Make, Number, Queue, RunByHand,
           Acquire, Work, Start, Finish, Release, Holding
  <1>6. QED
    BY <1>1, <1>2, <1>3, <1>4, <1>5 DEF TypeOK

\* The inductive invariant of JobPool.
THEOREM Invariance == Spec => []IInv
  <1>1. IInv /\ [Next]_vars => IInv'
    BY TypeStep, AgreedStep, PermitsStep DEF IInv
  <1>2. QED
    BY InitInv, <1>1, PTL DEF Spec

\* Every variable keeps its type: no more permits than Workers among them.
THEOREM TypeCorrect == Spec => []TypeOK
  <1>1. IInv => TypeOK
    BY DEF IInv
  <1>2. QED
    BY <1>1, Invariance, PTL

\* A worker finds its job in the registry, in the state it left it, however
\* many jobs were added meanwhile (`remember`, `update`).
THEOREM Found == Spec => []WorkersFindTheirJob
  <1>1. IInv => WorkersFindTheirJob
    BY DEF IInv, AllAgreed, Agreed, WorkersFindTheirJob
  <1>2. QED
    BY <1>1, Invariance, PTL

\* Permits are neither lost nor made, restarts included (`worker_permit`).
THEOREM Bounded == Spec => []WorkersBounded
  <1>1. IInv => WorkersBounded
    BY DEF IInv
  <1>2. QED
    BY <1>1, Invariance, PTL

-----------------------------------------------------------------------------
(* The eviction. *)

\* What is older than an older job is older.
LEMMA OlderTransitive ==
  ASSUME TypeOK, NEW a \in Jobs, NEW b \in Jobs, NEW c \in Jobs, Older(a, b), Older(b, c)
  PROVE  Older(a, c)
  BY ConstantsAssumption DEF TypeOK, Older

\* Whatever is older than an evicted job, and may go, goes as well.
LEMMA OlderIsEvicted ==
  ASSUME TypeOK, NEW j \in Jobs, NEW v \in Evicted(j), NEW w \in Removable, Older(w, v)
  PROVE  w \in Evicted(j)
  <1> DEFINE Before(x) == {y \in Removable : Older(y, x)}
  <1>1. v \in Removable /\ Removable \subseteq Jobs
    BY DEF Evicted, Removable, Registry
  <1>2. Before(w) \subseteq Before(v)
    BY <1>1, OlderTransitive
  <1>3. IsFiniteSet(Before(v))
    BY <1>1, ConstantsAssumption, FS_Subset
  <1>4. Cardinality(Before(w)) <= Cardinality(Before(v)) /\ IsFiniteSet(Before(w))
    BY <1>2, <1>3, FS_Subset
  <1>5. IsFiniteSet(Registry \cup {j})
    BY ConstantsAssumption, FS_Subset DEF Registry
  <1>6. /\ Cardinality(Before(w)) \in Nat /\ Cardinality(Before(v)) \in Nat
        /\ Cardinality(Registry \cup {j}) \in Nat /\ Limit \in Nat
    BY <1>3, <1>4, <1>5, FS_CardinalityType, ConstantsAssumption
  <1>7. Cardinality(Before(v)) + Limit < Cardinality(Registry \cup {j})
    BY DEF Evicted
  <1>8. Cardinality(Before(w)) + Limit < Cardinality(Registry \cup {j})
    BY <1>4, <1>6, <1>7
  <1>9. QED
    BY <1>8 DEF Evicted

\* Nothing but an added job pushes a job out, only finished ones go, and none
\* that stays is older than one that goes (`remember`).
THEOREM EvictsTheOldest == Spec => OldestGoFirst
  <1> DEFINE Oldest ==
        restarts' = restarts =>
          \A v \in Jobs : status[v] # "none" /\ status'[v] = "none" =>
            /\ status[v] \in Ends
            /\ \A w \in Jobs : status'[w] \in Ends => ~Older(w, v)
  <1>1. IInv /\ [Next]_vars => [Oldest]_vars
    <2> SUFFICES ASSUME IInv, Next, restarts' = restarts,
                        NEW v \in Jobs, status[v] # "none", status'[v] = "none"
                 PROVE  /\ status[v] \in Ends
                        /\ \A w \in Jobs : status'[w] \in Ends => ~Older(w, v)
      OBVIOUS
    <2> USE DEF IInv
    <2>1. ~Restart
      BY DEF Restart, TypeOK
    <2>2. PICK j \in Jobs : Queue(j)
      BY <2>1 DEF Next, Tick, Request, Make, Number, RunByHand, Acquire, Work, Start,
                  Finish, Release, Update, TypeOK, Ends
    <2>3. v \in Evicted(j)
      BY <2>2 DEF Queue
    <2>4. ASSUME NEW w \in Jobs, status'[w] \in Ends, Older(w, v) PROVE FALSE
      <3>1. w # j /\ w \notin Evicted(j) /\ status[w] \in Ends
        BY <2>2, <2>4 DEF Queue, Ends
      <3>2. w \in Removable
        BY <3>1 DEF Removable, Registry, Ends, InFlight
      <3>3. QED
        BY <2>3, <2>4, <3>1, <3>2, OlderIsEvicted
    <2>5. QED
      BY <2>3, <2>4, EvictedEnded
  <1>2. QED
    BY <1>1, Invariance, PTL DEF Spec, OldestGoFirst

-----------------------------------------------------------------------------
(* The refinement. *)

life == [j \in Jobs |-> IF status[j] # "none" THEN status[j]
                        ELSE IF task[j] = "over" THEN "gone"
                        ELSE IF task[j] = "tell" THEN "gone" ELSE "new"]

\* Running jobs hold permits, so a job that starts leaves one for itself.
LEMMA RunningBelowWorkers ==
  ASSUME IInv, NEW j \in Jobs, task[j] = "held"
  PROVE  Cardinality({k \in Jobs : life[k] = "running"}) < Workers
  <1> DEFINE R == {k \in Jobs : life[k] = "running"}
  <1>1. R \cup {j} \subseteq Holders /\ j \notin R
    <2>1. \A k \in Jobs : life[k] = "running" => task[k] = "work"
      BY DEF life, IInv, TypeOK, Tasks, AllAgreed, Agreed, Ends, Holding
    <2>2. QED
      BY <2>1 DEF Holders, Holding, Tasks
  <1>2. IsFiniteSet(Holders)
    BY HoldersFinite DEF Holders
  <1>3. IsFiniteSet(R) /\ Cardinality(R \cup {j}) <= Cardinality(Holders)
    BY <1>1, <1>2, FS_Subset, ConstantsAssumption
  <1>4. Cardinality(R \cup {j}) = Cardinality(R) + 1
    BY <1>1, <1>3, FS_AddElement
  <1>5. Cardinality(Holders) <= Workers
    BY HoldersFinite, BoundedIsHolders, ConstantsAssumption DEF IInv, TypeOK, Holders
  <1>6. QED
    BY <1>2, <1>3, <1>4, <1>5, FS_CardinalityType, ConstantsAssumption

\* The registries and their workers keep what JobLife promises: every job that
\* is queued runs among no more than Workers, ends once and is forgotten only
\* then, unless the panel restarts (backup_jobs.rs, file_jobs.rs).
THEOREM Implements == Spec => KeepsThePromise
  <1> USE DEF Abstract!Ends, Ends
  <1>1. Init => Abstract!Init
    BY DEF Init, Abstract!Init, Tasks
  <1>2. IInv /\ [Next]_vars => [Abstract!Next]_life
    <2> SUFFICES ASSUME IInv, [Next]_vars PROVE Abstract!Next \/ life' = life
      OBVIOUS
    <2> USE DEF IInv
    <2>1. ASSUME \A j \in Jobs : life'[j] = life[j] PROVE life' = life
      BY <2>1 DEF life
    <2>2. CASE Tick \/ UNCHANGED vars \/ \E s \in Schedules : RunByHand(s)
      BY <2>2, ConstantsAssumption DEF Tick, vars, RunByHand, life, TypeOK, Tasks
    <2>3. ASSUME NEW j \in Jobs, Make(j) \/ Number(j) PROVE life' = life
      BY <2>3 DEF Make, Number, life, TypeOK, Tasks
    <2>4. ASSUME NEW j \in Jobs, Queue(j) PROVE Abstract!Queue(j)
      <3>1. life[j] = "new" /\ life'[j] = "queued"
        BY <2>4 DEF Queue, life, TypeOK, Tasks, AllAgreed, Agreed
      <3>2. Evicted(j) \in SUBSET {k \in Jobs : life[k] \in Ends}
        BY EvictedEnded DEF life
      <3>3. ASSUME NEW k \in Evicted(j), k # j PROVE life'[k] = "gone"
        <4>1. k \in Jobs /\ status[k] \in Ends
          BY EvictedEnded
        <4>2. status'[k] = "none" /\ task'[k] = task[k]
          BY <2>4, <3>3, <4>1 DEF Queue, TypeOK, Tasks
        <4>3. task[k] \in {"tell", "over"}
          BY <4>1 DEF TypeOK, Tasks, AllAgreed, Agreed, Holding
        <4>4. QED
          BY <4>1, <4>2, <4>3 DEF life
      <3>4. ASSUME NEW k \in Jobs \ Evicted(j), k # j PROVE life'[k] = life[k]
        BY <2>4, <3>4 DEF Queue, TypeOK, Tasks, life
      <3>5. life' = [k \in Jobs |-> IF k = j THEN "queued"
                                   ELSE IF k \in Evicted(j) THEN "gone" ELSE life[k]]
        BY <3>1, <3>3, <3>4 DEF life
      <3>6. QED
        BY <3>1, <3>2, <3>5 DEF Abstract!Queue, life
    <2>5. ASSUME NEW t \in Tasks, Acquire(t) \/ Release(t) PROVE life' = life
      <3>1. ASSUME NEW j \in Jobs PROVE life'[j] = life[j]
        BY <2>5 DEF Acquire, Release, TypeOK, Tasks, AllAgreed, Agreed, life
      <3>2. QED
        BY <2>1, <3>1
    <2>6. ASSUME NEW j \in Jobs, Start(j) PROVE Abstract!Run(j)
      <3>1. status[j] = "queued" /\ status' = [status EXCEPT ![j] = "running"]
        BY <2>6 DEF Start, Update, AllAgreed, Agreed
      <3>2. life[j] = "queued" /\ life' = [life EXCEPT ![j] = "running"]
        BY <2>6, <3>1 DEF Start, TypeOK, Tasks, life
      <3>3. task[j] = "held"
        BY <2>6 DEF Start
      <3>4. QED
        <4>1. \A S : Abstract!Cardinality(S) = Cardinality(S)
          BY DEF Abstract!Cardinality, Cardinality, Abstract!IsFiniteSet, IsFiniteSet
        <4>2. Cardinality({k \in Jobs : life[k] = "running"}) < Workers
          BY <3>3, RunningBelowWorkers
        <4>3. QED
          BY <3>2, <4>1, <4>2 DEF Abstract!Run, Abstract!Running, life
    <2>7. ASSUME NEW j \in Jobs, Finish(j) PROVE Abstract!End(j)
      <3>1. PICK e \in Ends : status' = [status EXCEPT ![j] = e]
        BY <2>7 DEF Finish, Update, AllAgreed, Agreed
      <3>2. life[j] = "running" /\ life' = [life EXCEPT ![j] = e]
        BY <2>7, <3>1 DEF Finish, TypeOK, Tasks, AllAgreed, Agreed, life
      <3>3. QED
        BY <3>2 DEF Abstract!End, life
    <2>8. CASE Restart
      <3> DEFINE cut == {j \in Jobs : life[j] = "new" /\ task[j] # "none"}
      <3>1. cut \in SUBSET {j \in Jobs : life[j] = "new"}
        OBVIOUS
      <3>2. ASSUME NEW j \in Jobs
            PROVE  life'[j] = IF life[j] = "new" /\ j \notin cut THEN "new" ELSE "gone"
        BY <2>8 DEF Restart, TypeOK, Tasks, AllAgreed, Agreed, life
      <3>3. life' = [j \in Jobs |-> IF life[j] = "new" /\ j \notin cut THEN "new" ELSE "gone"]
        BY <3>2 DEF life
      <3>4. QED
        BY <3>1, <3>3 DEF Abstract!Next, Abstract!Restart, life
    <2>9. QED
      BY <2>2, <2>3, <2>4, <2>5, <2>6, <2>7, <2>8 DEF Next, Request, Work, Abstract!Next
  <1>3. QED
    BY <1>1, <1>2, Invariance, PTL DEF Spec, KeepsThePromise, Abstract!Spec, life

-----------------------------------------------------------------------------
(* Imports and restores (ImportGate).                                       *)

GateTypes ==
  /\ entry \in [GateJobs -> {"none", "pending", "running"} \cup GateEnds]
  /\ pc \in [GateJobs -> Working \cup {"look", "bulk", "restore", "remember", "singles", "bulks",
                                   "record", "audit", "over", "refused", "dropped"}]
  /\ at \in [GateJobs -> Nat] /\ done \in [Restores -> Nat] /\ failed \in [Restores -> Nat]
  /\ kept \in Seq(Restores)
  /\ lock \in Restores \cup {None}

Inside == {"singles", "bulks", "record"}
AtWork == {"audit", "work"}

\* A restore that has looked at the registry holds its lock until it is
\* recorded, and nothing runs while it does.
Locked ==
  /\ \A r \in Restores : pc[r] \in Inside => lock = r
  /\ lock # None => \A r \in Restores : entry[r] # "running" /\ pc[r] \notin AtWork

\* Nothing is counted before the work begins, and each archive once after it.
Counted ==
  \A r \in Restores :
    /\ pc[r] \in {"look", "audit"} \cup Inside => at[r] = 0 /\ done[r] = 0 /\ failed[r] = 0
    /\ pc[r] = "work" => done[r] + failed[r] = at[r]

GateInv == GateTypes /\ Locked /\ OneRestore /\ SeenWhileAtWork /\ Counted /\ Tally

-----------------------------------------------------------------------------
\* The newest is one of those that are kept.
LEMMA LastIsKept ==
  ASSUME NEW q \in Seq(Restores), q # <<>>
  PROVE  Last(q) \in ToSet(q)
  <1>1. Len(q) \in 1..Len(q)
    OBVIOUS
  <1>2. QED
    BY <1>1 DEF Last, ToSet

\* What is added is the newest that is kept.
LEMMA TrimKeepsTheLast ==
  ASSUME NEW q \in Seq(Restores), NEW r \in Restores
  PROVE  LET t == Trim(Append(q, r))
         IN  t \in Seq(Restores) /\ t # <<>> /\ Last(t) = r /\ r \in ToSet(t)
  <1> DEFINE a == Append(q, r)
             m == (IF Len(a) > KeptJobs THEN Len(a) - KeptJobs ELSE 0) + 1
             t == SubSeq(a, m, Len(a))
  <1>1. a \in Seq(Restores) /\ Len(a) \in Nat \ {0} /\ a[Len(a)] = r
    OBVIOUS
  <1>2. m \in 1..Len(a)
    BY <1>1, GateAssumption
  <1> HIDE DEF a, m
  <1>3. /\ t \in Seq(Restores) /\ Len(t) = Len(a) - m + 1
        /\ \A i \in 1..(Len(a) - m + 1) : t[i] = a[m + i - 1]
    BY <1>1, <1>2, SubSeqProperties
  <1>4. Len(t) \in 1..Len(t) /\ t[Len(t)] = r
    BY <1>1, <1>2, <1>3
  <1> HIDE DEF t
  <1>5. t # <<>>
    BY <1>3, <1>4
  <1>6. Last(t) = r
    BY <1>4 DEF Last
  <1>7. QED
    BY <1>3, <1>5, <1>6, LastIsKept DEF t, a, m, Trim

LEMMA InitGate == GateInit => GateInv
  <1> SUFFICES ASSUME GateInit PROVE GateInv
    OBVIOUS
  <1> USE GateAssumption DEF GateInit
  <1>1. \A r \in Restores :
          /\ r \in GateJobs /\ entry[r] = "none" /\ pc[r] = "look"
          /\ at[r] = 0 /\ done[r] = 0 /\ failed[r] = 0
    BY DEF GateJobs
  <1>2. GateTypes
    BY DEF GateTypes
  <1>3. Locked /\ OneRestore /\ SeenWhileAtWork
    BY <1>1 DEF Locked, OneRestore, SeenWhileAtWork, Inside
  <1>4. Counted /\ Tally
    BY <1>1 DEF Counted, Tally
  <1>5. QED
    BY <1>2, <1>3, <1>4 DEF GateInv

\* What an import does to the restores: nothing.
LEMMA ImportStep ==
  ASSUME GateTypes, NEW i \in Imports, Import_(i)
  PROVE  /\ GateTypes'
         /\ UNCHANGED <<done, failed, kept, lock>>
         /\ \A r \in Restores : entry'[r] = entry[r] /\ pc'[r] = pc[r] /\ at'[r] = at[r]
  <1> USE DEF GateTypes
  <1>1. i \in GateJobs /\ \A r \in Restores : r \in GateJobs /\ r # i
    BY GateAssumption DEF GateJobs
  <1>2. CASE Look(i)
    <2>1. PICK x \in {"refused", "bulk", "restore", "remember"} : pc' = [pc EXCEPT ![i] = x]
      BY <1>2 DEF Look, LookAt
    <2>2. UNCHANGED <<entry, at, done, failed, kept, lock>>
      BY <1>2 DEF Look, LookAt
    <2>3. QED
      BY <1>1, <2>1, <2>2
  <1>3. CASE Remember(i)
    BY <1>1, <1>3 DEF Remember, Working
  <1>4. CASE BeginImport(i)
    BY <1>1, <1>4 DEF BeginImport, Working
  <1>5. CASE Import(i)
    BY <1>1, <1>5 DEF Import
  <1>6. CASE EndImport(i)
    <2>1. PICK s \in GateEnds : entry' = [entry EXCEPT ![i] = s]
      BY <1>6 DEF EndImport, GateEnds
    <2>2. QED
      BY <1>1, <1>6, <2>1 DEF EndImport
  <1>7. QED
    BY <1>2, <1>3, <1>4, <1>5, <1>6 DEF Import_

\* A restore's step moves its own program counter.
LEMMA Moves ==
  ASSUME GateTypes, NEW r \in Restores, NEW x, pc' = [pc EXCEPT ![r] = x],
         x \in Working \cup {"look", "bulk", "restore", "remember", "singles", "bulks",
                             "record", "audit", "over", "refused", "dropped"}
  PROVE  /\ pc' \in [GateJobs -> Working \cup {"look", "bulk", "restore", "remember", "singles",
                                           "bulks", "record", "audit", "over", "refused",
                                           "dropped"}]
         /\ r \in GateJobs /\ pc'[r] = x /\ \A s \in Restores : s # r => pc'[s] = pc[s]
  BY DEF GateTypes, GateJobs

LEMMA GateStep == GateInv /\ [GateNext]_gateVars => GateInv'
  <1> SUFFICES ASSUME GateInv, [GateNext]_gateVars PROVE GateInv'
    OBVIOUS
  <1> USE DEF GateInv
  <1>1. ASSUME NEW i \in Imports, Import_(i) PROVE GateInv'
    <2>1. /\ GateTypes' /\ UNCHANGED <<done, failed, kept, lock>>
          /\ \A r \in Restores : entry'[r] = entry[r] /\ pc'[r] = pc[r] /\ at'[r] = at[r]
      BY <1>1, ImportStep
    <2>2. Locked' /\ OneRestore' /\ SeenWhileAtWork'
      BY <2>1 DEF Locked, OneRestore, SeenWhileAtWork
    <2>3. Counted' /\ Tally'
      BY <2>1 DEF Counted, Tally
    <2>4. QED
      BY <2>1, <2>2, <2>3
  <1>2. ASSUME NEW r \in Restores, Enter(r) PROVE GateInv'
    <2>1. pc[r] = "look" /\ lock = None /\ UNCHANGED <<entry, at, done, failed, kept>>
      BY <1>2 DEF Enter
    <2>2. CASE AnyRunning(Restores)
      <3>1. pc' = [pc EXCEPT ![r] = "refused"] /\ UNCHANGED lock
        BY <1>2, <2>2 DEF Enter
      <3>2. pc'[r] = "refused" /\ \A s \in Restores : s # r => pc'[s] = pc[s]
        BY <3>1, Moves
      <3>3. GateTypes'
        BY <2>1, <3>1, Moves DEF GateTypes
      <3>4. Locked' /\ OneRestore' /\ SeenWhileAtWork'
        BY <2>1, <3>1, <3>2 DEF Locked, Inside, OneRestore, SeenWhileAtWork
      <3>5. Counted' /\ Tally'
        BY <2>1, <3>2 DEF Counted, Inside, Tally
      <3>6. QED
        BY <3>3, <3>4, <3>5
    <2>3. CASE ~AnyRunning(Restores)
      <3>1. pc' = [pc EXCEPT ![r] = "singles"] /\ lock' = r
        BY <1>2, <2>3 DEF Enter
      <3>2. pc'[r] = "singles" /\ \A s \in Restores : s # r => pc'[s] = pc[s]
        BY <3>1, Moves
      <3>3. GateTypes'
        BY <2>1, <3>1, Moves DEF GateTypes
      <3>4. \A s \in Restores : entry[s] # "running" /\ pc[s] \notin AtWork
        BY <2>3 DEF AnyRunning, SeenWhileAtWork, AtWork
      <3>5. \A s \in Restores : pc[s] \notin Inside
        BY <2>1, GateAssumption DEF Locked, GateJobs
      <3>6. Locked' /\ OneRestore' /\ SeenWhileAtWork'
        BY <2>1, <3>1, <3>2, <3>4, <3>5 DEF Locked, Inside, AtWork, OneRestore, SeenWhileAtWork
      <3>7. Counted' /\ Tally'
        BY <2>1, <3>2 DEF Counted, Inside, Tally
      <3>8. QED
        BY <3>3, <3>6, <3>7
    <2>4. QED
      BY <2>2, <2>3
  <1>3. ASSUME NEW r \in Restores, LookAtImports(r) PROVE GateInv'
    <2>1. /\ pc[r] \in {"singles", "bulks"}
          /\ UNCHANGED <<entry, at, done, failed, kept>>
      BY <1>3 DEF LookAtImports, LookInside
    <2>2. lock = r
      BY <2>1 DEF Locked, Inside
    <2>3. PICK x \in {"refused", "bulks", "record"} :
            /\ pc' = [pc EXCEPT ![r] = x]
            /\ lock' = IF x = "refused" THEN None ELSE lock
      BY <1>3 DEF LookAtImports, LookInside
    <2>4. pc'[r] = x /\ \A s \in Restores : s # r => pc'[s] = pc[s]
      BY <2>3, Moves
    <2>5. GateTypes'
      BY <2>1, <2>3, Moves DEF GateTypes
    <2>6. \A s \in Restores : s # r => pc[s] \notin Inside
      BY <2>2 DEF Locked
    <2>7. Locked'
      BY <2>1, <2>2, <2>3, <2>4, <2>6 DEF Locked, Inside, AtWork
    <2>8. OneRestore' /\ SeenWhileAtWork'
      BY <2>1, <2>4 DEF OneRestore, SeenWhileAtWork
    <2>9. Counted' /\ Tally'
      BY <2>1, <2>4 DEF Counted, Inside, Tally
    <2>10. QED
      BY <2>5, <2>7, <2>8, <2>9
  <1>4. ASSUME NEW r \in Restores, Record(r) PROVE GateInv'
    <2>1. /\ pc[r] = "record" /\ lock' = None /\ UNCHANGED <<at, done, failed>>
          /\ pc' = [pc EXCEPT ![r] = "audit"]
      BY <1>4 DEF Record
    <2>2. lock = r /\ r # None
      BY <2>1, GateAssumption DEF Locked, Inside, GateJobs
    <2>3. \A s \in Restores : entry[s] # "running" /\ pc[s] \notin AtWork
      BY <2>2 DEF Locked
    <2>4. \A s \in Restores : s # r => pc[s] \notin Inside
      BY <2>2 DEF Locked
    <2>5. kept' \in Seq(Restores) /\ kept' # <<>> /\ Last(kept') = r /\ r \in ToSet(kept')
      BY <1>4, TrimKeepsTheLast DEF Record, GateTypes
    <2>6. \A j \in GateJobs : entry'[j] = IF j = r THEN "running"
                                       ELSE IF j \in Restores \ ToSet(kept') THEN "none"
                                       ELSE entry[j]
      BY <1>4, <2>5 DEF Record
    <2>7. pc'[r] = "audit" /\ r \in GateJobs /\ \A s \in Restores : s # r => pc'[s] = pc[s]
      BY <2>1, Moves
    <2>8. GateTypes'
      <3>1. entry' \in [GateJobs -> {"none", "pending", "running"} \cup GateEnds]
        BY <1>4, <2>6 DEF Record, GateTypes
      <3>2. pc' \in [GateJobs -> Working \cup {"look", "bulk", "restore", "remember", "singles",
                             "bulks", "record", "audit", "over", "refused", "dropped"}]
        BY <2>1, Moves
      <3>3. QED
        BY <2>1, <2>5, <3>1, <3>2 DEF GateTypes
    <2>9. \A s \in Restores : s \in GateJobs /\ (s # r => entry'[s] \in {"none", entry[s]})
      BY <2>6 DEF GateJobs
    <2>10. Locked'
      BY <2>1, <2>4, <2>7 DEF Locked, Inside
    <2>11. OneRestore' /\ SeenWhileAtWork'
      BY <2>3, <2>5, <2>6, <2>7 DEF OneRestore, SeenWhileAtWork, AtWork
    <2>12. Counted'
      BY <2>1, <2>7 DEF Counted, Inside
    <2>13. Tally'
      <3>1. \A s \in Restores : entry'[s] = "done" => entry[s] = "done"
        BY <2>6, <2>7, <2>9
      <3>2. QED
        BY <2>1, <3>1 DEF Tally
    <2>14. QED
      BY <2>8, <2>10, <2>11, <2>12, <2>13
  <1>5. ASSUME NEW r \in Restores, Spawn(r) \/ Disconnect(r) PROVE GateInv'
    <2>1. pc[r] = "audit" /\ UNCHANGED <<entry, at, done, failed, kept, lock>>
      BY <1>5 DEF Spawn, Disconnect
    <2>2. PICK x \in {"work", "dropped"} : pc' = [pc EXCEPT ![r] = x]
      BY <1>5 DEF Spawn, Disconnect
    <2>3. pc'[r] = x /\ \A s \in Restores : s # r => pc'[s] = pc[s]
      BY <2>2, Moves DEF Working
    <2>4. GateTypes'
      BY <2>1, <2>2, Moves DEF GateTypes, Working
    <2>5. Locked'
      BY <2>1, <2>3 DEF Locked, Inside, AtWork
    <2>6. OneRestore' /\ SeenWhileAtWork'
      BY <2>1, <2>3 DEF OneRestore, SeenWhileAtWork
    <2>7. Counted' /\ Tally'
      BY <2>1, <2>3 DEF Counted, Inside, Tally
    <2>8. QED
      BY <2>4, <2>5, <2>6, <2>7
  <1>6. ASSUME NEW r \in Restores, Restore(r) PROVE GateInv'
    <2>1. /\ pc[r] = "work" /\ UNCHANGED <<entry, pc, kept, lock>>
          /\ at' = [at EXCEPT ![r] = @ + 1]
      BY <1>6 DEF Restore
    <2>2. kept # <<>> /\ Last(kept) = r /\ entry[r] = "running"
      BY <2>1 DEF SeenWhileAtWork
    <2>3. r \in ToSet(kept)
      BY <2>2, LastIsKept DEF GateTypes
    <2>4. \/ failed' = [failed EXCEPT ![r] = @ + 1] /\ done' = done
          \/ done' = [done EXCEPT ![r] = @ + 1] /\ failed' = failed
      BY <1>6, <2>3 DEF Restore, Fail, Restored, Count
    <2>5. r \in GateJobs /\ \A s \in Restores : s \in GateJobs
      BY DEF GateJobs
    <2>6. GateTypes'
      <3>1. at' \in [GateJobs -> Nat]
        BY <2>1, <2>5 DEF GateTypes
      <3>2. done \in [Restores -> Nat] /\ failed \in [Restores -> Nat]
        BY DEF GateTypes
      <3>3. CASE failed' = [failed EXCEPT ![r] = @ + 1] /\ done' = done
        BY <2>1, <3>1, <3>2, <3>3 DEF GateTypes
      <3>4. CASE done' = [done EXCEPT ![r] = @ + 1] /\ failed' = failed
        BY <2>1, <3>1, <3>2, <3>4 DEF GateTypes
      <3>5. QED
        BY <2>4, <3>3, <3>4
    <2>7. /\ at'[r] = at[r] + 1 /\ at[r] \in Nat /\ done[r] \in Nat /\ failed[r] \in Nat
          /\ \/ done'[r] = done[r] + 1 /\ failed'[r] = failed[r]
             \/ done'[r] = done[r] /\ failed'[r] = failed[r] + 1
          /\ \A s \in Restores : s # r =>
               at'[s] = at[s] /\ done'[s] = done[s] /\ failed'[s] = failed[s]
      BY <2>1, <2>4, <2>5 DEF GateTypes
    <2>8. Locked' /\ OneRestore' /\ SeenWhileAtWork'
      BY <2>1 DEF Locked, OneRestore, SeenWhileAtWork
    <2>9. Counted'
      <3>1. ASSUME NEW s \in Restores, s # r
            PROVE  /\ pc'[s] = pc[s] /\ entry'[s] = entry[s] /\ at'[s] = at[s]
                   /\ done'[s] = done[s] /\ failed'[s] = failed[s]
        BY <2>1, <2>7, <3>1
      <3>2. pc'[r] = "work" /\ entry'[r] = entry[r] /\ pc[r] = "work"
        BY <2>1
      <3>3. QED
        BY <2>1, <2>2, <2>7, <3>1, <3>2 DEF Counted, Inside
    <2>10. Tally'
      BY <2>1, <2>2, <2>7 DEF Counted, Inside, Tally
    <2>11. QED
      BY <2>6, <2>8, <2>9, <2>10
  <1>7. ASSUME NEW r \in Restores, EndRestore(r) PROVE GateInv'
    <2>1. /\ pc[r] = "work" /\ at[r] = Files /\ UNCHANGED <<at, done, failed, kept, lock>>
          /\ pc' = [pc EXCEPT ![r] = "over"]
      BY <1>7 DEF EndRestore
    <2>2. r \in ToSet(kept)
      BY <2>1, LastIsKept DEF SeenWhileAtWork, GateTypes
    <2>3. entry' = [entry EXCEPT ![r] = "done"]
      BY <1>7, <2>2 DEF EndRestore
    <2>4. pc'[r] = "over" /\ r \in GateJobs /\ \A s \in Restores : s # r => pc'[s] = pc[s]
      BY <2>1, Moves
    <2>5. entry'[r] = "done" /\ \A s \in Restores : s # r => entry'[s] = entry[s]
      BY <2>3, <2>4 DEF GateTypes, GateJobs
    <2>6. GateTypes'
      BY <2>1, <2>3, <2>4, Moves DEF GateTypes, GateEnds
    <2>7. Locked'
      BY <2>1, <2>4, <2>5 DEF Locked, Inside, AtWork
    <2>8. OneRestore' /\ SeenWhileAtWork'
      BY <2>1, <2>4, <2>5 DEF OneRestore, SeenWhileAtWork
    <2>9. Counted' /\ Tally'
      BY <2>1, <2>4, <2>5 DEF Counted, Inside, Tally
    <2>10. QED
      BY <2>6, <2>7, <2>8, <2>9
  <1>8. CASE UNCHANGED gateVars
    BY <1>8 DEF gateVars, GateTypes, Locked, OneRestore, SeenWhileAtWork, Counted, Tally
  <1>9. QED
    BY <1>1, <1>2, <1>3, <1>4, <1>5, <1>6, <1>7, <1>8 DEF GateNext, Restore_

THEOREM GateInvariance == GateSpec => []GateInv
  <1>1. GateInit => GateInv
    BY InitGate
  <1>2. GateInv /\ [GateNext]_gateVars => GateInv'
    BY GateStep
  <1>3. QED
    BY <1>1, <1>2, PTL DEF GateSpec

\* "Checked and recorded under one lock, so two clicks cannot both start":
\* however the requests come, one restore at a time works (`start`).
THEOREM OneAtATime == GateSpec => []OneRestore
  <1>1. GateInv => OneRestore
    BY DEF GateInv
  <1>2. QED
    BY <1>1, GateInvariance, PTL

\* The page and the gates see the restore at work until it ends, whatever
\* KEPT_JOBS is (`latest_job`, `running`).
THEOREM Seen == GateSpec => []SeenWhileAtWork
  <1>1. GateInv => SeenWhileAtWork
    BY DEF GateInv
  <1>2. QED
    BY <1>1, GateInvariance, PTL

\* A restore that has ended has counted each of its archives once (`work`).
THEOREM Tallied == GateSpec => []Tally
  <1>1. GateInv => Tally
    BY DEF GateInv
  <1>2. QED
    BY <1>1, GateInvariance, PTL
=============================================================================
