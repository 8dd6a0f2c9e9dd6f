---------------------------- MODULE BackupTimer ----------------------------
(***************************************************************************)
(* When the backup schedules run: the systemd timer and its one-shot       *)
(* service (systemd_units.rs), the sweep over the schedules that the       *)
(* service is (main.rs), and a schedule that is run by hand in the panel   *)
(* (routes/maintenance.rs), which share each schedule's last_run_at.       *)
(*                                                                         *)
(* Time is counted in quarters of a minute: the timer's periods are        *)
(* multiples of 15 s, and so is its accuracy.                              *)
(***************************************************************************)
EXTENDS Naturals, FiniteSets

CONSTANTS
  Schedules,  \* the rows of backup_schedules, all active
  Due,        \* the minutes in which each schedule is due (cron_due.rs)
  MaxTime,    \* bound: quarters
  MaxStarts,  \* bound: how often an operator starts the service
  MaxBoots,   \* bound: how often the machine reboots
  ByHand      \* the schedules that administrators run by hand as well

Minute(q) == q \div 4
Minutes   == 0..Minute(MaxTime)
Never     == Minute(MaxTime) + 1

ASSUME ConstantsAssumption ==
  /\ MaxTime \in Nat /\ MaxStarts \in Nat /\ MaxBoots \in Nat /\ ByHand \subseteq Schedules
  /\ Due \in [Schedules -> SUBSET Nat]

VARIABLES
  now,     \* the quarter
  next,    \* when the timer may elapse next; within AccuracySec after it must
  step,    \* the service: "off", "starting", "list", "loop", "run"
  stamp,   \* the sweep's minute
  todo,    \* the schedules it has still to look at
  seen,    \* each one's last_run_at as the sweep has read it
  at,      \* the one that it runs, while it runs one
  hand,    \* each schedule's run by hand: "no", "asked", "running"
  handed,  \* that run's minute
  last,    \* last_run_at
  times,   \* history: how often the sweeps ran each schedule for each minute
  byHand,  \* history: which runs by hand were for which minute
  starts, boots

sweep   == <<step, stamp, todo, seen, at>>
hands   == <<hand, handed, byHand>>
limits  == <<starts, boots>>
vars    == <<now, next, sweep, hands, last, times, limits>>

Accuracy == 1   \* AccuracySec=15s
Period   == 4   \* OnUnitActiveSec=60s
BootTime == 6   \* OnBootSec=90s

Init ==
  /\ now = 0 /\ next = BootTime
  /\ step = "off" /\ stamp = 0 /\ todo = {}
  /\ seen = [s \in Schedules |-> Never] /\ at = {}
  /\ hand = [s \in Schedules |-> "no"] /\ handed = [s \in Schedules |-> 0]
  /\ last = [s \in Schedules |-> Never]
  /\ times = [s \in Schedules |-> [m \in Minutes |-> 0]]
  /\ byHand = [s \in Schedules |-> {}]
  /\ starts = 0 /\ boots = 0

-----------------------------------------------------------------------------
(* The clock and the timer. *)

Tick ==
  /\ now < MaxTime /\ now < next + Accuracy
  /\ now' = now + 1
  /\ UNCHANGED <<next, sweep, hands, last, times, limits>>

\* A service that is still running is not started again.
Activate == step' = IF step = "off" THEN "starting" ELSE step

\* The period counts from the activation.
Elapse ==
  /\ now >= next
  /\ Activate
  /\ next' = now + Period
  /\ UNCHANGED <<now, stamp, todo, seen, at, hands, last, times, limits>>

\* `systemctl start`: the timer counts from this activation as well.
StartUnit ==
  /\ starts < MaxStarts /\ step = "off"
  /\ starts' = starts + 1
  /\ Activate
  /\ next' = now + Period
  /\ UNCHANGED <<now, stamp, todo, seen, at, hands, last, times, boots>>

Reboot ==
  /\ boots < MaxBoots
  /\ boots' = boots + 1
  /\ step' = "off" /\ todo' = {} /\ at' = {}
  /\ hand' = [s \in Schedules |-> "no"]
  /\ next' = now + BootTime
  /\ UNCHANGED <<now, stamp, seen, handed, last, times, byHand, starts>>

-----------------------------------------------------------------------------
(* The sweep. *)

\* `Local::now()`, once for the whole sweep.
Stamp ==
  /\ step = "starting"
  /\ step' = "list"
  /\ stamp' = Minute(now)
  /\ UNCHANGED <<now, next, todo, seen, at, hands, last, times, limits>>

\* `backup_schedules().list()`, once for the whole sweep as well.
List ==
  /\ step = "list"
  /\ step' = "loop"
  /\ todo' = Schedules
  /\ seen' = last
  /\ UNCHANGED <<now, next, stamp, at, hands, last, times, limits>>

\* The database cannot be read.
ListFails ==
  /\ step = "list"
  /\ step' = "off"
  /\ UNCHANGED <<now, next, stamp, todo, seen, at, hands, last, times, limits>>

\* Slip: AlreadyRanThisMinute is missing.
SlipShouldRun(s) == stamp \in Due[s]

ShouldRun(s) == stamp \in Due[s] /\ seen[s] # stamp

PassOver(s) ==
  /\ step = "loop" /\ s \in todo
  /\ ~ShouldRun(s)
  /\ todo' = todo \ {s}
  /\ UNCHANGED <<now, next, step, stamp, seen, at, hands, last, times, limits>>

Run(s) ==
  /\ step = "loop" /\ s \in todo
  /\ ShouldRun(s)
  /\ step' = "run" /\ at' = {s} /\ todo' = todo \ {s}
  /\ times' = [times EXCEPT ![s][stamp] = @ + 1]
  /\ UNCHANGED <<now, next, stamp, seen, hands, last, limits>>

\* Slip: the minute in which the run has ended.
SlipRecord(s, minute) == last' = [last EXCEPT ![s] = Minute(now)]

\* `record_run`, whatever the outcome was.
Record(s, minute) == last' = [last EXCEPT ![s] = minute]

EndRun(s) ==
  /\ step = "run" /\ s \in at
  /\ step' = "loop" /\ at' = {}
  /\ Record(s, stamp)
  /\ UNCHANGED <<now, next, stamp, todo, seen, hands, times, limits>>

EndSweep ==
  /\ step = "loop" /\ todo = {}
  /\ step' = "off"
  /\ UNCHANGED <<now, next, stamp, todo, seen, at, hands, last, times, limits>>

-----------------------------------------------------------------------------
(* `run_backup_schedule_now`: its guard is that the schedule exists; there  *)
(* is none on last_run_at, nor against a sweep.                             *)

HandAsk(s) ==
  /\ s \in ByHand /\ hand[s] = "no"
  /\ hand' = [hand EXCEPT ![s] = "asked"]
  /\ UNCHANGED <<now, next, sweep, handed, byHand, last, times, limits>>

\* The permit has come; only then is the minute read.
HandRun(s) ==
  /\ hand[s] = "asked"
  /\ hand' = [hand EXCEPT ![s] = "running"]
  /\ handed' = [handed EXCEPT ![s] = Minute(now)]
  /\ byHand' = [byHand EXCEPT ![s] = @ \cup {Minute(now)}]
  /\ UNCHANGED <<now, next, sweep, last, times, limits>>

HandEnd(s) ==
  /\ hand[s] = "running"
  /\ hand' = [hand EXCEPT ![s] = "no"]
  /\ Record(s, handed[s])
  /\ UNCHANGED <<now, next, sweep, handed, byHand, times, limits>>

-----------------------------------------------------------------------------
Timer == Tick \/ Elapse \/ StartUnit \/ Reboot

Sweep ==
  \/ Stamp \/ List \/ ListFails \/ EndSweep
  \/ \E s \in Schedules : PassOver(s) \/ Run(s) \/ EndRun(s)

Hands == \E s \in Schedules : HandAsk(s) \/ HandRun(s) \/ HandEnd(s)

Next == Timer \/ Sweep \/ Hands

Spec == Init /\ [][Next]_vars

-----------------------------------------------------------------------------
(* Properties *)

\* No minute is stamped before it has come.
TypeOK ==
  /\ now \in 0..MaxTime /\ next \in 0..(MaxTime + BootTime)
  /\ step \in {"off", "starting", "list", "loop", "run"}
  /\ stamp \in 0..Minute(now)
  /\ todo \subseteq Schedules /\ at \subseteq Schedules
  /\ seen \in [Schedules -> 0..Minute(now) \cup {Never}]
  /\ last \in [Schedules -> 0..Minute(now) \cup {Never}]
  /\ hand \in [Schedules -> {"no", "asked", "running"}]
  /\ handed \in [Schedules -> 0..Minute(now)]
  /\ times \in [Schedules -> [Minutes -> Nat]]
  /\ byHand \in [Schedules -> SUBSET Minutes]
  /\ starts \in 0..MaxStarts /\ boots \in 0..MaxBoots

\* "two firings can land inside the same wall-clock minute; without this a
\* schedule would run twice" (AlreadyRanThisMinute, backup_scheduler.rs): no
\* sweep runs a schedule again for a minute, when nobody runs it by hand and no
\* operator starts the service on a machine that has rebooted.
OncePerMinute ==
  starts = 0 \/ boots = 0 =>
    \A s \in Schedules \ ByHand, m \in Minutes : times[s][m] <= 1

\* A sweep passes over a schedule that is due in its minute only if the
\* schedule has been run for that very minute (`should_run`, `record_run`).
NeverPassedOver ==
  [][\A s \in todo :
       step = "loop" /\ step' = "loop" /\ s \notin todo' /\ stamp \in Due[s] =>
         times[s][stamp] > 0 \/ stamp \in byHand[s]]_vars
=============================================================================
