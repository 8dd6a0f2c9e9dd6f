------------------------ MODULE BackupSchedules_proofs ------------------------
(***************************************************************************)
(* Theorems about the backup schedules.                                    *)
(*                                                                         *)
(* The timer (BackupTimer): no sweep runs a schedule twice for one minute, *)
(* unless somebody runs it by hand, or an operator starts the service on a *)
(* machine that has rebooted: for any number of schedules, whenever they   *)
(* are due, however long their runs take and whatever is run by hand.      *)
(*                                                                         *)
(* Their rows and options (ScheduleOptions): as long as requests do not    *)
(* overlap, every schedule keeps its options, with or without foreign      *)
(* keys, for every number of requests and of ids.                          *)
(***************************************************************************)
EXTENDS BackupTimer, ScheduleOptions, TLAPS

\* The sweep after a reboot is for a later minute than the one that was cut.
Later ==
  \/ step = "off" /\ Minute(next) > stamp
  \/ step = "starting" /\ Minute(now) > stamp

\* What has been run for the sweep's minute is recorded, or is running, or was
\* cut short by a reboot.
Accounted(s) ==
  times[s][stamp] > 0 => last[s] = stamp \/ s \in at \/ (boots > 0 /\ Later)

\* The schedules that nobody runs by hand.
Timed == Schedules \ ByHand

\* The sweep works on what it read: nobody else writes meanwhile.
Sweeping ==
  /\ at # {} => step = "run" /\ \E s \in Schedules : at = {s}
  /\ step = "loop" => \A s \in todo \cap Timed : seen[s] = last[s]
  /\ step = "run" => \A s \in todo \cap Timed : seen[s] = last[s] /\ s \notin at

NoHands == \A s \in Timed : hand[s] = "no"

NotYet == \A s \in Schedules, m \in Minutes : m > stamp => times[s][m] = 0

\* No operator starts the service on a machine that has rebooted.
LeftAlone == starts = 0 \/ boots = 0

AllAccounted == LeftAlone => \A s \in Timed : Accounted(s)

IInv == TypeOK /\ NoHands /\ NotYet /\ Sweeping /\ OncePerMinute /\ AllAccounted

-----------------------------------------------------------------------------
LEMMA MinuteFacts ==
  /\ \A q \in Nat : Minute(q) \in Nat
  /\ \A p, q \in Nat : p <= q => Minute(p) <= Minute(q)
  /\ \A q \in Nat : Minute(q + BootTime) > Minute(q)
  BY DEF Minute, BootTime

\* No time lies beyond the bound, nor is any of its minutes Never.
LEMMA MinutesOfNow ==
  ASSUME TypeOK
  PROVE  /\ Minute(now) \in Minutes /\ 0..Minute(now) \subseteq Minutes
         /\ stamp \in Minutes /\ stamp # Never
  <1>1. now \in Nat /\ now <= MaxTime /\ Minute(now) <= Minute(MaxTime)
    BY ConstantsAssumption, MinuteFacts DEF TypeOK
  <1>2. Minute(now) \in Nat /\ Minute(MaxTime) \in Nat
    BY <1>1, ConstantsAssumption, MinuteFacts
  <1>3. QED
    BY <1>1, <1>2 DEF TypeOK, Minutes, Never

LEMMA InitInv == Init => IInv
  <1> SUFFICES ASSUME Init PROVE IInv
    OBVIOUS
  <1>1. TypeOK
    <2>1. Minute(0) = 0
      BY DEF Minute
    <2>2. QED
      BY <2>1, ConstantsAssumption DEF Init, TypeOK, BootTime
  <1>2. NoHands /\ Sweeping
    BY DEF Init, NoHands, Sweeping, Timed
  <1>3. 0 \in Minutes
    BY ConstantsAssumption, MinuteFacts DEF Minutes
  <1>4. NotYet /\ OncePerMinute /\ AllAccounted
    BY <1>3 DEF Init, NotYet, OncePerMinute, AllAccounted, Accounted, Timed
  <1>5. QED
    BY <1>1, <1>2, <1>4 DEF IInv

LEMMA TypeStep == TypeOK /\ [Next]_vars => TypeOK'
  <1> SUFFICES ASSUME TypeOK, [Next]_vars PROVE TypeOK'
    OBVIOUS
  <1> USE ConstantsAssumption
  <1>0. /\ now \in Nat /\ next \in Nat /\ Minute(now) \in Nat
        /\ Minute(now) \in Minutes /\ stamp \in Minutes
    BY MinuteFacts, MinutesOfNow DEF TypeOK
  <1>1. CASE Tick
    <2>1. now' \in 0..MaxTime /\ Minute(now) <= Minute(now')
      BY <1>0, <1>1, MinuteFacts DEF Tick
    <2>2. Minute(now)' = Minute(now')
      BY DEF Minute
    <2>3. Minute(now') \in Nat
      BY <2>1, MinuteFacts
    <2>4. 0..Minute(now) \subseteq 0..Minute(now')
      BY <1>0, <2>1, <2>3
    <2>5. QED
      BY <1>1, <2>1, <2>2, <2>4 DEF Tick, TypeOK, sweep, hands, limits
  <1>2. CASE Elapse \/ StartUnit \/ Reboot
    <2>1. next' \in 0..(MaxTime + BootTime)
      BY <1>0, <1>2 DEF Elapse, StartUnit, Reboot, Period, BootTime, TypeOK
    <2>2. now' = now /\ Minute(now)' = Minute(now)
      BY <1>2 DEF Elapse, StartUnit, Reboot, Minute
    <2>3. step' \in {"off", "starting", "list", "loop", "run"}
      BY <1>2 DEF Elapse, StartUnit, Reboot, Activate, TypeOK
    <2>4. starts' \in 0..MaxStarts /\ boots' \in 0..MaxBoots
      <3>1. CASE Elapse
        BY <1>0, <3>1 DEF Elapse, TypeOK, limits
      <3>2. CASE StartUnit
        BY <3>2 DEF StartUnit, TypeOK
      <3>3. CASE Reboot
        BY <3>3 DEF Reboot, TypeOK
      <3>4. QED
        BY <1>2, <3>1, <3>2, <3>3
    <2>5. QED
      BY <1>2, <2>1, <2>2, <2>3, <2>4
         DEF Elapse, StartUnit, Reboot, TypeOK, sweep, hands, limits
  <1>3. CASE Sweep
    <2>1. now' = now /\ Minute(now)' = Minute(now)
      BY <1>3 DEF Sweep, Stamp, List, ListFails, EndSweep, PassOver, Run, EndRun, Minute
    <2>2. CASE Stamp \/ List \/ ListFails \/ EndSweep
      <3>1. CASE Stamp
        BY <1>0, <2>1, <3>1 DEF Stamp, TypeOK, hands, limits
      <3>2. CASE List
        BY <2>1, <3>2 DEF List, TypeOK, hands, limits
      <3>3. CASE ListFails \/ EndSweep
        BY <2>1, <3>3 DEF ListFails, EndSweep, TypeOK, hands, limits
      <3>4. QED
        BY <2>2, <3>1, <3>2, <3>3
    <2>3. ASSUME NEW s \in Schedules, PassOver(s) \/ EndRun(s) PROVE TypeOK'
      BY <1>0, <2>1, <2>3 DEF PassOver, EndRun, Record, TypeOK, hands, limits
    <2>4. ASSUME NEW s \in Schedules, Run(s) PROVE TypeOK'
      <3>1. times' \in [Schedules -> [Minutes -> Nat]]
        BY <1>0, <2>4 DEF Run, TypeOK
      <3>2. QED
        BY <2>1, <2>4, <3>1 DEF Run, TypeOK, hands, limits
    <2>5. QED
      BY <1>3, <2>2, <2>3, <2>4 DEF Sweep
  <1>4. CASE Hands
    <2>1. now' = now /\ Minute(now)' = Minute(now)
      BY <1>4 DEF Hands, HandAsk, HandRun, HandEnd, Minute
    <2>2. PICK s \in Schedules : HandAsk(s) \/ HandRun(s) \/ HandEnd(s)
      BY <1>4 DEF Hands
    <2>3. QED
      <3>1. CASE HandAsk(s)
        BY <2>1, <3>1 DEF HandAsk, TypeOK, sweep, limits
      <3>2. CASE HandRun(s)
        BY <1>0, <2>1, <3>2 DEF HandRun, TypeOK, sweep, limits
      <3>3. CASE HandEnd(s)
        BY <2>1, <3>3 DEF HandEnd, Record, TypeOK, sweep, limits
      <3>4. QED
        BY <2>2, <3>1, <3>2, <3>3
  <1>5. CASE UNCHANGED vars
    <2>1. Minute(now)' = Minute(now)
      BY <1>5 DEF vars, Minute
    <2>2. QED
      BY <1>5, <2>1 DEF vars, TypeOK, sweep, hands, limits
  <1>6. QED
    BY <1>1, <1>2, <1>3, <1>4, <1>5 DEF Next, Timer

LEMMA StepInv == IInv /\ [Next]_vars => IInv'
  <1> SUFFICES ASSUME IInv, [Next]_vars
               PROVE  NoHands' /\ NotYet' /\ Sweeping' /\ OncePerMinute' /\ AllAccounted'
    BY TypeStep DEF IInv
  <1> DEFINE Goal == NoHands' /\ NotYet' /\ Sweeping' /\ OncePerMinute' /\ AllAccounted'
  <1>0. /\ TypeOK /\ TypeOK' /\ now \in Nat /\ next \in Nat /\ stamp \in Nat
        /\ Minute(now) \in Nat /\ Minute(next) \in Nat /\ stamp <= Minute(now)
        /\ stamp \in Minutes /\ Minute(now) \in Minutes
    <2>1. TypeOK /\ TypeOK'
      BY TypeStep DEF IInv
    <2>2. now \in Nat /\ next \in Nat
      BY <2>1, ConstantsAssumption DEF TypeOK, BootTime
    <2>3. Minute(now) \in Nat /\ Minute(next) \in Nat
      BY <2>2, MinuteFacts
    <2>4. stamp \in Nat /\ stamp <= Minute(now)
      BY <2>1, <2>3 DEF TypeOK
    <2>5. QED
      BY <2>1, <2>2, <2>3, <2>4, MinutesOfNow
  <1>1. CASE Hands
    <2>1. PICK s \in Schedules : HandAsk(s) \/ HandRun(s) \/ HandEnd(s)
      BY <1>1 DEF Hands
    <2>2. s \notin Timed
      BY <2>1 DEF IInv, NoHands, HandAsk, HandRun, HandEnd, Timed
    <2>3. \A r \in Timed : hand'[r] = hand[r] /\ last'[r] = last[r]
      <3>1. hand' = [hand EXCEPT ![s] = hand'[s]] /\ last' = [last EXCEPT ![s] = last'[s]]
        BY <1>0, <2>1 DEF HandAsk, HandRun, HandEnd, Record, TypeOK
      <3>2. QED
        BY <1>0, <2>2, <3>1 DEF TypeOK, Timed
    <2>4. UNCHANGED <<now, next, sweep, times, limits>> /\ Minute(now)' = Minute(now)
                                                       /\ Minute(next)' = Minute(next)
      BY <2>1 DEF HandAsk, HandRun, HandEnd, Minute
    <2>5. NoHands' /\ Sweeping'
      BY <2>3, <2>4 DEF IInv, NoHands, Sweeping, Timed, sweep
    <2>6. QED
      BY <2>3, <2>4, <2>5
         DEF IInv, NotYet, OncePerMinute, AllAccounted, LeftAlone, Accounted, Later, Timed,
             sweep, limits
  <1>2. CASE Tick
    <2>1. Minute(now') >= Minute(now)
      BY <1>0, <1>2, MinuteFacts DEF Tick
    <2>2. Minute(now') \in Nat
      BY <1>0, <1>2, MinuteFacts DEF Tick
    <2>3. Later => Later'
      <3>1. Minute(now)' = Minute(now') /\ Minute(next)' = Minute(next)
        BY <1>2 DEF Tick, Minute
      <3>2. QED
        BY <1>0, <1>2, <2>1, <2>2, <3>1 DEF Tick, Later, sweep
    <2>4. NoHands' /\ NotYet' /\ Sweeping' /\ OncePerMinute'
      BY <1>2 DEF Tick, IInv, NoHands, NotYet, Sweeping, OncePerMinute, sweep, hands, limits
    <2>5. AllAccounted'
      BY <1>2, <2>3 DEF Tick, IInv, AllAccounted, LeftAlone, Accounted, sweep, hands, limits
    <2>6. QED
      BY <2>4, <2>5
  <1>3. CASE Elapse \/ StartUnit
    <2>1. LeftAlone' => LeftAlone /\ (boots > 0 => ~StartUnit)
      BY <1>0, <1>3, ConstantsAssumption DEF Elapse, StartUnit, LeftAlone, TypeOK, limits
    <2>2. ASSUME boots > 0, Elapse, Later PROVE Later'
      <3>1. step \in {"off", "starting"}
        BY <2>2 DEF Later
      <3>2. Minute(now) > stamp
        <4>1. now >= next
          BY <2>2 DEF Elapse
        <4>2. Minute(now) >= Minute(next)
          BY <1>0, <4>1, MinuteFacts
        <4>3. QED
          BY <1>0, <2>2, <4>2 DEF Later
      <3>3. step' = "starting" /\ Minute(now)' = Minute(now) /\ stamp' = stamp
        BY <2>2, <3>1 DEF Elapse, Activate, Minute
      <3>4. QED
        BY <3>2, <3>3 DEF Later
    <2>3. /\ step' = step \/ (step = "off" /\ step' = "starting")
          /\ UNCHANGED <<now, stamp, todo, seen, at, hands, last, times, boots>>
      BY <1>3 DEF Elapse, StartUnit, Activate, limits
    <2>4. NoHands' /\ NotYet' /\ Sweeping'
      BY <2>3 DEF IInv, NoHands, NotYet, Sweeping, hands
    <2>5. OncePerMinute'
      BY <2>1, <2>3 DEF IInv, OncePerMinute, LeftAlone
    <2>6. AllAccounted'
      <3>1. ASSUME LeftAlone', NEW s \in Timed PROVE Accounted(s)'
        <4>1. Accounted(s)
          BY <2>1, <3>1 DEF IInv, AllAccounted
        <4>2. boots > 0 /\ Later => Later'
          BY <1>3, <2>1, <2>2, <3>1
        <4>3. QED
          BY <2>3, <4>1, <4>2 DEF Accounted
      <3>2. QED
        BY <3>1 DEF AllAccounted, Timed
    <2>7. QED
      BY <2>4, <2>5, <2>6
  <1>4. CASE Reboot
    <2>1. boots' > 0 /\ Later'
      <3>1. Minute(next)' > Minute(now) /\ Minute(next)' \in Nat
        <4>1. Minute(next)' = Minute(now + BootTime)
          BY <1>4 DEF Reboot, Minute
        <4>2. QED
          BY <1>0, <4>1, MinuteFacts DEF BootTime
      <3>2. QED
        BY <1>0, <1>4, <3>1, ConstantsAssumption DEF Reboot, Later, TypeOK
    <2>2. LeftAlone' => LeftAlone
      BY <1>0, <1>4 DEF Reboot, LeftAlone, TypeOK
    <2>3. NoHands' /\ NotYet' /\ Sweeping'
      BY <1>4 DEF Reboot, IInv, NoHands, NotYet, Sweeping, Timed
    <2>4. OncePerMinute'
      BY <1>4, <2>2 DEF Reboot, IInv, OncePerMinute, LeftAlone
    <2>5. QED
      BY <2>1, <2>3, <2>4 DEF AllAccounted, Accounted
  <1>5. CASE Stamp
    <2>1. stamp' = Minute(now) /\ step = "starting" /\ step' = "list" /\ at = {}
      BY <1>5 DEF Stamp, IInv, Sweeping
    <2>2. UNCHANGED <<at, todo, seen, last, times, hand, starts, boots>>
      BY <1>5 DEF Stamp, hands, limits
    <2>3. NoHands' /\ Sweeping' /\ OncePerMinute'
      BY <2>1, <2>2 DEF IInv, NoHands, Sweeping, OncePerMinute
    <2>4. NotYet'
      BY <1>0, <2>1, <2>2 DEF IInv, NotYet, Minutes
    <2>5. ASSUME LeftAlone', NEW s \in Timed PROVE Accounted(s)'
      <3>0. Accounted(s)
        BY <2>2, <2>5 DEF IInv, AllAccounted, LeftAlone
      <3>1. CASE Minute(now) = stamp
        BY <1>0, <2>1, <2>2, <3>0, <3>1 DEF Accounted, Later
      <3>2. CASE Minute(now) > stamp
        <4>1. times[s][Minute(now)] = 0
          BY <1>0, <3>2 DEF IInv, NotYet, Timed
        <4>2. QED
          BY <2>1, <2>2, <4>1 DEF Accounted
      <3>3. QED
        BY <1>0, <3>1, <3>2
    <2>6. QED
      BY <2>3, <2>4, <2>5 DEF AllAccounted, Timed
  <1>6. CASE List \/ ListFails \/ EndSweep
    <2>1. UNCHANGED <<stamp, at, last, times, hand, starts, boots>> /\ at = {} /\ ~Later
      BY <1>6 DEF List, ListFails, EndSweep, hands, limits, IInv, Sweeping, Later
    <2>2. Sweeping'
      BY <1>6, <2>1 DEF List, ListFails, EndSweep, Sweeping
    <2>3. QED
      BY <2>1, <2>2 DEF IInv, NoHands, NotYet, OncePerMinute, AllAccounted, LeftAlone, Accounted
  <1>7. ASSUME NEW s \in Schedules, PassOver(s) PROVE Goal
    <2>1. UNCHANGED <<stamp, at, last, times, hand, step, seen, starts, boots>> /\ ~Later
      BY <1>7 DEF PassOver, hands, limits, Later
    <2>2. Sweeping'
      BY <1>7, <2>1 DEF PassOver, Sweeping, IInv
    <2>3. QED
      BY <2>1, <2>2 DEF IInv, NoHands, NotYet, OncePerMinute, AllAccounted, LeftAlone, Accounted
  <1>8. ASSUME NEW s \in Schedules, Run(s) PROVE Goal
    <2>1. /\ at = {} /\ at' = {s} /\ ~Later /\ s \in todo /\ seen[s] # stamp
          /\ step = "loop" /\ step' = "run" /\ todo' = todo \ {s}
          /\ times' = [times EXCEPT ![s][stamp] = @ + 1]
          /\ UNCHANGED <<stamp, last, seen, hand, starts, boots>>
      BY <1>8 DEF Run, ShouldRun, Later, IInv, Sweeping, hands, limits
    <2>2. LeftAlone /\ s \in Timed => times[s][stamp] = 0
      <3>1. s \in Timed => seen[s] = last[s]
        BY <2>1 DEF IInv, Sweeping
      <3>2. LeftAlone /\ s \in Timed => ~(times[s][stamp] > 0)
        BY <2>1, <3>1 DEF IInv, AllAccounted, Accounted
      <3>3. QED
        BY <1>0, <3>2 DEF TypeOK
    <2>3. \A r \in Schedules, m \in Minutes :
            times'[r][m] = IF r = s /\ m = stamp THEN times[s][stamp] + 1 ELSE times[r][m]
      BY <1>0, <2>1 DEF TypeOK
    <2>4. NoHands' /\ Sweeping'
      BY <2>1 DEF IInv, NoHands, Sweeping
    <2>5. NotYet'
      BY <1>0, <2>1, <2>3 DEF IInv, NotYet
    <2>6. OncePerMinute'
      BY <1>0, <2>1, <2>2, <2>3 DEF IInv, OncePerMinute, LeftAlone, Timed
    <2>7. AllAccounted'
      BY <1>0, <2>1, <2>3 DEF IInv, AllAccounted, LeftAlone, Accounted, Timed
    <2>8. QED
      BY <2>4, <2>5, <2>6, <2>7
  <1>9. ASSUME NEW s \in Schedules, EndRun(s) PROVE Goal
    <2>1. /\ step = "run" /\ step' = "loop" /\ at' = {} /\ ~Later
          /\ \A r \in Schedules : last'[r] = IF r = s THEN stamp ELSE last[r]
          /\ UNCHANGED <<stamp, todo, seen, times, hand, starts, boots>>
      BY <1>0, <1>9 DEF EndRun, Record, TypeOK, Later, hands, limits
    <2>2. at = {s} /\ s \notin todo \cap Timed
      BY <1>9, <2>1 DEF EndRun, IInv, Sweeping
    <2>3. Sweeping'
      BY <1>0, <2>1, <2>2 DEF IInv, Sweeping, Timed, TypeOK
    <2>4. AllAccounted'
      BY <1>0, <2>1, <2>2 DEF IInv, AllAccounted, LeftAlone, Accounted, Timed
    <2>5. QED
      BY <2>1, <2>3, <2>4 DEF IInv, NoHands, NotYet, OncePerMinute
  <1>10. CASE UNCHANGED vars
    BY <1>10 DEF vars, sweep, hands, limits, IInv, NoHands, NotYet, Sweeping, OncePerMinute,
                 AllAccounted, LeftAlone, Accounted, Later, Minute
  <1>11. QED
    BY <1>1, <1>2, <1>3, <1>4, <1>5, <1>6, <1>7, <1>8, <1>9, <1>10
       DEF Next, Timer, Sweep

\* "two firings can land inside the same wall-clock minute; without this a
\* schedule would run twice": with it none does (`should_run`).
THEOREM RunsOnce == Spec => []OncePerMinute
  <1>1. IInv => OncePerMinute
    BY DEF IInv
  <1>2. QED
    BY InitInv, StepInv, <1>1, PTL DEF Spec

\* The clock, the timer and the rows keep their types, with runs by hand too.
THEOREM TypeCorrect == Spec => []TypeOK
  <1>1. Init => TypeOK
    BY InitInv DEF IInv
  <1>2. QED
    BY <1>1, TypeStep, PTL DEF Spec

-----------------------------------------------------------------------------
(* What a sweep goes by when it passes over a schedule: with runs by hand,  *)
(* reboots and starts by operators as well.                                 *)

Ran(s, m) == times[s][m] > 0 \/ m \in byHand[s]

\* A stamp stands for a run of that very minute, in the row and as it was read.
StampsAreRuns ==
  \A s \in Schedules : /\ last[s] # Never => Ran(s, last[s])
                       /\ seen[s] # Never => Ran(s, seen[s])

\* So will the stamps that are still to be written.
GoingRuns ==
  /\ at # {} => step = "run"
  /\ \A s \in at : Ran(s, stamp)
  /\ \A s \in Schedules : hand[s] = "running" => Ran(s, handed[s])

RunInv == TypeOK /\ StampsAreRuns /\ GoingRuns

\* No run is forgotten.
LEMMA RunsStay ==
  ASSUME TypeOK, [Next]_vars, NEW s \in Schedules, NEW m \in Minutes, Ran(s, m)
  PROVE  Ran(s, m)'
  <1>1. CASE UNCHANGED <<times, byHand>>
    BY <1>1 DEF Ran
  <1>2. CASE \E r \in Schedules : Run(r)
    BY <1>2, MinutesOfNow DEF Run, Ran, TypeOK, hands
  <1>3. CASE \E r \in Schedules : HandRun(r)
    BY <1>3 DEF HandRun, Ran, TypeOK
  <1>4. QED
    BY <1>1, <1>2, <1>3
       DEF Next, Timer, Sweep, Hands, Tick, Elapse, StartUnit, Reboot, Stamp, List, ListFails,
           EndSweep, PassOver, EndRun, HandAsk, HandEnd, hands, vars

LEMMA RunInvStep == RunInv /\ [Next]_vars => RunInv'
  <1> SUFFICES ASSUME RunInv, [Next]_vars PROVE StampsAreRuns' /\ GoingRuns'
    BY TypeStep DEF RunInv
  <1>0. /\ TypeOK /\ 0..Minute(now) \subseteq Minutes /\ stamp \in Minutes /\ Minute(now) \in Minutes
        /\ \A s \in Schedules : /\ last[s] # Never => last[s] \in Minutes
                                /\ seen[s] # Never => seen[s] \in Minutes
                                /\ handed[s] \in Minutes
    BY MinutesOfNow DEF RunInv, TypeOK
  <1> DEFINE RanThen(s, m) == times'[s][m] > 0 \/ m \in byHand'[s]
  <1>1. \A s \in Schedules, m \in Minutes : Ran(s, m) => RanThen(s, m)
    BY <1>0, RunsStay DEF Ran
  <1>2. /\ \A s \in Schedules : /\ last[s] # Never => RanThen(s, last[s])
                                /\ seen[s] # Never => RanThen(s, seen[s])
                                /\ hand[s] = "running" => RanThen(s, handed[s])
        /\ \A s \in at : RanThen(s, stamp)
    BY <1>0, <1>1 DEF RunInv, StampsAreRuns, GoingRuns, TypeOK
  <1> HIDE DEF RanThen
  <1> DEFINE Goal ==
        /\ \A s \in Schedules : /\ last'[s] # Never => RanThen(s, last'[s])
                                /\ seen'[s] # Never => RanThen(s, seen'[s])
                                /\ hand'[s] = "running" => RanThen(s, handed'[s])
        /\ at' # {} => step' = "run"
        /\ \A s \in at' : RanThen(s, stamp')
  <1>3. Goal => StampsAreRuns' /\ GoingRuns'
    BY DEF StampsAreRuns, GoingRuns, Ran, RanThen
  <1>4. ASSUME Timer \/ UNCHANGED vars PROVE Goal
    BY <1>2, <1>4 DEF Timer, Tick, Elapse, StartUnit, Reboot, Activate, sweep, hands, vars,
                      RunInv, GoingRuns
  <1>5. ASSUME Stamp \/ List \/ ListFails \/ EndSweep PROVE Goal
    BY <1>2, <1>5 DEF Stamp, List, ListFails, EndSweep, hands, RunInv, GoingRuns
  <1>6. ASSUME NEW r \in Schedules, PassOver(r) \/ EndRun(r)
        PROVE  Goal
    <2>1. \A s \in Schedules : last'[s] # last[s] => s \in at /\ last'[s] = stamp
      BY <1>0, <1>6 DEF PassOver, EndRun, Record, TypeOK
    <2>2. QED
      BY <1>2, <1>6, <2>1 DEF PassOver, EndRun, hands, RunInv, GoingRuns
  <1>7. ASSUME NEW r \in Schedules, Run(r)
        PROVE  Goal
    <2>1. RanThen(r, stamp)
      BY <1>0, <1>7 DEF Run, RanThen, TypeOK
    <2>2. QED
      BY <1>2, <1>7, <2>1 DEF Run, hands
  <1>8. ASSUME NEW r \in Schedules, HandAsk(r) \/ HandRun(r) \/ HandEnd(r)
        PROVE  Goal
    <2>1. \A s \in Schedules :
            /\ last'[s] # last[s] => hand[s] = "running" /\ last'[s] = handed[s]
            /\ hand'[s] = "running" => RanThen(s, handed'[s])
      BY <1>0, <1>2, <1>8 DEF HandAsk, HandRun, HandEnd, Record, TypeOK, RanThen
    <2>2. QED
      BY <1>2, <1>8, <2>1 DEF HandAsk, HandRun, HandEnd, sweep, RunInv, GoingRuns
  <1>9. QED
    BY <1>3, <1>4, <1>5, <1>6, <1>7, <1>8 DEF Next, Sweep, Hands

\* `should_run` goes by a last_run_at that was read before the sweep's runs, and
\* others run by hand meanwhile: what it passes over has been run all the same.
THEOREM PassedOverHasRun == Spec => NeverPassedOver
  <1> DEFINE Step == \A s \in todo :
               step = "loop" /\ step' = "loop" /\ s \notin todo' /\ stamp \in Due[s] =>
                 times[s][stamp] > 0 \/ stamp \in byHand[s]
  <1>1. Init => RunInv
    BY InitInv DEF IInv, RunInv, Init, StampsAreRuns, GoingRuns
  <1>2. RunInv /\ [Next]_vars => [Step]_vars
    <2> SUFFICES ASSUME RunInv, [Next]_vars, NEW s \in todo,
                        step = "loop", step' = "loop", s \notin todo', stamp \in Due[s]
                 PROVE  times[s][stamp] > 0 \/ stamp \in byHand[s]
      OBVIOUS
    <2>1. \E r \in Schedules : PassOver(r)
      BY DEF Next, Timer, Sweep, Hands, Tick, Elapse, StartUnit, Reboot, Stamp, List, ListFails,
             EndSweep, Run, EndRun, HandAsk, HandRun, HandEnd, sweep, vars
    <2>2. seen[s] = stamp /\ s \in Schedules /\ stamp # Never
      BY <2>1, MinutesOfNow DEF PassOver, ShouldRun, RunInv
    <2>3. QED
      BY <2>2 DEF RunInv, StampsAreRuns, Ran
  <1>3. QED
    BY <1>1, <1>2, RunInvStep, PTL DEF Spec, NeverPassedOver

-----------------------------------------------------------------------------
(* The schedules' rows and options.                                         *)

\* One request at a time is between its first and its last step.
OneInFlight == \A p, q \in InFlight : p = q

\* A schedule is in the row that its request inserted; a request to create
\* that is under way finds its own schedule there, one to delete finds none.
RowsAgree ==
  /\ \A i \in Ids : row[i] # None =>
       id[row[i]] = i /\ pc[row[i]] \in {"set", "undo", "over", "failed"}
  /\ \A c \in Creates : pc[c] \in {"set", "undo"} => row[id[c]] = c
  /\ \A d \in Deletes : pc[d] = "forget" => row[id[d]] = None

OptionsInv == OptionsTypeOK /\ OneInFlight /\ RowsAgree /\ KeepsItsOptions

LEMMA InitOptions == OptionsInit => OptionsInv
  BY OptionsAssumption DEF OptionsInit, OptionsInv, OptionsTypeOK, OneInFlight, InFlight, RowsAgree, KeepsItsOptions,
         Ids, Requests

LEMMA OptionTypesStep == OptionsTypeOK /\ [OptionsNext]_optionsVars => OptionsTypeOK'
  <1> SUFFICES ASSUME OptionsTypeOK, [OptionsNext]_optionsVars PROVE OptionsTypeOK'
    OBVIOUS
  <1> USE OptionsAssumption DEF OptionsTypeOK, Requests
  <1>1. ASSUME NEW c \in Creates, Insert(c) \/ Set(c) \/ SetFails(c) PROVE OptionsTypeOK'
    BY <1>1 DEF Insert, Set, SetFails
  <1>2. ASSUME NEW c \in Creates, Undo(c) PROVE OptionsTypeOK'
    BY <1>2 DEF Undo, RemoveRow
  <1>3. ASSUME NEW d \in Deletes, Delete(d) \/ Forget(d) PROVE OptionsTypeOK'
    BY <1>3 DEF Delete, Forget, RemoveRow
  <1>4. ASSUME NEW r \in Runs, Read(r) \/ Begin(r) \/ BeginFails(r) \/ End(r) PROVE OptionsTypeOK'
    BY <1>4 DEF Read, Begin, BeginFails, End
  <1>5. CASE UNCHANGED optionsVars
    BY <1>5 DEF optionsVars
  <1>6. QED
    BY <1>1, <1>2, <1>3, <1>4, <1>5 DEF OptionsNext

\* A run only reads.
LEMMA RunStep ==
  ASSUME OptionsInv, NEW r \in Runs, Read(r) \/ Begin(r) \/ BeginFails(r) \/ End(r)
  PROVE  /\ row' = row /\ opt' = opt
         /\ \A p \in Requests : pc'[p] = pc[p] /\ id'[p] = id[p]
  BY OptionsAssumption DEF OptionsInv, OptionsTypeOK, Read, Begin, BeginFails, End

LEMMA OptionsStep == ~Overlap /\ OptionsInv /\ [OptionsNext]_optionsVars => OptionsInv'
  <1> SUFFICES ASSUME ~Overlap, OptionsInv, [OptionsNext]_optionsVars
               PROVE  OneInFlight' /\ RowsAgree' /\ KeepsItsOptions'
    BY OptionTypesStep DEF OptionsInv
  <1> USE OptionsAssumption DEF OptionsInv, OptionsTypeOK, Requests
  <1>1. ASSUME NEW c \in Creates, Insert(c)
        PROVE  OneInFlight' /\ RowsAgree' /\ KeepsItsOptions'
    <2>1. InFlight = {} /\ pc[c] = "new" /\ NextId \in Ids
      BY <1>1 DEF Insert, MayBegin
    <2> DEFINE n == NextId
    <2>2. /\ row' = [row EXCEPT ![n] = c] /\ id' = [id EXCEPT ![c] = n]
          /\ pc' = [pc EXCEPT ![c] = "set"] /\ opt' = opt
      BY <1>1 DEF Insert
    <2> HIDE DEF n
    <2>3. n \in Ids
      BY <2>1 DEF n
    <2>4. \A p \in Requests : pc[p] \in {"new", "over", "failed"}
      BY <2>1 DEF InFlight
    <2>5. \A i \in Ids : row[i] # c
      BY <2>1 DEF RowsAgree
    <2>6. OneInFlight'
      BY <2>2, <2>4 DEF OneInFlight, InFlight
    <2>7. RowsAgree'
      BY <2>2, <2>3, <2>4, <2>5 DEF RowsAgree
    <2>8. KeepsItsOptions'
      BY <2>2, <2>3, <2>5 DEF KeepsItsOptions
    <2>9. QED
      BY <2>6, <2>7, <2>8
  <1>2. ASSUME NEW c \in Creates, Set(c) \/ SetFails(c)
        PROVE  OneInFlight' /\ RowsAgree' /\ KeepsItsOptions'
    <2>1. /\ row' = row /\ id' = id /\ row[id[c]] = c
          /\ \E x \in {"over", "undo"} : pc' = [pc EXCEPT ![c] = x]
      BY <1>2 DEF Set, SetFails, RowsAgree
    <2>2. OneInFlight' /\ RowsAgree'
      BY <1>2, <2>1 DEF Set, SetFails, OneInFlight, InFlight, RowsAgree
    <2>3. KeepsItsOptions'
      <3>1. CASE Set(c)
        BY <2>1, <3>1 DEF Set, KeepsItsOptions, RowsAgree
      <3>2. CASE SetFails(c)
        BY <2>1, <3>2 DEF SetFails, KeepsItsOptions
      <3>3. QED
        BY <1>2, <3>1, <3>2
    <2>4. QED
      BY <2>2, <2>3
  <1>3. ASSUME NEW c \in Creates, Undo(c)
        PROVE  OneInFlight' /\ RowsAgree' /\ KeepsItsOptions'
    <2>1. id' = id /\ pc' = [pc EXCEPT ![c] = "failed"] /\ pc[c] = "undo"
      BY <1>3 DEF Undo
    <2>2. \A p \in Requests : p # c => pc[p] \in {"new", "over", "failed"}
      BY <2>1 DEF OneInFlight, InFlight
    <2>3. /\ \A i \in Ids : row'[i] \in {row[i], None}
          /\ \A i \in Ids : row'[i] # None => opt'[i] = opt[i]
      BY <1>3 DEF Undo, RemoveRow
    <2>4. OneInFlight' /\ RowsAgree' /\ KeepsItsOptions'
      BY <2>1, <2>2, <2>3 DEF OneInFlight, InFlight, RowsAgree, KeepsItsOptions
    <2>5. QED
      BY <2>4
  <1>4. ASSUME NEW d \in Deletes, Delete(d)
        PROVE  OneInFlight' /\ RowsAgree' /\ KeepsItsOptions'
    <2>1. InFlight = {} /\ pc' = [pc EXCEPT ![d] = "forget"]
      BY <1>4 DEF Delete, MayBegin
    <2>2. \A p \in Requests : pc[p] \in {"new", "over", "failed"}
      BY <2>1 DEF InFlight
    <2>3. PICK i \in Ids : RemoveRow(i) /\ id' = [id EXCEPT ![d] = i]
      BY <1>4 DEF Delete
    <2>4. /\ \A k \in Ids : row'[k] = IF k = i THEN None ELSE row[k]
          /\ \A k \in Ids : k # i => opt'[k] = opt[k]
      BY <2>3 DEF RemoveRow
    <2>5. OneInFlight' /\ RowsAgree' /\ KeepsItsOptions'
      BY <2>1, <2>2, <2>3, <2>4
         DEF OneInFlight, InFlight, RowsAgree, KeepsItsOptions
    <2>6. QED
      BY <2>5
  <1>5. ASSUME NEW d \in Deletes, Forget(d)
        PROVE  OneInFlight' /\ RowsAgree' /\ KeepsItsOptions'
    <2>1. /\ row' = row /\ id' = id /\ row[id[d]] = None
          /\ pc' = [pc EXCEPT ![d] = "over"]
          /\ \A k \in Ids : k # id[d] => opt'[k] = opt[k]
      BY <1>5 DEF Forget, RowsAgree
    <2>2. QED
      BY <2>1 DEF OneInFlight, InFlight, RowsAgree, KeepsItsOptions
  <1>6. ASSUME NEW r \in Runs, Read(r) \/ Begin(r) \/ BeginFails(r) \/ End(r)
        PROVE  OneInFlight' /\ RowsAgree' /\ KeepsItsOptions'
    <2>1. /\ row' = row /\ opt' = opt
          /\ \A p \in Requests : pc'[p] = pc[p] /\ id'[p] = id[p]
      BY <1>6, RunStep
    <2>2. QED
      BY <2>1 DEF OneInFlight, InFlight, RowsAgree, KeepsItsOptions
  <1>7. CASE UNCHANGED optionsVars
    BY <1>7 DEF optionsVars, OneInFlight, InFlight, RowsAgree, KeepsItsOptions
  <1>8. QED
    BY <1>1, <1>2, <1>3, <1>4, <1>5, <1>6, <1>7 DEF OptionsNext

\* With one request at a time, a schedule whose creation was answered keeps its
\* own options although ids are handed out again, saving them may fail and the
\* options of a deleted schedule may stay behind (`set`, `create_backup_schedule`).
THEOREM OptionsKept == ~Overlap => (OptionsSpec => []KeepsItsOptions)
  <1> SUFFICES ASSUME ~Overlap PROVE OptionsSpec => []KeepsItsOptions
    OBVIOUS
  <1>1. OptionsInv /\ [OptionsNext]_optionsVars => OptionsInv'
    BY OptionsStep
  <1>2. OptionsInv => KeepsItsOptions
    BY DEF OptionsInv
  <1>3. QED
    BY InitOptions, <1>1, <1>2, PTL DEF OptionsSpec

\* Rows, options and requests keep to their values, overlapping or not.
THEOREM OptionTypes == OptionsSpec => []OptionsTypeOK
  <1>1. OptionsInit => OptionsTypeOK
    BY InitOptions DEF OptionsInv
  <1>2. QED
    BY <1>1, OptionTypesStep, PTL DEF OptionsSpec
=============================================================================
