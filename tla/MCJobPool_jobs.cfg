CONSTANTS
  j1 = j1
  j2 = j2
  j3 = j3
  s1 = s1
  Jobs <- MCJobs
  Schedules <- MCSchedules
  Limit = 2
  Workers = 2
  MaxTime = 1
  MaxRestarts = 1
SPECIFICATION FairSpec
INVARIANTS
  WorkersFindTheirJob
PROPERTIES
  OldestGoFirst
  CutToLimit
  KeepsThePromise
  QueuedEnds
CHECK_DEADLOCK FALSE
