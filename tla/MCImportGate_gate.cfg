CONSTANTS
  single = single
  bulk = bulk
  r1 = r1
  r2 = r2
  r3 = r3
  None = None
  Singles = {single}
  Bulks = {bulk}
  Restores <- MCRestores
  Files = 2
  KeptJobs = 2
  Disconnects = TRUE
SPECIFICATION GateFairSpec
INVARIANTS
  OneRestore
  SeenWhileAtWork
  Tally
PROPERTIES
  ComesToAnEnd
CHECK_DEADLOCK FALSE
