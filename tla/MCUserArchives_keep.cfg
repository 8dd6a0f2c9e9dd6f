CONSTANTS
  first = first
  second = second
  hand = hand
  None = None
  Runs <- MCRuns
  Scheduled <- MCScheduled
  Style <- MCStyle
  Keep <- MCKeep
  ToSftp = {first}
  ToS3 = {first, second}
  Day = 1
  Week = 2
  MaxTime = 2
SPECIFICATION Spec
INVARIANTS
  ListedAreWhole
  DirKeeps
  BucketKeeps
CHECK_DEADLOCK FALSE
