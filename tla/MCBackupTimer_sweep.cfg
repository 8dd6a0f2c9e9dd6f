CONSTANTS
  s1 = s1
  s2 = s2
  Schedules = {s1, s2}
  ByHand = {s2}
  Due <- EvenMinutes
  MaxTime = 14
  MaxStarts = 1
  MaxBoots = 1
SPECIFICATION Spec
INVARIANTS
  OncePerMinute
PROPERTIES
  NeverPassedOver
CHECK_DEADLOCK FALSE
