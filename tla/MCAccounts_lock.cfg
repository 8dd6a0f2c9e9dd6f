CONSTANTS
  a = a
  b = b
  None = None
  Customers = {a}
  Values = {1, 2}
  Patient = TRUE
  Asks <- MCAsksOne
  Unlucky = {a}
  MaxId = 2
  MaxAmiss = 0
SPECIFICATION Spec
INVARIANTS
  SuspendedIsLocked
CHECK_DEADLOCK FALSE
