CONSTANTS
  a = a
  b = b
  None = None
  Customers = {a, b}
  Values = {1, 2}
  Patient = TRUE
  Asks <- MCAsks
  Unlucky = {a}
  MaxId = 2
  MaxAmiss = 1
SPECIFICATION Spec
INVARIANTS
  OwnRows
  OkMeansDone
  BothHalves
PROPERTIES
  OnlyTheirs
