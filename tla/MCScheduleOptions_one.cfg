CONSTANTS
  Creates = {c1, c2, c3}
  Deletes = {d1, d2}
  Runs = {r1}
  None = None
  MaxId = 2
  ForeignKeys = FALSE
  Overlap = FALSE
SYMMETRY Alike
SPECIFICATION OptionsSpec
INVARIANTS
  KeepsItsOptions
CHECK_DEADLOCK FALSE
