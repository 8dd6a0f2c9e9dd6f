CONSTANTS
  a = a
  b = b
  None = None
  Sites = {a, b}
  Covers <- MCCovers
  Zone <- MCZone
  Apps = {x}
  Asks <- MCAsks
  MaxAstray = 1
SPECIFICATION Spec
INVARIANTS
  NothingMissing
  ServesItsRow
  SourceStays
CHECK_DEADLOCK FALSE
