CONSTANTS
  None = None
  Torn = Torn
  Paths = {near, beside, far}
  Scanned = {near, far}
  Movable = {near, beside, far}
  Far = {far}
  Files = {f1, f2}
  Links = {}
  Jobs = {j1}
  MaxIds = 1
  MaxAsks = 1
  MaxFalls = 1
SPECIFICATION Spec
INVARIANTS
  TypeOK
  NothingLost
  RecordIsTheFile
  QuarantinedIsAside
SYMMETRY Alike
