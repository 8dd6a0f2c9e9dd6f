CONSTANTS
  a = a
  b = b
  o = o
  p = p
  c1 = c1
  c2 = c2
  same = same
  None = None
  Domains = {a, b}
  Owners = {o, p}
  Names = {same}
  NameOf <- MCNameOf
  Clients = {c1, c2}
  Beside = {"install"}
  Bare = FALSE
  MaxAsks = 3
  MaxFalls = 1
SYMMETRY Alike
SPECIFICATION Spec
INVARIANTS
  TypeOK
  LiveIsWhole
  NameComesFree
CHECK_DEADLOCK FALSE
