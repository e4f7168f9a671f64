CONSTANTS
  a = a
  b = b
  c = c
  u1 = u1
  d = d
  o = o
  f = f
  Root = Root
  Derived = Derived
  None = None
  Native = Native
  Orphan = Orphan
  Global = Global
  Paths = {a, b, c}
  Parent <- MCParent
  Anc <- MCAnc
  Uids = {Global, u1}
  Dirs = {d, o}
  Opaque = {o}
  Leaves = {f}
  MaxRules = 4
SPECIFICATION TableSpec
INVARIANTS LinksAreLive ListIsExact
PROPERTIES DelKeepsOthers RefreshKeepsSubtree
CHECK_DEADLOCK FALSE
