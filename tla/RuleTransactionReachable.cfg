CONSTANTS
  a = a
  b = b
  c = c
  u1 = u1
  d = d
  o = o
  f = f
  x = x
  Root = Root
  Derived = Derived
  None = None
  Native = Native
  Orphan = Orphan
  Global = Global
  Paths = {a, b, c}
  Parent <- MCParent
  Anc <- MCAnc
  Uids = {Global, u1}
  Dirs = {d, o}
  Opaque = {o}
  Leaves = {f, x}
  MaxRules = 6
  Plans <- MCPlans
  ExtPayloads = {x}
  PageLen = 2
  MaxExt = 2
  MaxFaults = 2
SPECIFICATION Spec
INVARIANTS CleanIsReachable
CHECK_DEADLOCK FALSE
