SPECIFICATION Spec
CONSTANTS
  k1 = k1
  k2 = k2
  m1 = m1
  m2 = m2
  None = None
  Keys = {k1, k2}
  ModuleIds = {m1, m2}
  ModuleOf <- MCModuleOf
  OurVals = {v1}
  ExtVals = {}
  Uids = {u1}
  ExtUids = {}
  Mounts = {t1}
  Provider = "nomount"
  Strict = FALSE
  MaxFaults = 1
INVARIANTS
  CleanReleasesUids
