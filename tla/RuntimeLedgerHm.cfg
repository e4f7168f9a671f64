SPECIFICATION Spec
CONSTANTS
  k1 = k1
  k2 = k2
  m1 = m1
  m2 = m2
  None = None
  Keys = {k1, k2}
  ModuleIds = {m1, m2}
  ModuleOf <- MCModuleOf
  OurVals = {v1, v2}
  ExtVals = {x1}
  Uids = {u1}
  ExtUids = {u1, u2}
  Mounts = {t1}
  Provider = "hm"
  Strict = FALSE
  MaxFaults = 2
INVARIANTS
  TypeOK
  RulesRecorded
  UidsRecorded
  MountsRecorded
  CleanMeansReleased
  IsolatedBeforePublished
  SnapshotMatchesLedger
PROPERTIES
  ReadyIsExact
  IsolationOutlivesRules
  ForeignRulesUntouched
  ForeignUidsUntouched
