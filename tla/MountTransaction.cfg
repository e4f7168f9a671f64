CONSTANTS
  o1 = o1
  o2 = o2
  b1 = b1
  l1 = l1
  Overlays = {o1, o2}
  Binds = {b1}
  Layers = {l1}
  MaxFaults = 3
SPECIFICATION Spec
INVARIANTS TypeOK AbortReleasesAll CommitKeepsMounts CleanIsReleased EmptiedAfterFailure
PROPERTIES TargetsBeforeStorage
CHECK_DEADLOCK FALSE
