SPECIFICATION HotSpec
CONSTANTS
  NameRank <- MCNameRank
  MaxLayers = 3
  Inputs <- MCInputs
  Managed = {"vendor"}
  HotInputs <- MCHotInputs
  LaterTrees <- MCLaterTrees
  LaterConfigs <- MCLaterConfigs
  MaxChanges = 1
  MaxOperations = 2
CHECK_DEADLOCK FALSE
INVARIANTS
  VfsReplaceIsWhole
