SPECIFICATION Spec
SYMMETRY Symmetric
CONSTANTS
  None = None
  i1 = i1
  i2 = i2
  i3 = i3
  i4 = i4
  k1 = k1
  k2 = k2
  Ids = {i1, i2, i3, i4}
  Kinds = {k1, k2}
  Paths <- MCPaths
  Depth <- MCDepth
  Within <- MCWithin
  MaxTime = 4
PROPERTY
  BaselineKept
  StrangersKept
