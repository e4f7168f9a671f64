SPECIFICATION Spec
CONSTANTS
  o1 = o1
  o2 = o2
  o3 = o3
  o4 = o4
  None = None
  Partial = Partial
  Unread = Unread
  Objects = {o1, o2, o3, o4}
  Ident <- MCIdent
  Packages <- MCPackages
INVARIANTS
  NoRepeat
  RefusalIsFounded
PROPERTY
  InsertionIsCovered
