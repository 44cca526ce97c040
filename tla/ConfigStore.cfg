SPECIFICATION Spec
CONSTANTS
  Instance = {i1, i2}
  Key = {k1}
  BadKey = {b1}
  Name = {n1, n2}
  BadName = {x1}
  Unset = Unset
  Torn = Torn
  Missing = Missing
INVARIANTS
  StoreTypeOK
  OldOrNew
PROPERTIES
  SaveEnds
