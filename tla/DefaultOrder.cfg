SPECIFICATION Spec
CONSTANTS
  BootId = {0, 1, 2}
  LoadOption <- MCOneOption
  Unparsable = {}
  Garbage = {odd}
  Partition <- Partitions
  Removable = {}
  Absent = Absent
  BootOrder = BootOrder
  BootNext = BootNext
  Helper = {h1}
  Ui = Ui
  None = None
  ReadErrors = {}
  Missing <- MCNothingMissing
  Behaviours <- OrderBehaviours
  InitialStates <- MCOrders
  OrderEdits <- MCOrderEdits
  MaxEdits = 1
  disk = disk
  stick = stick
  windows = windows
  debian = debian
  junk = junk
  odd = odd
PROPERTIES
  DefaultVerified
  DefaultOnlyReorders
