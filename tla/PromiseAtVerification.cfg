SPECIFICATION Spec
CONSTANTS
  BootId = {0, 1}
  LoadOption <- MCTwoOptions
  Unparsable = {junk}
  Garbage = {odd}
  Partition <- Partitions
  Removable = {}
  Absent = Absent
  BootOrder = BootOrder
  BootNext = BootNext
  Helper = {h1}
  Ui = Ui
  None = None
  ReadErrors = {"PrivilegeRequired"}
  Missing <- MCNothingMissing
  Behaviours = {"Correct"}
  InitialStates <- MCPlain
  OrderEdits <- MCOrderEdits
  MaxEdits = 0
  disk = disk
  stick = stick
  windows = windows
  debian = debian
  junk = junk
  odd = odd
INVARIANTS
  PromiseKept
