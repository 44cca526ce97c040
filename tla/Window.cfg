SPECIFICATION Spec
CONSTANTS
  Disk = {d1, d2}
  Listed = {d1}
  Removable = {d2}
  None = None
  MaxChanges = 2
  MaxInputs = 2
  MaxPrepares = 2
  MaxCalls = 2
INVARIANTS
  WindowTypeOK
  OneConfirmPerDialog
  SelectionIsListed
PROPERTIES
  ConfirmsOnlyWhatTheTitleNames
  RebootingEnds
  ShowsTheDevices
CHECK_DEADLOCK FALSE
