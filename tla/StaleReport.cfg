SPECIFICATION Spec
CONSTANTS
  Disk = {d1, d2}
  Listed = {d1, d2}
  Removable = {d2}
  None = None
  MaxChanges = 0
  MaxInputs = 2
  MaxPrepares = 2
  MaxCalls = 2
INVARIANTS
  DialogSaysWhatWillBeDone
CHECK_DEADLOCK FALSE
