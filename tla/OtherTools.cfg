SPECIFICATION Spec
CONSTANTS
  BootId = {0, 1}
  LoadOption <- MCTwoOptions
  Unparsable = {junk}
  Garbage = {odd}
  Partition <- Partitions
  Removable = {stick}
  Absent = Absent
  BootOrder = BootOrder
  BootNext = BootNext
  Helper = {h1}
  Ui = Ui
  None = None
  ReadErrors = {"Io"}
  Missing <- MCNothingMissing
  Behaviours = {"Correct"}
  InitialStates <- MCPlain
  OrderEdits <- MCOrderEdits
  MaxEdits = 1
  disk = disk
  stick = stick
  windows = windows
  debian = debian
  junk = junk
  odd = odd
INVARIANTS
  RebootOnlyVerified
PROPERTIES
  WritesOnlyWhatWasAsked
  BootsOnce
