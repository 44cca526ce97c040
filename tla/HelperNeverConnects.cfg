SPECIFICATION FairSpec
CONSTANTS
  BootId = {0, 1}
  LoadOption <- MCLoadOption
  Unparsable = {junk}
  Garbage = {odd}
  Partition <- Partitions
  Absent = Absent
  BootOrder = BootOrder
  BootNext = BootNext
  Helper = {h1}
  None = None
  PROTOCOL_VERSION = 1
  Versions = {1}
  ProbeLimit = 2
  Inventories <- MCBothDisks
  Behaviours = {"Correct"}
  InitialStates <- MCListed
  OrderEdits <- MCOrderEdits
  MaxEdits = 0
  disk = disk
  stick = stick
  windows = windows
  debian = debian
  junk = junk
  odd = odd
PROPERTIES
  ConnectionEnds
