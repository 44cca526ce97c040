SPECIFICATION FairSpec
CONSTANTS
  BootId = {0, 1}
  LoadOption <- MCLoadOption
  Unparsable = {junk}
  Garbage = {odd}
  Partition <- Partitions
  Absent = Absent
  BootOrder = BootOrder
  BootNext = BootNext
  Helper = {h1}
  None = None
  PROTOCOL_VERSION = 1
  Versions = {1, 2}
  ProbeLimit = 1
  Inventories <- MCInventories
  Behaviours <- AllBehaviours
  InitialStates <- MCListed
  OrderEdits <- MCOrderEdits
  MaxEdits = 1
  disk = disk
  stick = stick
  windows = windows
  debian = debian
  junk = junk
  odd = odd
INVARIANTS
  SessionTypeOK
  ServedByGreeted
  SessionLands
PROPERTIES
  
  ServedCommandsEnd
  OrphansEnd
