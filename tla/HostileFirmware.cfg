SPECIFICATION FairSpec
CONSTANTS
  BootId = {0, 1}
  LoadOption <- MCLoadOption
  Unparsable = {junk}
  Garbage = {odd}
  Partition <- Partitions
  Removable = {}
  Absent = Absent
  BootOrder = BootOrder
  BootNext = BootNext
  Helper = {h1}
  Ui = Ui
  None = None
  ReadErrors = {"NotUefi", "Io"}
  Missing <- MCMissing
  Behaviours <- AllBehaviours
  InitialStates <- MCPlainOrOdd
  OrderEdits <- MCOrderEdits
  MaxEdits = 0
  disk = disk
  stick = stick
  windows = windows
  debian = debian
  junk = junk
  odd = odd
INVARIANTS
  TypeOK
  RebootOnlyVerified
  LandsOnConfirmed
  DryRunStartsNoHelper
PROPERTIES
  PromiseFailsOnlyAtReadBack
  WritesOnlyWhatWasAsked
  CommandEnds
