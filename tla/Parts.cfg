SPECIFICATION PartsSpec
CONSTANTS
  BootId = {0, 1, 2}
  LoadOption <- MCLoadOption
  Unparsable = {junk}
  Garbage = {odd}
  Partition = {p1, p2, q1, q2}
  Absent = Absent
  BootOrder = BootOrder
  BootNext = BootNext
  OrderValues <- MCOrderValues
  NextValues <- MCNextValues
  EntryValues <- MCEntryValues
  Sizes = {5, 7, 8, 12, 60, 61}
  Declared = {0, 2, 4, 5, 8, 46, 50, 51, 52, 65535}
  Lengths = {0, 3, 4, 5, 8, 41, 42, 65535}
  MaxNodes = 3
  Slot = {a, b}
  HotSlot = {b}
  Drive = {disk, stick1, stick2}
  NoDrive = NoDrive
  DriveOf <- MCDriveOf
  NumberOf <- MCNumberOf
  Esp = {p1, q1, q2}
  MaxMoves = 2
  CommandDelay = 2
  PromptDelay = 5
  ObservationDelay = 3
  ShutdownDelays = {1, 3, 4, 12}
  Never = Never
  disk = disk
  stick1 = stick1
  stick2 = stick2
  p1 = p1
  p2 = p2
  q1 = q1
  q2 = q2
  windows = windows
  debian = debian
  junk = junk
  odd = odd
  a = a
  b = b
INVARIANTS
  AcceptsOnlyBootNext
  AcceptsOnlyReordering
  ObeyedReorderingAccepted
  ParserTypeOK
  NodesTileTheList
  IdentityComesFromTheList
  InventoryTypeOK
  QuietListingIsTrue
  EveryBootableDiskShown
  EntryGetsItsOwnDisk
  DeadlinesBoundTheWaits
  NoMethodAfterOneThatWorks
CHECK_DEADLOCK FALSE
