SPECIFICATION Spec
CONSTANTS
  Half = 2
  PipeCounts = {2, 3}
  NWorkers = 2
  MaxTicket = 4
  Keys = {2, 24}
  Modes <- AllModes
  Contents <- Trees
INVARIANTS RetiredExactly WritersSafe Balanced NeverStuck
PROPERTY SnapshotsKept
CHECK_DEADLOCK FALSE
