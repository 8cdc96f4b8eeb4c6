SPECIFICATION Spec
CONSTANTS
  Half = 2
  c1 = c1
  c2 = c2
  Clients = {c1, c2}
  Workers = {w1, w2}
  MinGroups = 2
  MaxVersion = 3
  Setups <- AllSetups
INVARIANTS ReservationsKept WorkersQuiescent RetiredExactly NobodyHangs StopDrains
PROPERTY SnapshotsKept
CHECK_DEADLOCK FALSE
SYMMETRY SomeWorker
