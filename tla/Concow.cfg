SPECIFICATION Spec
CONSTANTS
  RetiredInline = 1
  RetiredBlock = 1
  Half = 2
  MaxHeight = 0
  ArtBase = 5
  ArtWidth = 2
  ArtCaps <- ArtNodes
  AertBase = 3
  AertWidth = 4
  AertCaps <- AertNodes
  NWorkers = 2
  Setups <- AllSetups
INVARIANTS ScansExact RetiredExactly CheckpointRestores EntrySeesWhole NeverStuck
PROPERTY SnapshotsKept
CHECK_DEADLOCK FALSE
