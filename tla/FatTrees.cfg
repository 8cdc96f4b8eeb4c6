SPECIFICATION Spec
CONSTANTS
  RetiredInline = 1
  RetiredBlock = 2
  Half = 2
  MaxHeight = 0
  ArtBase = 5
  ArtWidth = 2
  ArtCaps <- ArtNodes
  AertBase = 3
  AertWidth = 4
  AertCaps <- AertNodes
  Setups <- AllSetups
INVARIANTS ScansExact RetiredExactly
PROPERTY SnapshotsKept
CHECK_DEADLOCK FALSE
