SPECIFICATION Spec
CONSTANTS
  B = 3
  NPipes = 3
  w1 = w1
  w2 = w2
  Workers = {w1, w2}
  MaxTicket = 6
  MaxNeed = 5
SYMMETRY WorkerSymmetry
INVARIANTS OneOwner PreviousRoot StageOrder
CHECK_DEADLOCK FALSE
