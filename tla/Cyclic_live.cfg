SPECIFICATION FairSpec
CONSTANTS
  B = 4
  NPipes = 2
  w1 = w1
  w2 = w2
  Workers = {w1}
  MaxTicket = 4
  MaxNeed = 3
PROPERTY EventuallyCommitted
CHECK_DEADLOCK FALSE
