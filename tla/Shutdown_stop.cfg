SPECIFICATION FairSpec
CONSTANTS
  NPipes = 2
  Kinds = {TRUE, FALSE}
  Batch = 2
  Bounds <- NoClient
  c1 = c1
  Clients = {}
PROPERTY DestructorReturns
CHECK_DEADLOCK FALSE
