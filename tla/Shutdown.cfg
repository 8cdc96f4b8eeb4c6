SPECIFICATION FairSpec
CONSTANTS
  NPipes = 3
  Kinds = {TRUE, FALSE}
  Batch = 3
  Bounds <- Both
  c1 = c1
  Clients = {c1}
INVARIANT Drained
PROPERTIES CalmDestructorReturns CollectReflects CollectReturns
CHECK_DEADLOCK FALSE
