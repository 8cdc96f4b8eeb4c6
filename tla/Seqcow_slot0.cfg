SPECIFICATION Spec
CONSTANTS
  B = 4
  Room = 2
  c1 = c1
  c2 = c2
  k1 = k1
  k2 = k2
  Keys = {k1, k2}
  Clients = {c1, c2}
  MaxTicket = 4
  Setups <- Single
INVARIANT ValueChecked
CHECK_DEADLOCK FALSE
