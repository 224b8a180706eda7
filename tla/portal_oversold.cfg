SPECIFICATION Spec
CONSTANTS
  u1 = u1
  u2 = u2
  o1 = o1
  o2 = o2
  ball = ball
  cap = cap
  Users = {u1, u2}
  NoUser = NoUser
  Orders = {o1}
  NoOrder = NoOrder
  Products = {cap}
  InitialStock <- MCCaps
  MaxAdds = 3
  MaxFaults = 0
CHECK_DEADLOCK FALSE
INVARIANT
  StockNeverNegative
