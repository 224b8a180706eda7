SPECIFICATION Spec
CONSTANTS
  o1 = o1
  o2 = o2
  o3 = o3
  ball = ball
  cap = cap
  ghost = ghost
  Orders = {o1, o2}
  NoOrder = NoOrder
  ProductIds = {ball, cap, ghost}
  Products = {ball, cap}
  InitialStock <- MCStock
  Requests <- MCRepeated
  MaxFaults = 0
CHECK_DEADLOCK FALSE
INVARIANT
  StockNeverNegative
