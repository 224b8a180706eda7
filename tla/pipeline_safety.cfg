SPECIFICATION Spec
CONSTANTS
  o1 = o1
  o2 = o2
  o3 = o3
  ball = ball
  cap = cap
  ghost = ghost
  Orders = {o1, o2, o3}
  NoOrder = NoOrder
  ProductIds = {ball, cap, ghost}
  Products = {ball, cap}
  InitialStock <- MCStock
  Requests <- MCRequests
  MaxFaults = 0
SYMMETRY Symmetry
CHECK_DEADLOCK FALSE
INVARIANTS
  TypeOK
  LegalHistory
  OnePlace
  StatusHonest
  NothingForgotten
  StockAccounted
  StockNeverNegative
PROPERTIES
  OnlyCheckoutSetsBack
