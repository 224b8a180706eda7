SPECIFICATION FairSpec
CONSTANTS
  o1 = o1
  o2 = o2
  o3 = o3
  ball = ball
  cap = cap
  ghost = ghost
  Orders = {o1}
  NoOrder = NoOrder
  ProductIds = {ball, cap, ghost}
  Products = {ball, cap}
  InitialStock <- MCStock
  Requests <- MCOneRequest
  MaxFaults = 1
CHECK_DEADLOCK FALSE
PROPERTY
  FailedStepMarked
