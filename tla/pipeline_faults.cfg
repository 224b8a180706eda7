SPECIFICATION FairSpec
CONSTANTS
  o1 = o1
  o2 = o2
  o3 = o3
  ball = ball
  cap = cap
  ghost = ghost
  Orders = {o1, o2}
  NoOrder = NoOrder
  ProductIds = {ball, cap, ghost}
  Products = {ball, cap}
  InitialStock <- MCStock
  Requests <- MCDistinct
  MaxFaults = 2
CHECK_DEADLOCK FALSE
INVARIANTS
  LegalHistory
  OnePlace
  StatusHonest
  StockNeverNegative
PROPERTIES
  OnlyCheckoutSetsBack
  EveryOrderRuns
  PromptCheckoutSettles
  PipelineDrains
  ImplementsLifecycle
