SPECIFICATION FairSpec
CONSTANTS
  Orders = {o1}
  Requests = {r1}
  MaxReloads = 1
CHECK_DEADLOCK FALSE
PROPERTIES
  FailedOrderSeen
