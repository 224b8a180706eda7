SPECIFICATION Spec
CONSTANTS
  u1 = u1
  u2 = u2
  o1 = o1
  o2 = o2
  ball = ball
  cap = cap
  Users = {u1}
  NoUser = NoUser
  Orders = {o1, o2}
  NoOrder = NoOrder
  Products = {cap}
  InitialStock <- MCCaps
  MaxAdds = 2
  MaxFaults = 1
SYMMETRY Symmetry
CHECK_DEADLOCK FALSE
PROPERTIES
  ImplementsPortal
  ImplementsPipeline
