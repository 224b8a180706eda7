SPECIFICATION Spec
CONSTANTS
  u1 = u1
  u2 = u2
  c1 = c1
  c2 = c2
  c3 = c3
  ball = ball
  cap = cap
  Users = {u1, u2}
  NoUser = NoUser
  Products = {ball, cap}
  Calls = {c1}
  MaxAdds = 1
CHECK_DEADLOCK FALSE
INVARIANT
  OwnItems
