SPECIFICATION Spec
CONSTANTS
  u1 = u1
  u2 = u2
  c1 = c1
  c2 = c2
  c3 = c3
  ball = ball
  cap = cap
  Users = {u1}
  NoUser = NoUser
  Products = {ball, cap}
  Calls = {c1, c2}
  MaxAdds = 4
SYMMETRY Symmetry
CHECK_DEADLOCK FALSE
INVARIANTS
  TypeOK
  RequestsDistinct
  UnitsAccounted
