SPECIFICATION Spec
CONSTANTS
  Admins = {a1, a2}
  Products = {p1}
  Columns = {name}
  Values = {1, 2}
  Blank = 0
  NoRow = NoRow
  New = New
CHECK_DEADLOCK FALSE
PROPERTY
  SavedOrTold
