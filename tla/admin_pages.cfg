SPECIFICATION FairSpec
CONSTANTS
  Admins = {a1, a2}
  Orders = {o1}
  Nobody = Nobody
  Products = {p1, p2}
  Columns = {name, price}
  Values = {1, 2}
  Blank = 0
  NoRow = NoRow
  New = New
  WorkflowOrders = {d1}
  Requests = {r1, r2}
  MaxReloads = 1
CHECK_DEADLOCK FALSE
INVARIANTS
  TypeOK
  StaleOnlyByOthers
  FiltersMatchCards
  PanelMatchesTable
PROPERTIES
  MarkTakesEffect
  NoEditUndone
  DeletedStaysGone
  LoadsOrSays
