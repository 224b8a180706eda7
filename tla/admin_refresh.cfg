SPECIFICATION Spec
CONSTANTS
  Admins = {a1, a2}
  Orders = {o1}
  Nobody = Nobody
CHECK_DEADLOCK FALSE
PROPERTY
  RefreshShowsDatabase
