SPECIFICATION Spec
CONSTANTS
  chess = chess
  soccer = soccer
  MaxId = 5
  Categories = {chess, soccer}
  PageSize = 2
  Half = 16
  Addresses <- MCAddresses
  MaxChanges = 2
CHECK_DEADLOCK FALSE
INVARIANTS
  TypeOK
  LinksFit
PROPERTIES
  FewMissed
