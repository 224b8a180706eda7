SPECIFICATION Spec
CONSTANTS
  Tabs = {t1}
  Products = {ball, cap}
  Payments = {s1, s2}
  NoPayment = NoPayment
  MaxQuantity = 2
  MaxRevisits = 0
  MaxFaults = 0
  MaxDeletions = 1
CHECK_DEADLOCK FALSE
PROPERTY
  ConfirmedIsNotFailed
