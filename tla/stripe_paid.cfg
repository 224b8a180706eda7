SPECIFICATION Spec
CONSTANTS
  Tabs = {t1}
  Products = {ball, cap}
  Payments = {s1, s2}
  NoPayment = NoPayment
  MaxQuantity = 1
  MaxRevisits = 0
  MaxFaults = 0
  MaxDeletions = 0
CHECK_DEADLOCK FALSE
INVARIANT
  OrderPaid
