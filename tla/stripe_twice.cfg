SPECIFICATION Spec
CONSTANTS
  Tabs = {t1, t2}
  Products = {ball, cap}
  Payments = {s1, s2}
  NoPayment = NoPayment
  MaxQuantity = 1
  MaxRevisits = 1
  MaxFaults = 0
  MaxDeletions = 0
CHECK_DEADLOCK FALSE
INVARIANT
  OrderedOnce
