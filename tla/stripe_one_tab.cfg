SPECIFICATION FairSpec
CONSTANTS
  Tabs = {t1}
  Products = {ball, cap}
  Payments = {s1, s2}
  NoPayment = NoPayment
  MaxQuantity = 1
  MaxRevisits = 1
  MaxFaults = 1
  MaxDeletions = 1
CHECK_DEADLOCK FALSE
INVARIANTS
  TypeOK
  OrderedOnce
PROPERTY
  PaidIsSaved
