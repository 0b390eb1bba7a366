SPECIFICATION FairSpec
CONSTANTS
  Orders = {o1}
  Clerks = {k1}
  Journals = {j1}
  SameId = {}
  Qty = 2
INVARIANTS
  TypeOK
  NoDoubleBooking
  BasisHolds
PROPERTY OrdersSettle
