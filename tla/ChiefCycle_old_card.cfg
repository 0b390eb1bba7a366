SPECIFICATION Spec
CONSTANTS
  c1 = c1
  c2 = c2
  Contents = {c1, c2}
  NoOrders = NoOrders
  Requested = Requested
  NumOrders = 2
  MaxRounds = 3
  Configs <- AsyncConfigs
SYMMETRY ContentSymmetry
INVARIANT ApprovalIsFresh
