SPECIFICATION FairSpec
CONSTANTS
  c1 = c1
  c2 = c2
  c3 = c3
  Contents = {c1, c2, c3}
  NoOrders = NoOrders
  Requested = Requested
  NumOrders = 2
  MaxRounds = 3
  Configs <- AllConfigs
INVARIANTS
  TypeOK
  OrdersTraceable
  AcceptedStaysCurrent
  ApprovalAnswersReview
  InterruptIsReviewed
  EndIsTerminal
PROPERTIES
  ClosedIsFinal
  ChainSpec
  RunReturns
