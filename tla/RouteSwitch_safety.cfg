SPECIFICATION Spec
CONSTANTS
  routeA = routeA
  routeB = routeB
  paper = paper
  live = live
  Submitters = {s1, s2}
  Operators = {o1, o2}
  Cycles = {d1}
  NumOrders = 1
  Targets <- BothTargets
  Simulation <- TargetA
  RecoverLive = FALSE
  ReadsFail = TRUE
  MaxGeneration = 2
  MaxIssued = 2
SYMMETRY ProcessSymmetry
INVARIANTS
  TypeOK
  WorkingOrdersAreCurrent
  WorkingOrdersBlock
  DrainHolds
  FreezeHeld
PROPERTIES
  AbortKeepsGeneration
  AuthoritySpec
