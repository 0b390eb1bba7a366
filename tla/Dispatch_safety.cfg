SPECIFICATION Spec
CONSTANTS
  brief = brief
  review = review
  Kinds = {"event"}
  Calls = {c1, c2}
  NoCall = NoCall
  Tasks = {brief, review}
  Deps <- Chain
  Pool = 1
  MaxTries = 1
  MaxNo = 2
  MaxReopen = 0
SYMMETRY CallSymmetry
INVARIANTS
  TypeOK
  CompleteIsBacked
  SupersededStays
  DependenciesFirst
PROPERTIES
  FirstResultStands
CHECK_DEADLOCK FALSE
