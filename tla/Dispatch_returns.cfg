SPECIFICATION FairSpec
CONSTANTS
  brief = brief
  review = review
  Kinds = {"schedule", "event"}
  Calls = {c1}
  NoCall = NoCall
  Tasks = {brief, review}
  Deps <- Chain
  Pool = 1
  MaxTries = 2
  MaxNo = 3
  MaxReopen = 1
PROPERTIES
  DispatchReturns
CHECK_DEADLOCK FALSE
