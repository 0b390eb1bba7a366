SPECIFICATION Spec
CONSTANTS
  s1 = s1
  Keys = {k1}
  Scopes = {s1}
  ScopeOf <- OneScope
  Template = Template
  Owners = {"legacy", "dispatcher"}
  Attempts = {a1, a2}
  NoAttempt = NoAttempt
  Actors = {x, y}
  NoActor = NoActor
  MaxGeneration = 3
  MaxFreezes = 2
SYMMETRY AttemptSymmetry
PROPERTIES
  SwitchSparesLive
CHECK_DEADLOCK FALSE
