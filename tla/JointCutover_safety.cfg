SPECIFICATION JSpec
CONSTANTS
  k1 = k1
  s1 = s1
  s2 = s2
  i1 = i1
  i2 = i2
  i3 = i3
  Keys = {k1}
  Scopes = {s1, s2}
  ScopeOf <- TwoScopes
  Template = Template
  Owners = {"legacy", "dispatcher"}
  Attempts = {a1}
  NoAttempt = NoAttempt
  Actors = {x}
  NoActor = NoActor
  MaxGeneration = 3
  MaxFreezes = 3
  Batches = {b1, b2}
  NoBatch = NoBatch
  Coordinators = {c1, c2}
  Identities = {i1, i2, i3}
  ScopeOfIdentity <- ScopePerIdentity
  Requests <- ThereAndBack
  NoScope = NoScope
SYMMETRY ProcessSymmetry
INVARIANTS
  JTypeOK
  ReleasedFollows
PROPERTIES
  RuntimeSpec
CHECK_DEADLOCK FALSE
