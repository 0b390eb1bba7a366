SPECIFICATION FairSpec
CONSTANTS
  Tasks = {t1, t2}
  Runs = {r1, r2}
  NoRun = NoRun
  NoTask = NoTask
  MaxAttempts = 2
  Reports <- SomeReports
INVARIANTS
  TypeOK
  NeverStranded
  OutcomeOfLastAttempt
PROPERTIES
  SettledIsFinal
  TaskSettles
