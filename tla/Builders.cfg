SPECIFICATION Spec
CONSTANTS
  j1 = j1
  j2 = j2
  NoJob = NoJob
  Jobs <- TwoJobs
  Limit = 1
  MaxFailures = 1
SYMMETRY Symmetry
INVARIANTS
  SettledIsOver
  WithinLimit
  NothingForgotten
PROPERTIES
  NotDeletedInUse
  KeepsContract
CHECK_DEADLOCK FALSE
