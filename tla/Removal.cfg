SPECIFICATION FairSpec
CONSTANTS
  j1 = j1
  j2 = j2
  NoJob = NoJob
  Jobs <- OneJob
  Limit = 1
  MaxFailures = 2
PROPERTIES
  EventuallyRemoved
CHECK_DEADLOCK FALSE
