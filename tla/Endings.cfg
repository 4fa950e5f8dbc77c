SPECIFICATION FairSpec
CONSTANTS
  a1 = a1
  a2 = a2
  u1 = u1
  u2 = u2
  NoApp = NoApp
  Apps <- OneApp
  Creators <- MCCreators
  Owner <- OneOwner
  Requests = {r1}
  ActiveLimit = 1
  AppLimit = 2
  BuildSeconds = 0
  MonthSeconds = 2
  MaxOps = 2
  MaxOrphans = 0
  MaxPublisherCrashes = 1
  MaxLifecycleCrashes = 1
INVARIANTS
  ContainersReserved
PROPERTIES
  DeploymentsEnd
  LifecycleOperationsEnd
  SecretChangesEnd
CHECK_DEADLOCK FALSE
