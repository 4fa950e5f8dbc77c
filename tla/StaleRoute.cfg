SPECIFICATION Spec
CONSTANTS
  a1 = a1
  a2 = a2
  u1 = u1
  u2 = u2
  NoApp = NoApp
  Apps <- TwoApps
  Creators <- MCCreators
  Owner <- TwoOwners
  Requests = {r1}
  ActiveLimit = 2
  AppLimit = 2
  BuildSeconds = 1
  MonthSeconds = 2
  MaxOps = 2
  MaxOrphans = 0
  MaxPublisherCrashes = 0
  MaxLifecycleCrashes = 1
INVARIANTS
  RequestReachesOwnApp
CHECK_DEADLOCK FALSE
