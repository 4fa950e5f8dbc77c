SPECIFICATION Spec
CONSTANTS
  a1 = a1
  a2 = a2
  u1 = u1
  u2 = u2
  NoApp = NoApp
  Apps <- OneApp
  Creators <- MCCreators
  Owner <- OneOwner
  Requests = {}
  ActiveLimit = 1
  AppLimit = 2
  BuildSeconds = 2
  MonthSeconds = 2
  MaxOps = 3
  MaxOrphans = 1
  MaxPublisherCrashes = 1
  MaxLifecycleCrashes = 1
INVARIANTS
  TypeOK
  RunningIsServed
  SecretsStayRedactable
  ReleasesExact
  BuildsAccounted
  InterruptedNeedsOperator
PROPERTIES
  KeepsPromise
CHECK_DEADLOCK FALSE
