SPECIFICATION Spec
CONSTANTS
  MaxEdits = 2
  Archives = {x, y}
  MaxRuns = 2
  Volume = 3
  Sizes = {1, 2}
  PageLimit = 2
  MaxLines = 4
  MaxFailures = 1
  Bytes = {"a", "b", "n"}
  Newline = "n"
  SecretValues <- MCSecretValues
  MaxBytes = 4
  Apps = {"p", "q"}
  Browsers = {b1, b2}
  Users = {"owner", "guest"}
  Owner <- MCOwner
  SecretNames = {n}
  MaxFlows = 2
INVARIANTS
  SourceWhole
  OutcomeIsTrue
  VolumeBound
  PagesExact
  GaplessUnlessTold
  RedactionExact
  AuthorityIsMeant
CHECK_DEADLOCK FALSE
