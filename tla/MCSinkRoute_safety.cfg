SPECIFICATION Spec
CONSTANTS
  d1 = d1
  d2 = d2
  ix1 = ix1
  ix2 = ix2
  nowhere = nowhere
  Docs <- MCDocs
  Indexes = {ix1, ix2}
  NoIndex = nowhere
  Operations <- MCOperations
  DeleteValues = {"delete"}
  Truncate = "truncate"
  Keyed = TRUE
  OperationMapped = TRUE
  Routed = TRUE
  Literal = ix1
  MaxFaults = 2
  RareMishaps = {}
  Scenarios <- SafetyScenarios
  BatchSize = 3
INVARIANTS
  TypeOK
  AckedWriteSurvives
  ResendBehindNoAck
  SettingsBeforeDocuments
  EveryCommitSettled
  EndsAsCall
  Converged
PROPERTIES
  KeepsPromise
\* The stream ends, and the route with it.
CHECK_DEADLOCK FALSE
