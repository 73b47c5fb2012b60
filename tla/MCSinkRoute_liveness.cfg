SPECIFICATION FairSpec
CONSTANTS
  d1 = d1
  d2 = d2
  ix1 = ix1
  ix2 = ix2
  nowhere = nowhere
  Docs <- MCDocs
  Indexes = {ix1}
  NoIndex = nowhere
  Operations <- MCOperations
  DeleteValues = {"delete"}
  Truncate = "truncate"
  Keyed = TRUE
  OperationMapped = TRUE
  Routed = FALSE
  Literal = ix1
  MaxFaults = 2
  RareMishaps = {"late", "restore"}
  Scenarios <- LivenessScenarios
  BatchSize = 2
PROPERTIES
  SentBehindAcked
  EverythingSettled
\* The stream ends, and the route with it.
CHECK_DEADLOCK FALSE
