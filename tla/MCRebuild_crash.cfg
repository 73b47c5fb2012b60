SPECIFICATION Spec
CONSTANTS
  d1 = d1
  d2 = d2
  build = build
  nowhere = nowhere
  Absent = Absent
  Docs <- MCDocs
  Indexes = {build}
  NoIndex = nowhere
  Operations <- MCOperations
  DeleteValues = {"delete"}
  Truncate = "truncate"
  Keyed = TRUE
  OperationMapped = TRUE
  Routed = FALSE
  Literal = build
  Streams <- PlainStreams
  BatchSize = 2
  WriteMethods = {"replace"}
  MaxFaults = 1
  MaxCrashes = 1
PROPERTIES
  DeadLetterBlocksSwap
\* The route ends.
CHECK_DEADLOCK FALSE
