SPECIFICATION Spec
CONSTANTS
  d1 = d1
  d2 = d2
  build = build
  nowhere = nowhere
  Absent = Absent
  Docs <- MCDocs
  Indexes = {build}
  NoIndex = nowhere
  Operations <- MCOperations
  DeleteValues = {"delete"}
  Truncate = "truncate"
  Keyed = TRUE
  OperationMapped = TRUE
  Routed = FALSE
  Literal = build
  Streams <- MappedStreams
  BatchSize = 2
  WriteMethods = {"replace"}
  MaxFaults = 2
  MaxCrashes = 1
INVARIANTS
  TypeOK
  LiveOldOrWhole
  RetriedDoesNotBlock
\* The route ends.
CHECK_DEADLOCK FALSE
