SPECIFICATION Spec
CONSTANTS
  d1 = d1
  d2 = d2
  ix1 = ix1
  ix2 = ix2
  nowhere = nowhere
  Docs <- MCDocs
  Indexes = {ix1, ix2}
  NoIndex = nowhere
  Operations <- MCOperations
  DeleteValues = {"delete"}
  Truncate = "truncate"
  Keyed = TRUE
  OperationMapped = TRUE
  Routed = TRUE
  Literal = ix1
  Batches <- MCBatches
INVARIANTS
  TypeOK
  SameDocumentOrder
  BodyOrder
  EveryMessageAccounted
  SegmentsOnlyOnSwitch
\* A batch that is planned is planned: the machine stops there.
CHECK_DEADLOCK FALSE
