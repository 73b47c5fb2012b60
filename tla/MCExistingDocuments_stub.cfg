SPECIFICATION Spec
CONSTANTS
  d1 = d1
  d2 = d2
  Docs <- MCDocs
  Streams <- MCStreams
  BatchSize = 2
  ChunkSize = 1
  MaxOwner = 2
  MaxFaults = 0
INVARIANTS
  NoStub
\* The stream ends, and the route with it.
CHECK_DEADLOCK FALSE
