SPECIFICATION Spec
CONSTANTS
  d1 = d1
  d2 = d2
  a1 = a1
  a2 = a2
  none = none
  Docs <- MCDocs
  Parents = {a1, a2}
  ParentOf <- MCParentOf
  NoParent = none
  Streams <- MCStreams
  Stored <- MCStored
  Sizes <- MCSizes
  MaxOwner = 1
  MaxFaults = 1
SYMMETRY Symmetry
INVARIANTS
  TypeOK
  AckedPatchSurvives
  EveryMatchRead
\* The stream ends, and the route with it.
CHECK_DEADLOCK FALSE
