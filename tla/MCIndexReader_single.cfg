SPECIFICATION FairSpec
CONSTANTS
  Total = 5
  PageSize = 2
  MaxInFlight = 1
  BaseDelay = 1
  MaxDelay = 3
  MaxMishaps = 3
INVARIANTS
  TypeOK
  NothingSkipped
  DrainedWhole
PROPERTIES
  CheckpointMonotone
  ScanCompletes
\* The route ends.
CHECK_DEADLOCK FALSE
