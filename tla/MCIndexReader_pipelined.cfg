SPECIFICATION Spec
CONSTANTS
  Total = 5
  PageSize = 2
  MaxInFlight = 2
  BaseDelay = 1
  MaxDelay = 3
  MaxMishaps = 3
INVARIANTS
  NothingSkipped
\* The route ends.
CHECK_DEADLOCK FALSE
