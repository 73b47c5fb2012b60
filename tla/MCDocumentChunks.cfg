SPECIFICATION Spec
CONSTANTS
  Runs <- MCRuns
  MaxBytes = 4
INVARIANTS
  TypeOK
  EveryDocumentOnce
  BodyFits
  CutOnlyWhenFull
\* The run ends.
CHECK_DEADLOCK FALSE
