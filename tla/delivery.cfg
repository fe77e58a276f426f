SPECIFICATION Spec
CONSTANTS
  MaxUpdates = 5
INVARIANTS
  TypeOK
  LatestIsHeardLast
CHECK_DEADLOCK FALSE
