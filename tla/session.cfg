SPECIFICATION MCSpec
CONSTANTS
    MaxSessions = 3
    MaxHasty = 2
INVARIANTS TypeOK NewSessionIntact OneProcess OldIsInterrupted ServiceIsReleased
PROPERTIES StopEnds
CHECK_DEADLOCK FALSE
