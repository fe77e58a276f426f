SPECIFICATION FairSpec
CONSTANTS
    Bits = 3
    MaxRoutes = 4
INVARIANTS TypeOK RoutesAsPromised DoneIsFinal AssertionsHold
PROPERTIES Terminates
CHECK_DEADLOCK FALSE
