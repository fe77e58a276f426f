SPECIFICATION Spec
CONSTANTS
    Networks = {n1, n2}
    NoNetwork = none
    ScreenOffPref = TRUE
    NetChangePref = TRUE
    Binders = {"client"}
    MaxPosted = 1
    MaxMsgs = 2
    MaxCmds = 1
SYMMETRY NetworkSymmetry
INVARIANTS TypeOK HoldIsKnown NoLostWakeup
CHECK_DEADLOCK FALSE
