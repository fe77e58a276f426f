SPECIFICATION FairSpec
CONSTANTS
    HandshakeWindow = 2
    TransitionWindow = 4
    RenegSeconds = 2
    SingleSession = {FALSE, TRUE}
    Tcp = {FALSE, TRUE}
    ExpansionMayFail = FALSE
INVARIANTS TypeOK AssertionsHold NoNeedlessRestart
PROPERTIES KeyIsKept SilenceIsNoticed UntrustedIsFreed
