SPECIFICATION FairSpec
CONSTANTS
    Networks = {n1}
    NoNetwork = none
    ScreenOffPref = FALSE
    NetChangePref = TRUE
    Binders = {"client"}
    MaxPosted = 2
    MaxMsgs = 1
    MaxCmds = 1
PROPERTIES ReleasedUnlessOvertaken
CHECK_DEADLOCK FALSE
