SPECIFICATION FairSpec
CONSTANTS
    MaxClicks = 2
    MaxReports = 0
    Drops = FALSE
    Smooth = TRUE
INVARIANTS InformedAtRest
PROPERTIES ClickComesBack
CHECK_DEADLOCK FALSE
