SPECIFICATION Spec
CONSTANTS
    MaxClicks = 1
    MaxReports = 1
    Drops = TRUE
    Smooth = FALSE
INVARIANTS TypeOK ClickableAtRest
CHECK_DEADLOCK FALSE
