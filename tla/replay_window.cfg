SPECIFICATION Spec
CONSTANTS
    SeqBacktracks = {0, 2}
    TimeBacktracks = {0, 1}
    LongForms = {FALSE, TRUE}
    PacketIdMax = 4
    ReapInterval = 1
    MaxNow = 4
INVARIANTS TypeOK NoReplay NoReuse WindowIsOpen LateIsRefused
CHECK_DEADLOCK FALSE
