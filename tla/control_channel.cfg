SPECIFICATION Spec
CONSTANTS
    SendSize = 3
    RecSize = 2
    AckSize = 1
    SendAckMax = 1
    NAckRetransmit = 2
    SegsPerRead = 2
    IdMod = 16
    MaxClientSegs = 5
    MaxServerSegs = 1
    MaxInFlight = 2
INVARIANTS TypeOK RecordFits AckedIsStored NeverClogged
PROPERTIES Streams
CHECK_DEADLOCK FALSE
