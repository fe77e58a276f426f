SPECIFICATION FairSpec
CONSTANTS
    SendSize = 2
    RecSize = 2
    AckSize = 1
    SendAckMax = 1
    NAckRetransmit = 2
    SegsPerRead = 1
    IdMod = 16
    MaxClientSegs = 3
    MaxServerSegs = 1
    MaxInFlight = 2
PROPERTIES LiveStreams HandshakeStarts
CHECK_DEADLOCK FALSE
