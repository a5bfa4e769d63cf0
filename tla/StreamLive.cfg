CONSTANTS
    p1 = p1
    p2 = p2
    Peer = {p1, p2}
    MaxInFlight <- MCOne
    HistoryFrames = 3
    PacketChecksums = 2
    MaxPrediction = 1
    InputDelay = 1
    StallTimeout = 0
    Divergences = {1, 9}
    MaxFrame = 3
SPECIFICATION Spec
CHECK_DEADLOCK FALSE
PROPERTIES
    StreamSettles
