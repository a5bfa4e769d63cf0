CONSTANTS
    p1 = p1
    p2 = p2
    Peer = {p1, p2}
    MaxInFlight <- MCReorder
    HistoryFrames = 3
    PacketChecksums = 2
    MaxPrediction = 2
    InputDelay = 1
    StallTimeout = 1
    Divergences = {0, 2}
    MaxFrame = 3
SPECIFICATION Spec
CHECK_DEADLOCK FALSE
INVARIANTS
    VerifiedMeansEqual
    CorrectionPossible
    NoFalseDesync
    NoFalseDisconnect
