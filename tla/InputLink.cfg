CONSTANTS
    p1 = p1
    p2 = p2
    idle = idle
    act = act
    Peer = {p1, p2}
    Cmd = {idle, act}
    Neutral = idle
    Samples <- MCScript
    InputDelay <- MCDelayUneven
    MaxInFlight <- MCReorder
    HistoryFrames = 8
    FutureFrames = 4
    PacketInputs = 1
    MaxPrediction = 1
    MaxFrameAdvantage = 1
    MaxBlockTicks = 1
    MaxFrame = 2
SPECIFICATION Spec
INVARIANTS
    NoFalseDisconnect
PROPERTIES
    GamesConverge
    ImplementsLockstep
