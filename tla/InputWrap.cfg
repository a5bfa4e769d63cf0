CONSTANTS
    p1 = p1
    p2 = p2
    idle = idle
    act = act
    Peer = {p1, p2}
    Cmd = {idle, act}
    Neutral = idle
    Samples <- MCScript
    InputDelay <- MCDelay
    MaxInFlight <- MCOne
    HistoryFrames = 5
    FutureFrames = 2
    PacketInputs = 2
    MaxPrediction = 1
    MaxFrameAdvantage = 1
    MaxBlockTicks = 0
    MaxFrame = 5
SPECIFICATION Spec
INVARIANTS
    HoleRecoverable
    RingNeverBlocks
    RollbackPossible
PROPERTIES
    PublishedFramesAreFinal
