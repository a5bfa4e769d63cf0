CONSTANTS
    Modulus = 24
    HistoryFrames = 4
    FutureFrames = 1
    MaxPrediction = 2
    Delay = 3
    MaxFrame = 50
    Host = Host
    Join = Join
    Chunks = 2
    Settings <- MCSettings
    Window = 3
    Retained = 4
    MaxSession = 2
    MaxSequence = 5
    Hello = {1, 2}
SPECIFICATION SessionSpec
CHECK_DEADLOCK FALSE
INVARIANTS
    AdmissionFollowsFrames
    StartIsShared
    FreshPassesOnce
PROPERTIES
    SetupCompletes
