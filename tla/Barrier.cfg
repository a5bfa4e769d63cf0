CONSTANTS
    Host = host
    Join = join
    MaxPrediction = 1
    InputDelay = 1
    PacketInputs = 2
    Settings <- MCSettings
    MaxFrame = 2
    MaxCorrections = 2
SPECIFICATION Spec
CHECK_DEADLOCK FALSE
INVARIANTS
    PlayedTimelineIsShared
    ReplayIsSettled
PROPERTIES
    NoFalseDisconnect
    InputsSurviveCorrection
    ImplementsRound
    
