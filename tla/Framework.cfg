CONSTANTS
    Files = 2
    Installed <- MCInstalled
    MaxFaults = 2
    MaxCrashes = 2
    MaxStrangers = 1
    MaxDamage = 1
    Owner = {1, 2}
    MaxSlots = 2
    MaxHandle = 3
    MaxRequest = 3
    Stream = {1, 2}
    NoStream = 0
    Block = 2
    Blocks = 2
    Modulus = 8
SPECIFICATION FrameworkSpec
INVARIANTS
    
    
    
    AnswersAreOwn
    PlaysInOrder
PROPERTIES
    TransactionEnds
