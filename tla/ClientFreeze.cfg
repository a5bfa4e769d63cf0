CONSTANTS
    c1 = c1
    c2 = c2
    Client = {c1, c2}
    NoOne = NoOne
    MaxAttempts = 2
    Courses <- MCToast
SPECIFICATION FairSpec
CHECK_DEADLOCK FALSE
PROPERTIES
    SetupEnds
