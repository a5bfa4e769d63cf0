CONSTANTS
    c1 = c1
    c2 = c2
    Client = {c1, c2}
    NoOne = NoOne
    MaxAttempts = 2
    Courses <- MCCourses
SPECIFICATION FairSpec
CHECK_DEADLOCK FALSE
INVARIANTS
    NobodyPlaysAlone
    
PROPERTIES
    PresentationKept
    ClientsLeave
