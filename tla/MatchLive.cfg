CONSTANTS
    u1 = u1
    u2 = u2
    u3 = u3
    c1 = c1
    c2 = c2
    c3 = c3
    k1 = k1
    k2 = k2
    Client = {c1, c2}
    User = {u1, u2}
    Nobody = Nobody
    NoClient = NoClient
    Map = {k1, k2}
    RankedMap = {k1}
    Puid = {}
    MaxVerifying = 1
    Traffic <- MCTimed
    MaxMatch = 2
SPECIFICATION FairSpec

PROPERTIES
    MatchesEnd
    QueueDrains
