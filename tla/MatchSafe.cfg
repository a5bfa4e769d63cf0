CONSTANTS
    u1 = u1
    u2 = u2
    u3 = u3
    c1 = c1
    c2 = c2
    c3 = c3
    k1 = k1
    k2 = k2
    Client = {c1, c2, c3}
    User = {u1, u2, u3}
    Nobody = Nobody
    NoClient = NoClient
    Map = {k1, k2}
    RankedMap = {k1}
    Puid = {"p1", "p2"}
    MaxVerifying = 1
    Traffic <- MCTraffic
    MaxMatch = 2
SPECIFICATION Spec
SYMMETRY MCSwap

INVARIANTS
    MatchesHavePlayers
    ToldOneOutcome
    OffersAreLive
    IdentityFixedInMatch
    MatchmakingEnds
PROPERTIES
    ImplementsOutcome
