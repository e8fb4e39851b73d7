SPECIFICATION PartsSpec
CONSTANTS
    c1 = c1
    c2 = c2
    Nobody = Nobody
    TTL = 2
    Grace = 1
    Callers <- TwoCallers
    Clients <- OneClient
    u = u
    v = v
    NoUser = NoUser
    Users <- OneUser
    Owners <- TwoOwners
    g1 = g1
    g2 = g2
    p1 = p1
    Searchers <- TwoSearchers
    Probers <- OneProber
    Readings <- SomeReadings
    Int64Limit = 16
    r1 = r1
    r2 = r2
    Limiters <- TwoLimiters
    Limit = 2
    Window = 2
    MaxLosses = 1
    MinTimestamp = 2
    MaxTimestamp = 9
    MaxClockSkew = 1
    Parts = {"process"}
INVARIANT
    OnlyTheDatabaseMakesIt503
