SPECIFICATION LimiterSpec
CONSTANTS
    k1 = k1
    r1 = r1
    r2 = r2
    r3 = r3
    Keys <- MCKeys
    Reqs <- MCReqs
    KeyOf <- MCKeyOf
    Window = 2
    BanTtl = 2
    SuspiciousTtl = 3
    CounterTtl = 1
    BlockTtl = 1
    MaxTime = 6
    MaxRequests = 2
    Threshold = 2
    FailClosed = TRUE
    StoreMayFail = TRUE
    MaxHits = 5
    MaxStrikes = 4
SYMMETRY Symmetry
INVARIANTS LimiterTypeOK LessThanTwoQuotas OnlyOverlapPastBan
PROPERTY StrikesBehindBan
