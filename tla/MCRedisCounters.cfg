SPECIFICATION Spec
CONSTANTS
    p1 = p1
    p2 = p2
    k1 = k1
    k2 = k2
    Procs <- MCProcs
    Keys <- MCKeys
    CounterTtl = 2
    MaxTime = 4
    MaxCount = 3
INVARIANTS TypeOK EveryCounterExpires
PROPERTIES ImplementsExpiringStore OnlyOverlapLosesDeadline WindowIsFixed
