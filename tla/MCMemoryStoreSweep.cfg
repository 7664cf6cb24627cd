SPECIFICATION MCSpec
CONSTANTS
    k1 = k1
    Keys <- MCKeys
    Window = 2
    BanTtl = 2
    SuspiciousTtl = 3
    CounterTtl = 2
    BlockTtl = 1
    MaxTime = 4
    MaxHits = 3
    MaxCount = 2
PROPERTY SweepKeepsLiveTimestamps
