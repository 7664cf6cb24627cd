SPECIFICATION Spec
CONSTANTS
    p1 = p1
    p2 = p2
    k1 = k1
    k2 = k2
    Procs <- MCProcs
    Keys <- MCOneKey
    Kinds = {"bans"}
    Ttl = 1
    MaxTime = 3
    MayCrash = FALSE
PROPERTY OnlyUnsetLifts
