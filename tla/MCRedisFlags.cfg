SPECIFICATION Spec
CONSTANTS
    p1 = p1
    p2 = p2
    k1 = k1
    k2 = k2
    Procs <- MCProcs
    Keys <- MCKeys
    Kinds = {"bans", "blocks"}
    Ttl = 1
    MaxTime = 1
    MayCrash = TRUE
SYMMETRY Symmetry
INVARIANTS TypeOK InForceIsListed
PROPERTY OnlyOverlappingSetIsLost
