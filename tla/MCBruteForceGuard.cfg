SPECIFICATION GuardSpec
CONSTANTS
    name = name
    mail = mail
    r1 = r1
    r2 = r2
    r3 = r3
    Keys <- MCKeys
    Reqs <- MCReqs
    KeysOf <- MCKeysOf
    Window = 1
    BanTtl = 1
    SuspiciousTtl = 1
    CounterTtl = 2
    BlockTtl = 1
    MaxTime = 2
    MaxAttempts = 2
    ResetOnSuccess = TRUE
    FailClosed = TRUE
    StoreMayFail = TRUE
    MaxFailures <- MCMaxFailures
INVARIANTS GuardTypeOK BlockedStayOut OvershootBounded
SYMMETRY Symmetry
PROPERTY BlockJustified
