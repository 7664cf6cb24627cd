SPECIFICATION Spec
CONSTANTS
    a = a
    b = b
    Listeners <- MCListeners
    BufferSize = 2
    PageSize = 1
    MaxEvents = 3
    MaxDepth = 2
    MaxArrays = 3
    MaxListeners = 2
INVARIANTS TypeOK DeliveredOnce BufferIsNewest ReaderMissesNothing
CHECK_DEADLOCK FALSE
