SPECIFICATION Spec
CONSTANTS
    MaxVarintBytes = 3
    IntBits = 10
    LongBits = 20
    SEQUENCE_MODULUS = 3
    TickHz = 2
    UTC_FLOOR_MS = 1577
    EPOCH_MS = 1767
    MaxTicks = 1
    Values <- ReadingValues
    Orderly = TRUE
INVARIANTS
    FramesConform
    DataResolves
    MirrorAgrees
PROPERTIES
    ImplementsSession
