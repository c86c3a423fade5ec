SPECIFICATION Spec
CONSTANTS
    NumDevices = 2
    SEQUENCE_MODULUS = 4
    Orderly = TRUE
INVARIANTS
    TypeOK
    StreamReadable
    ViewAgrees
    DeathIsCovered
