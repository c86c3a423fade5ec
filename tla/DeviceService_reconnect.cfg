SPECIFICATION ServiceSpec
CONSTANTS
    NumDevices = 1
    SEQUENCE_MODULUS = 3
    Orderly = TRUE
    MaxStarts = 3
    MaxLosses = 3
INVARIANTS
    AliveWhileConnected
CHECK_DEADLOCK FALSE
