SPECIFICATION Spec
CONSTANTS
    NumPallets = 6
    Qty <- MCQty
    ReleaseTicks <- MCReleaseTicks
    ServiceTicks <- MCServiceTicks
    Horizons <- MCHorizons
    ReceivingCapacity = 2
    PutawayCapacity = 2
    StagingCapacity = 2
INVARIANTS
    NoIllegalTransition
    IInv
    LedgerBalanced
    CountersMatchStates
    NoLostWakeup
    SpellsPartition
    RecordIsCurrent
PROPERTIES
    AllStored
    ImplementsLine
CHECK_DEADLOCK FALSE
