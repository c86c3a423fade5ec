CONSTANTS
    NumProducers = 2
    OtherRun = TRUE
    Skew = 1
    MaxTime = 2
    MaxSeq = 2
    MaxRestarts = 1
    MaxLog = 3
    MaxWalks = 0
    MAX_PAGE_SIZE = 2
SPECIFICATION Spec
INVARIANTS
    TypeOK
    LogValid
    SidecarIsTrue
    ArrivalsReplayable
    ProducerOrderKept
