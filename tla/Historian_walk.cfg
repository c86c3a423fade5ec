CONSTANTS
    NumProducers = 2
    OtherRun = FALSE
    Skew = 1
    MaxTime = 1
    MaxSeq = 2
    MaxRestarts = 0
    MaxLog = 4
    MaxWalks = 1
    MAX_PAGE_SIZE = 2
SPECIFICATION WalkSpec
INVARIANTS
    WalkIsExact
PROPERTIES
    CursorOwesTheRest
    WalkEnds
