CONSTANTS
    Recordings <- MCRecordings
    MaxWrites = 2
SPECIFICATION ArchiveSpec
INVARIANTS
    HalfWrittenFails
