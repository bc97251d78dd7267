SPECIFICATION OpenSpec
CONSTANTS
    ChunkSize = 2
    MaxTableLength = 2
    MaxRel = 5
    CompressedLens = {3, 6}
    HeaderLen = 50
    TornLens = {0, 2, 80}
    Careful = TRUE
    MaxBytes = 5
    MaxWrite = 3
    MaxCloses = 2
    MaxFaults = 2
INVARIANTS
    TypeOK
    NothingLost
    IndexedDataIsHashed
    TablesFit
    FixedSizeChunks
    ClosedImageIsComplete
PROPERTIES
    ChunksAreKept
    PublishesAtomically
CHECK_DEADLOCK FALSE
