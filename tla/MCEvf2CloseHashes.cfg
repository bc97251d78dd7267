SPECIFICATION OpenSpec
CONSTANTS
    ChunkSize = 2
    MaxTableLength = 2
    CompressedLens = {1, 3}
    DeviceLen = 32
    CaseLen = 48
    TornLens = {0, 2, 70}
    Careful = TRUE
    TotalSizes = {3, 5}
    MaxBytes = 5
    MaxWrite = 3
    MaxCloses = 2
    MaxFaults = 2
INVARIANTS
    CloseWritesHashes
CHECK_DEADLOCK FALSE
