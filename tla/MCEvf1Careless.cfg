SPECIFICATION Spec
CONSTANTS
    ChunkSize = 2
    MaxTableLength = 2
    MaxRel = 5
    CompressedLens = {3, 6}
    HeaderLen = 50
    TornLens = {0, 2, 80}
    Careful = FALSE
    MaxBytes = 5
    MaxWrite = 3
    MaxCloses = 2
    MaxFaults = 2
INVARIANTS
    FixedSizeChunks
CHECK_DEADLOCK FALSE
