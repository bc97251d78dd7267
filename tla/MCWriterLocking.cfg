SPECIFICATION Spec
CONSTANTS
    Goroutines = {g1, g2}
    Nobody = nobody
    Formats = {"evf1", "evf2"}
    ChunkSize = 2
    Lengths = {0, 1, 3}
    CompressedLens = {1}
    AlignLens = {1}
    SectionLen = 2
    TornLens = {0, 1}
    MaxCalls = 3
    MaxFaults = 1
INVARIANTS
    TypeOK
    MutualExclusion
    NothingLost
    IndexedDataIsHashed
    LoneCloseIsComplete
PROPERTIES
    EveryCallReturns
VIEW View
CHECK_DEADLOCK FALSE
