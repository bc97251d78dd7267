SPECIFICATION Spec
CONSTANTS
    SectorSize = 2
    FromSectorStart = TRUE
    Width = 16
    FileSectors = 3
    ImageFiles = 3
    Directories = {{1, 2, 3}, {1, 2}, {1, 3}}
    Offsets = {0, 3, 5, 12, 17, 18, 20}
    Lengths <- SomeLengths
    Buffers = {0, 1, 3, 4, 7, 12, 20}
    SourceSizes = {0, 3, 4, 9}
    FaultErrors = {"failed", "EOF"}
    MaxFaults = 1
    MaxChanges = 2
    MaxSegments = 100
    MaxLong = 31
INVARIANTS
    TypeOK
    DumpCopiesTheRange
    CreateStoresTheSource
PROPERTIES
    CommandsEnd
CHECK_DEADLOCK FALSE
