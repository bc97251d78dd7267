SPECIFICATION Spec
CONSTANTS
    SectorSize = 2
    FromSectorStart = TRUE
    Width = 16
    Clients = {c1}
    Files <- ThreeFiles
    Given <- AnyOrderOfThree
    ChunkSectors = 2
    Calls = {"ReadAt", "Read", "Segment"}
    Offsets = {0, 3, 8, 15}
    Lengths = {0, 1, 5, 17}
    FaultKinds = {"section", "entries", "chunk"}
    FaultErrors = {"failed"}
    MaxFaults = 2
    MaxPosition = 16
    JunkLengths = {3, 5}
INVARIANTS
    TypeOK
PROPERTIES
    ImplementsReads
