SPECIFICATION Spec
CONSTANTS
    SectorSize = 2
    FromSectorStart = FALSE
    Width = 16
    Clients = {c1}
    Files <- ThreeFiles
    Given <- AnyOrderOfThree
    ChunkSectors = 2
    Calls = {"ReadAt", "Read", "Seek"}
    Offsets = {0, 3, 15}
    Lengths = {0, 5, 16, 17}
    FaultKinds = {"section", "entries", "chunk"}
    FaultErrors = {"failed", "EOF"}
    MaxFaults = 1
    MaxPosition = 16
    JunkLengths = {5}
INVARIANTS
    TypeOK
PROPERTIES
    ImplementsReads
