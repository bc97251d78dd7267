SPECIFICATION Spec
CONSTANTS
    SectorSize = 2
    FromSectorStart = FALSE
    Width = 64
    Clients = {c1}
    Files <- ThreeFiles
    Given <- AnyOrderOfThree
    ChunkSectors = 2
    Calls = {"ReadAt", "Segment"}
    Offsets = {0, 11}
    Lengths = {5, 16}
    FaultKinds = {"section", "entries", "chunk"}
    FaultErrors = {"failed"}
    MaxFaults = 2
    MaxPosition = 21
    JunkLengths = {5, 16}
PROPERTIES
    EveryCallReturns
