SPECIFICATION Spec
CONSTANTS
    SectorSize = 2
    FromSectorStart = FALSE
    Width = 64
    Clients = {c1}
    Files <- TwoFiles
    Given <- AnyOrder
    ChunkSectors = 2
    Calls = {"ReadAt"}
    Offsets = {0, 4, 8, 12}
    Lengths = {4, 8}
    FaultKinds = {"entries"}
    FaultErrors = {"failed"}
    MaxFaults = 1
    MaxPosition = 21
    JunkLengths = {3, 4, 5}
INVARIANTS
    NeverWrongData
