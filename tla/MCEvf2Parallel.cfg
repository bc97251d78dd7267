SPECIFICATION Spec
CONSTANTS
    SectorSize = 2
    FromSectorStart = TRUE
    Width = 64
    Clients = {c1, c2}
    Files <- OneFile
    Given <- InOrder
    ChunkSectors = 2
    Calls = {"ReadAt"}
    Offsets = {0, 4, 8}
    Lengths = {4}
    FaultKinds = {"entries"}
    FaultErrors = {"failed"}
    MaxFaults = 1
    MaxPosition = 21
    JunkLengths = {3, 4, 5}
INVARIANTS
    RightWhenIntact
PROPERTIES
    EveryCallReturns
