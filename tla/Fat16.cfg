CONSTANTS
    SectorSize = 2
    DiskSectors = 9
    LastCluster = 5
    SectPerCluster = 2
    SectorEnd = 1
    Stops = {0, 40, 46, 47, 48, 49}
    EndOfChain = 99
    MaxChain = 3
    Sizes = {1, 3, 4, 5, 8, 12}
    BlockCounts = {1, 2}
    Offsets = {0, 1, 4, 5, 8}
SPECIFICATION Spec
INVARIANTS ReadIsExact WaitsOnlyBehindDrive StackIsBounded
PROPERTIES NoSpuriousError ReadsReturn
