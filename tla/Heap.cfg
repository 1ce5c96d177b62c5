CONSTANTS
    Length = 6
    BlockSize = 2
    Base = 3
    WordSize = 16
    Sizes = {2, 3, 6}
SPECIFICATION Spec
INVARIANTS TypeOK NoOverlap FreeIsExact TakenIsOwned NullFreeMissesTable
PROPERTY RefinesAllocator
