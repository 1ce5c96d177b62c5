CONSTANTS
    Length = 5
    BlockSize = 2
    Base = 3
    WordSize = 16
    Sizes = {2, 3, 6}
SPECIFICATION Spec
PROPERTIES RefinesHeap CallsReturn
