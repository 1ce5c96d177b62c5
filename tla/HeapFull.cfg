CONSTANTS
    Length = 4
    BlockSize = 2
    Base = 3
    WordSize = 16
    Sizes = {2, 6}
SPECIFICATION Spec
INVARIANT InsideHeap
