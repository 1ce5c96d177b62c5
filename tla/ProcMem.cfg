CONSTANTS
    Process = {p1, p2}
    PageSize = 2
    Length = 14
    MaxAllocs = 2
    StackSize = 1
    ProcSize = 1
    Programs <- TwoPrograms
    Span = 3
    Requests = {2}
    MaxArgs = 2
    MaxLeaked = 5
SPECIFICATION Spec
SYMMETRY Alike
INVARIANTS TypeOK HeapIsOwned WriteableIsOwned ProgramIsMapped SwitchIsMapped
\* With the heap full of what loads have lost, no program can be started.
CHECK_DEADLOCK FALSE
