CONSTANTS
    Proc = {p1, p2}
    Flags = {"clear"}
    Size = 2
    TypeAhead = 2
SPECIFICATION Spec
INVARIANTS RingHoldsPending RegistersAreKept
PROPERTY ReadsOldest
