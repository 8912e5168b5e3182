SPECIFICATION Spec
CONSTANTS
    SIZE = 12
    META = 2
    MIN_BLOCK = 2
    Requests <- MCRequests
    Pointers <- MCPointers
INVARIANTS
    TypeOK
    IInv
    CleanWhenEmpty
PROPERTIES
    OutOfMemoryIsReal
    InUseUnmoved
    RefusedIffNotOwned
    CallsReturn
    ImplementsHeap
