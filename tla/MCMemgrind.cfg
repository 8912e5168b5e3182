SPECIFICATION MemgrindSpec
CONSTANTS
    SIZE = 4096
    META = 8
    MIN_BLOCK = 8
    Requests <- NoCalls
    Pointers <- NoCalls
    CountA = 120
    CountB = 60
    CountC = 10
    CountD = 80
    Order = 30
INVARIANTS
    ClientTypeOK
    AssertHolds
    NeverSaturated
    NeverRefused
PROPERTIES
    AllWorkloadsRun
