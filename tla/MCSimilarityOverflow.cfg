SPECIFICATION Spec
CONSTANTS
    WIDTH = 16
    Sources <- NineFiles
INVARIANTS
    RoomForAllPairs
CHECK_DEADLOCK FALSE
