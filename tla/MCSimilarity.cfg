SPECIFICATION Spec
CONSTANTS
    WIDTH = 16
    Sources <- MCSources
INVARIANTS
    TypeOK
    AllPairsOnce
    TokensCounted
    MeanIsMean
    EveryTokenWeighed
CHECK_DEADLOCK FALSE
