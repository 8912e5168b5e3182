SPECIFICATION Spec
CONSTANTS
    Inputs <- MCInputs
    INIT_TOKEN_LEN = 5
INVARIANTS
    TypeOK
    ElementsTiled
    LabelsFit
    ClosedCommentsStayInside
CHECK_DEADLOCK FALSE
