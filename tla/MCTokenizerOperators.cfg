SPECIFICATION Spec
CONSTANTS
    Inputs <- MCInputs
    INIT_TOKEN_LEN = 5
INVARIANTS
    OperatorsDetected
CHECK_DEADLOCK FALSE
