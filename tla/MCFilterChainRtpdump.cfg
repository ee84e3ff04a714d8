SPECIFICATION Spec
CONSTANTS
    Time <- MCTime
    Settings <- MCSettings
    RAND_MAX = 2
INVARIANTS
    MissingStateReported
CHECK_DEADLOCK FALSE
