SPECIFICATION Spec
CONSTANTS
    WORD = 524288
    StartTime = 1000000
    Setups <- MCSetups
INVARIANTS
    Rendered
    DecodedAsSent
    CaptureReadable
    ReportsAgree
CHECK_DEADLOCK FALSE
