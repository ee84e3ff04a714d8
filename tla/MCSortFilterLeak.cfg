SPECIFICATION Spec
CONSTANTS
    p1 = p1
    p2 = p2
    p3 = p3
    p4 = p4
    p5 = p5
    Packet <- MCPacket
    Time <- MCTime
    OutputOptions <- MCOutputOptions
    SIMCLIST_MINQUICKSORTELS = 24
INVARIANTS
    CopiesDestroyed
CHECK_DEADLOCK FALSE
