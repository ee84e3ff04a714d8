SPECIFICATION Spec
CONSTANTS
    Comparator <- MCComparator
    Calls <- OneOvertakenPacket
INVARIANTS
    SortsByTimestamp
CHECK_DEADLOCK FALSE
