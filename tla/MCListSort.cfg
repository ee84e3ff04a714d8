SPECIFICATION Spec
CONSTANTS
    Comparator <- MCComparator
    Calls <- ShortCalls
INVARIANTS
    TypeOK
    Permutation
    PartitionedAroundPivot
    SortsByTimestamp
PROPERTIES
    Termination
CHECK_DEADLOCK FALSE
