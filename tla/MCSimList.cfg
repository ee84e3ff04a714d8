SPECIFICATION Spec
CONSTANTS
    Data = {1, 2}
    MaxLength = 5
    SIMCLIST_MAX_SPARE_ELEMS = 2
    UINT_RANGE = 256
INVARIANTS
    TypeOK
    LinkedAround
    QueriesAgree
PROPERTIES
    ImplementsList
VIEW
    UpToAddresses
CHECK_DEADLOCK FALSE
