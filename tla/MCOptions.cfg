SPECIFICATION Spec
CONSTANTS
    NULL = NULL
    DICTMINSZ = 2
    Lower <- MCLower
    Hash <- MCHash
    Crop <- MCCrop
    Uncomment <- MCUncomment
    atoi <- MCatoi
    Truth <- MCTruth
    Files <- MCFiles
    Arguments <- MCArguments
    MaxArguments = 4
    MaxCalls = 2
    ClientEntries <- MCClientEntries
    ClientValues <- MCClientValues
INVARIANTS
    TypeOK
    LastOneWins
    ReadyToRun
    SavedAndLoaded
PROPERTIES
    ImplementsDictionary
CHECK_DEADLOCK FALSE
