SPECIFICATION Spec
CONSTANTS
    Time <- MCTime
    Settings <- MCSettings
    RAND_MAX = 2
INVARIANTS
    TypeOK
    NoDanglingPacket
    DestroyedOnce
    EventsInOrder
    StatesAlive
    SinksAgree
    OnlyLatePacketsOvertaken
    LossesFollowChain
PROPERTIES
    ImplementsNetwork
    Terminates
CHECK_DEADLOCK FALSE
