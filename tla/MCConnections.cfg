SPECIFICATION Spec
CONSTANTS
    Pages = {"p1", "p2"}
    Commands = {"c1", "c2", "c3"}
    Silent = {"mute"}
    Casts <- TheCasts
    RuntimeOf <- Runtimes
    MessagesOf <- Lengths
    AsksAfter <- Asked
    BufferSize = 1
CHECK_DEADLOCK FALSE
INVARIANTS
    TypeOK
    UpdatesComeWhole
    OpenPagesAreServed
    AnsweredIsSent
    StopReachesPages
PROPERTIES
    ImplementsFeed
    CommandsAnswered
    StopEnds
