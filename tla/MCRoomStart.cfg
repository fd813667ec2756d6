CONSTANTS
    Nobody = Nobody
    NoModule = NoModule
    NoBattle = NoBattle
    CountRange = 4
    FullHealth = 2
    Workers = {w1, w2}
    Requests <- ContendedRequests
    Posts <- RefereePosts
    InitialRooms <- ContendedRooms
    MaxClock = 2
    Unset = Unset
    MaxFaults = 1
SPECIFICATION Spec
CHECK_DEADLOCK FALSE
INVARIANTS
    RosterCarriedOver
    AnsweredStartIsPlaying
    NobodyJoinsUnasked
    ToldIsDone
 
