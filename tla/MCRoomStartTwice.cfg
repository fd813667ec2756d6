CONSTANTS
    Nobody = Nobody
    NoModule = NoModule
    NoBattle = NoBattle
    CountRange = 4
    FullHealth = 2
    Workers = {w1, w2}
    Requests <- TwoRoomRequests
    Posts <- NoPosts
    InitialRooms <- TwoRooms
    MaxClock = 1
    Unset = Unset
    MaxFaults = 0
SPECIFICATION Spec
CHECK_DEADLOCK FALSE
INVARIANT ActiveMeansPlaying
