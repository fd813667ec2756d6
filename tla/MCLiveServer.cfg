CONSTANTS
    Nobody = Nobody
    Free = Free
    NoModule = NoModule
    NoBattle = NoBattle
    Null = Null
    CountRange = 4
    FullHealth = 2
    Threads = {t1, t2, t3}
    Players = {"p1", "p2"}
    TheBattle = "b1"
    InitialRoom <- ReadyRoom
    RoomCommands <- LiveRoomCommands
    BattleCommands <- LiveBattleCommands
    MaxRoomEvents = 3
    MaxBattleEvents = 3
SPECIFICATION Spec
CHECK_DEADLOCK FALSE
INVARIANT PageIsCurrent
PROPERTIES
    PageOnlyMovesForward
    OnlyTheEmbraceHangs
