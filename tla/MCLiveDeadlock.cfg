CONSTANTS
    Nobody = Nobody
    Free = Free
    NoModule = NoModule
    NoBattle = NoBattle
    Null = Null
    CountRange = 4
    FullHealth = 2
    Threads = {t1, t2}
    Players = {"p1", "p2"}
    TheBattle = "b1"
    InitialRoom <- ReadyRoom
    RoomCommands <- LiveRoomCommands
    BattleCommands <- LiveBattleCommands
    MaxRoomEvents = 2
    MaxBattleEvents = 2
SPECIFICATION Spec
CHECK_DEADLOCK FALSE
PROPERTY CommandsAreAnswered
