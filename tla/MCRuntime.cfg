CONSTANTS
    FullHealth = 2
    NewStream <- NewBattle
    Accepts <- BattleAccepts
    Apply <- BattleApply
    Events <- PostedEvents
    Streams <- Battles
    AppendFaults = {"nothing"}
    MaxCrashes = 2
SPECIFICATION Spec
INVARIANTS
    TypeOK
    ExactlyOnce
    SourceOrder
    MemoryIsReplay
    SeenIsDurable
    PublishedInOrder
    RestartSucceeds
PROPERTY ImplementsAcceptedLog
