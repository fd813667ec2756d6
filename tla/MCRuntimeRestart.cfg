CONSTANTS
    FullHealth = 2
    NewStream <- NewBattle
    Accepts <- BattleAccepts
    Apply <- BattleApply
    Events <- PostedEvents
    Streams <- Battles
    AppendFaults = {"nothing", "prefix"}
    MaxCrashes = 2
SPECIFICATION Spec
CHECK_DEADLOCK FALSE
INVARIANT RestartSucceeds
