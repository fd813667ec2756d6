CONSTANTS
    FullHealth = 2
    NewStream <- NewBattle
    Accepts <- BattleAccepts
    Apply <- BattleApply
    Events <- PostedEvents
    Streams <- Battles
    AppendFaults = {"nothing", "prefix", "unterminated"}
    MaxCrashes = 2
SPECIFICATION Spec
CHECK_DEADLOCK FALSE
INVARIANTS
    UpMeansNothingLost
    NeverReplayedTwice
