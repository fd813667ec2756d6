CONSTANTS
    Players = {p1, p2}
    Teams = {red, blue}
    FullHealth = 2
    Damages = {1, 3}
    Healths = {0, 1, 3}
    Ammos = {0}
    MaxEvents = 6
SPECIFICATION Spec
CHECK_DEADLOCK FALSE
INVARIANTS
    TypeOK
    ScoreIsTheHits
    AliveNeedsHealth
    HealthAddsUp
    GameplayInPlay
PROPERTY RosterSettled
