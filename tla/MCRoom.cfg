CONSTANTS
    Players = {p1, p2, p3}
    Teams = {red, blue}
    Modules = {m1}
    Devices = {d1, d2}
    Battles = {b1}
    Nobody = Nobody
    NoModule = NoModule
    NoBattle = NoBattle
    CountRange = 4
    MaxSeats = 3
SPECIFICATION Spec
SYMMETRY Symmetric
CHECK_DEADLOCK FALSE
INVARIANTS
    TypeOK
    CapacityRespected
    SeatAvailable
    BindingExclusive
    ModulesUnique
    StartedMeansConfirmed
PROPERTY SettledOnceOutOfOpen
