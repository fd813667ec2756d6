CONSTANTS
    Players = {p1, p2}
    Teams = {red, blue}
    Modules = {m1}
    Devices = {d1}
    Battles = {b1}
    Nobody = Nobody
    NoModule = NoModule
    NoBattle = NoBattle
    CountRange = 4
    MaxSeats = 2
SPECIFICATION Spec
CHECK_DEADLOCK FALSE
INVARIANT PositionsBelongToMembers
