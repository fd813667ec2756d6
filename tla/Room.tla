-------------------------------- MODULE Room --------------------------------
(***************************************************************************)
(* One room as the clients of apd see it: a state machine that takes any   *)
(* accepted room event next.  The reducer is RoomRules; confirmed is a     *)
(* history of who has said to be ready.                                    *)
(***************************************************************************)
EXTENDS RoomRules

CONSTANTS Players, Teams, Modules, Devices, Battles,
          MaxSeats      \* bound on the sizes a room_created event asks for

ASSUME RoomInputsAssumption ==
    /\ MaxSeats \in Nat
    /\ Nobody \notin Players
    /\ NoBattle \notin Battles

VARIABLES
    room,        \* the snapshot of the room in RoomRuntime::rooms_
    confirmed    \* history: who said ready, and nothing else, since joining

vars == <<room, confirmed>>

Seats == 0 .. MaxSeats
TeamLists == UNION {[ts -> Seats] : ts \in {S \in SUBSET Teams : IsFiniteSet(S)}}
AnyModule == Modules \cup {NoModule}

\* The payloads parse_room_event_json lets through.
Creations == [type : {"room_created"}, max : Seats, caps : TeamLists]
Joins == [type : {"room_player_joined"}, player : Players, team : Teams,
          module : AnyModule]
Leaves == [type : {"room_player_left"}, player : Players]
TeamChanges == [type : {"room_player_team_changed"}, player : Players, team : Teams]
ReadyChanges == [type : {"room_player_ready_changed"}, player : Players,
                 ready : BOOLEAN]
Registrations == [type : {"room_device_registered"}, device : Devices]
Heartbeats == [type : {"room_device_heartbeat_updated"}, device : Devices,
               online : BOOLEAN]
Bindings == [type : {"room_device_bound"}, device : Devices, player : Players]
Unbindings == [type : {"room_device_unbound"}, device : Devices]
PositionReports == [type : {"room_player_position_updated"}, player : Players,
                    device : Devices]
Starts == [type : {"room_started"}, battle : Battles]
Ends == [type : {"room_ended"}]
Closings == [type : {"room_closed"}]

PlayerState == [team : Teams, module : AnyModule, ready : BOOLEAN]
DeviceState == [online : BOOLEAN, bound : Players \cup {Nobody}]

-----------------------------------------------------------------------------
Init == room = NewRoom /\ confirmed = {}

Accept(e) == RoomAccepts(room, e) /\ room' = RoomApply(room, e)

RoomCreated == \E e \in Creations : Accept(e) /\ UNCHANGED confirmed
RoomPlayerJoined ==
    \E e \in Joins : Accept(e) /\ confirmed' = confirmed \ {e.player}
RoomPlayerLeft ==
    \E e \in Leaves : Accept(e) /\ confirmed' = confirmed \ {e.player}
RoomPlayerTeamChanged == \E e \in TeamChanges : Accept(e) /\ UNCHANGED confirmed
RoomPlayerReadyChanged ==
    \E e \in ReadyChanges :
        /\ Accept(e)
        /\ confirmed' = IF e.ready THEN confirmed \cup {e.player}
                        ELSE confirmed \ {e.player}
RoomDeviceRegistered == \E e \in Registrations : Accept(e) /\ UNCHANGED confirmed
RoomDeviceHeartbeat == \E e \in Heartbeats : Accept(e) /\ UNCHANGED confirmed
RoomDeviceBound == \E e \in Bindings : Accept(e) /\ UNCHANGED confirmed
RoomDeviceUnbound == \E e \in Unbindings : Accept(e) /\ UNCHANGED confirmed
RoomPositionUpdated == \E e \in PositionReports : Accept(e) /\ UNCHANGED confirmed
RoomStarted == \E e \in Starts : Accept(e) /\ UNCHANGED confirmed
RoomEnded == \E e \in Ends : Accept(e) /\ UNCHANGED confirmed
RoomClosed == \E e \in Closings : Accept(e) /\ UNCHANGED confirmed

Next ==
    \/ RoomCreated
    \/ RoomPlayerJoined \/ RoomPlayerLeft
    \/ RoomPlayerTeamChanged \/ RoomPlayerReadyChanged
    \/ RoomDeviceRegistered \/ RoomDeviceHeartbeat
    \/ RoomDeviceBound \/ RoomDeviceUnbound \/ RoomPositionUpdated
    \/ RoomStarted \/ RoomEnded \/ RoomClosed

Spec == Init /\ [][Next]_vars

-----------------------------------------------------------------------------
IsRoom(r) ==
    r = [phase |-> r.phase, max |-> r.max, caps |-> r.caps, players |-> r.players,
         devices |-> r.devices, positions |-> r.positions, battle |-> r.battle]

RoomShape(r) ==
    /\ IsRoom(r) /\ r.phase \in RoomPhases
    /\ r.max \in Seats
    /\ IsMap(r.caps, Teams, Seats)
    /\ IsMap(r.players, Players, PlayerState)
    /\ IsMap(r.devices, Devices, DeviceState)
    /\ IsMap(r.positions, Players, DOMAIN r.devices)
    /\ r.battle \in Battles \cup {NoBattle}
    /\ \A p \in DOMAIN r.players : r.players[p].team \in DOMAIN r.caps

\* A room keeps its shape, every member is in a team the room has, and every
\* position came from a device the room knows.
TypeOK == RoomShape(room) /\ confirmed \subseteq Players

\* Whatever the order of joins, departures and team changes, neither the room
\* nor any of its teams ever holds more players than it has seats for.
CapacityRespected ==
    /\ Cardinality(DOMAIN room.players) <= room.max
    /\ \A t \in DOMAIN room.caps :
           Cardinality(TeamMembers(room, t)) <= room.caps[t]

\* A room that is not full always has a team a newcomer can join: the uint32
\* sum in apply_room_created may wrap, but never lets too few seats through.
SeatAvailable ==
    Cardinality(DOMAIN room.players) < room.max =>
        \E t \in DOMAIN room.caps : HasSeat(room, t)

\* A player, present or gone, is bound to at most one device: a player who
\* left and came back cannot bind a second one beside the old.
BindingExclusive ==
    \A d1, d2 \in DOMAIN room.devices :
        /\ room.devices[d1].bound # Nobody
        /\ room.devices[d1].bound = room.devices[d2].bound
        => d1 = d2

\* Two members never share a module, so that a hit a module reports has one
\* player to be credited to.
ModulesUnique ==
    \A p, q \in DOMAIN room.players :
        /\ room.players[p].module # NoModule
        /\ room.players[p].module = room.players[q].module
        => p = q

\* A room that started has a battle and at least one member, and each of its
\* members said ready after joining, the ones who left and came back included.
StartedMeansConfirmed ==
    room.phase \in {"active", "ended"} =>
        /\ room.battle \in Battles
        /\ DOMAIN room.players # {}
        /\ DOMAIN room.players \subseteq confirmed

\* Out of the open phase the roster, the bindings and the battle are settled,
\* and once play is over so are the positions: what an event posted late can
\* still change is whether a device is online.
SettledOnceOutOfOpen ==
    [][room.phase \in {"active", "ended", "closed"} =>
        /\ room'.players = room.players
        /\ room'.battle = room.battle
        /\ \A d \in DOMAIN room'.devices :
               /\ d \in DOMAIN room.devices
               /\ room'.devices[d].bound = room.devices[d].bound
        /\ room.phase # "active" => room'.positions = room.positions]_vars

\* apps/rfd/0008-room-map-state-v1.md: "only registered room players can have
\* position state".
PositionsBelongToMembers == DOMAIN room.positions \subseteq DOMAIN room.players

=============================================================================
