------------------------------ MODULE RoomRules ------------------------------
(***************************************************************************)
(* The room reducer of src/src/room/room.cpp: which events a room accepts  *)
(* and what each of them does to it.  A refused event changes nothing (the *)
(* reducer works on a copy), so it is one RoomAccepts does not hold of.    *)
(*                                                                         *)
(* A room is a record of its phase, its size limits, its members, devices  *)
(* and positions, and its battle.  Names, codes, timestamps, device        *)
(* metrics and coordinates are not read back by the reducer: the model     *)
(* keeps the fact that a position exists and the device it came from.      *)
(***************************************************************************)
EXTENDS Integers, FiniteSets, Functions, Maps

CONSTANTS
    Nobody,        \* no bound player: an empty std::optional
    NoModule,      \* the empty module id
    NoBattle,      \* no battle id
    CountRange     \* 2^32: the counts of players and seats are uint32

ASSUME CountRangeAssumption == CountRange \in Nat \ {0}

RoomPhases == {"none", "open", "active", "ended", "closed"}

\* RoomState{}: the empty room_id of a room not created yet is phase "none".
NewRoom == [phase |-> "none", max |-> 0, caps |-> EmptyMap, players |-> EmptyMap,
            devices |-> EmptyMap, positions |-> EmptyMap, battle |-> NoBattle]

\* RoomState, of finitely many members.
RoomFields(r) ==
    /\ r = [phase |-> r.phase, max |-> r.max, caps |-> r.caps, players |-> r.players,
            devices |-> r.devices, positions |-> r.positions, battle |-> r.battle]
    /\ IsFiniteSet(DOMAIN r.players)

Member(r, p) == p \in DOMAIN r.players
Device(r, d) == d \in DOMAIN r.devices
Open(r) == r.phase = "open"

\* player_count_for_team
TeamMembers(r, t) == {p \in DOMAIN r.players : r.players[p].team = t}

-----------------------------------------------------------------------------
(* Faulty variants of definitions below, one slip each: with the variant   *)
(* in place of the definition, the property it is listed with must fail.   *)

HasSeatOffByOne(r, t) ==
    t \in DOMAIN r.caps /\ Cardinality(TeamMembers(r, t)) <= r.caps[t]

HasModuleIfReady(r, m) ==
    m # NoModule /\ \E p \in DOMAIN r.players :
                        r.players[p].module = m /\ r.players[p].ready

HasBoundDeviceOnline(r, p) ==
    \E d \in DOMAIN r.devices : r.devices[d].bound = p /\ r.devices[d].online

RoomCreatedAnyTotal(r, e) ==
    /\ r.phase = "none" /\ e.max > 0
    /\ DOMAIN e.caps # {} /\ \A t \in DOMAIN e.caps : e.caps[t] > 0

TeamChangedAnyTeam(r, e) ==
    /\ Open(r) /\ Member(r, e.player)
    /\ e.team \in DOMAIN r.caps =>
           Cardinality(TeamMembers(r, e.team)) < r.caps[e.team]

AfterJoinedReady(r, e) ==
    [r EXCEPT !.players = Put(@, e.player,
        [team |-> e.team, module |-> e.module, ready |-> TRUE])]

DeviceUnboundAnyPhase(r, e) ==
    Device(r, e.device) /\ r.devices[e.device].bound # Nobody

-----------------------------------------------------------------------------
(* The checks the apply_* functions share.                                 *)

\* check_team_capacity: the team exists and has a seat left.
HasSeat(r, t) ==
    t \in DOMAIN r.caps /\ Cardinality(TeamMembers(r, t)) < r.caps[t]

\* has_module_id: an empty module id is never taken.
HasModule(r, m) ==
    m # NoModule /\ \E p \in DOMAIN r.players : r.players[p].module = m

\* has_bound_device_for_player: looks at every device, members' or not.
HasBoundDevice(r, p) == \E d \in DOMAIN r.devices : r.devices[d].bound = p

\* total_team_capacity: a sum in uint32.
TotalCapacity(caps) == FoldFunction(+, 0, caps) % CountRange

-----------------------------------------------------------------------------
(* The conditions under which each apply_* function returns ok.            *)

\* apply_room_created; e.caps is the list of teams, which may name none twice.
RoomCreatedAccepted(r, e) ==
    /\ r.phase = "none" /\ e.max > 0
    /\ DOMAIN e.caps # {} /\ \A t \in DOMAIN e.caps : e.caps[t] > 0
    /\ TotalCapacity(e.caps) >= e.max

JoinAccepted(r, e) ==
    /\ Open(r) /\ ~Member(r, e.player)
    /\ Cardinality(DOMAIN r.players) < r.max
    /\ ~HasModule(r, e.module)
    /\ HasSeat(r, e.team)

PlayerLeftAccepted(r, e) == Open(r) /\ Member(r, e.player)

TeamChangedAccepted(r, e) ==
    /\ Open(r) /\ Member(r, e.player)
    /\ \/ r.players[e.player].team # e.team /\ HasSeat(r, e.team)
       \/ r.players[e.player].team = e.team /\ e.team \in DOMAIN r.caps

ReadyChangedAccepted(r, e) == Open(r) /\ Member(r, e.player)

DeviceRegisteredAccepted(r, e) == Open(r) /\ ~Device(r, e.device)

\* The one event taken in every phase.
HeartbeatAccepted(r, e) == r.phase # "none" /\ Device(r, e.device)

DeviceBoundAccepted(r, e) ==
    /\ Open(r) /\ Device(r, e.device) /\ Member(r, e.player)
    /\ r.devices[e.device].bound = Nobody
    /\ ~HasBoundDevice(r, e.player)

DeviceUnboundAccepted(r, e) ==
    Open(r) /\ Device(r, e.device) /\ r.devices[e.device].bound # Nobody

PositionUpdatedAccepted(r, e) ==
    /\ r.phase \in {"open", "active"} /\ Member(r, e.player)
    /\ Device(r, e.device) /\ r.devices[e.device].bound = e.player

RoomStartedAccepted(r, e) ==
    /\ Open(r) /\ DOMAIN r.players # {}
    /\ \A p \in DOMAIN r.players : r.players[p].ready

RoomEndedAccepted(r, e) == r.phase = "active"
RoomClosedAccepted(r, e) == r.phase \in {"open", "ended"}

-----------------------------------------------------------------------------
(* What each apply_* function does.                                        *)

AfterRoomCreated(r, e) ==
    [NewRoom EXCEPT !.phase = "open", !.max = e.max, !.caps = e.caps]

AfterJoined(r, e) ==
    [r EXCEPT !.players = Put(@, e.player,
        [team |-> e.team, module |-> e.module, ready |-> FALSE])]

\* The player's device stays bound and the player's position stays.
AfterLeft(r, e) == [r EXCEPT !.players = Drop(@, e.player)]

\* Readiness survives a change of team.
AfterTeamChanged(r, e) == [r EXCEPT !.players[e.player].team = e.team]

AfterReadyChanged(r, e) == [r EXCEPT !.players[e.player].ready = e.ready]

AfterDeviceRegistered(r, e) ==
    [r EXCEPT !.devices = Put(@, e.device, [online |-> TRUE, bound |-> Nobody])]

AfterHeartbeat(r, e) == [r EXCEPT !.devices[e.device].online = e.online]

AfterDeviceBound(r, e) ==
    [r EXCEPT !.devices[e.device] = [online |-> TRUE, bound |-> e.player]]

AfterDeviceUnbound(r, e) == [r EXCEPT !.devices[e.device].bound = Nobody]

AfterPositionUpdated(r, e) ==
    [r EXCEPT !.positions = Put(@, e.player, e.device)]

AfterRoomStarted(r, e) == [r EXCEPT !.phase = "active", !.battle = e.battle]
AfterRoomEnded(r, e) == [r EXCEPT !.phase = "ended"]
AfterRoomClosed(r, e) == [r EXCEPT !.phase = "closed"]

-----------------------------------------------------------------------------
\* room::apply_event, split into whether it succeeds ...
RoomAccepts(r, e) ==
    \/ e.type = "room_created" /\ RoomCreatedAccepted(r, e)
    \/ e.type = "room_player_joined" /\ JoinAccepted(r, e)
    \/ e.type = "room_player_left" /\ PlayerLeftAccepted(r, e)
    \/ e.type = "room_player_team_changed" /\ TeamChangedAccepted(r, e)
    \/ e.type = "room_player_ready_changed" /\ ReadyChangedAccepted(r, e)
    \/ e.type = "room_device_registered" /\ DeviceRegisteredAccepted(r, e)
    \/ e.type = "room_device_heartbeat_updated" /\ HeartbeatAccepted(r, e)
    \/ e.type = "room_device_bound" /\ DeviceBoundAccepted(r, e)
    \/ e.type = "room_device_unbound" /\ DeviceUnboundAccepted(r, e)
    \/ e.type = "room_player_position_updated" /\ PositionUpdatedAccepted(r, e)
    \/ e.type = "room_started" /\ RoomStartedAccepted(r, e)
    \/ e.type = "room_ended" /\ RoomEndedAccepted(r, e)
    \/ e.type = "room_closed" /\ RoomClosedAccepted(r, e)

\* ... and the state it leaves.
RoomApply(r, e) ==
    CASE e.type = "room_created" -> AfterRoomCreated(r, e)
      [] e.type = "room_player_joined" -> AfterJoined(r, e)
      [] e.type = "room_player_left" -> AfterLeft(r, e)
      [] e.type = "room_player_team_changed" -> AfterTeamChanged(r, e)
      [] e.type = "room_player_ready_changed" -> AfterReadyChanged(r, e)
      [] e.type = "room_device_registered" -> AfterDeviceRegistered(r, e)
      [] e.type = "room_device_heartbeat_updated" -> AfterHeartbeat(r, e)
      [] e.type = "room_device_bound" -> AfterDeviceBound(r, e)
      [] e.type = "room_device_unbound" -> AfterDeviceUnbound(r, e)
      [] e.type = "room_player_position_updated" -> AfterPositionUpdated(r, e)
      [] e.type = "room_started" -> AfterRoomStarted(r, e)
      [] e.type = "room_ended" -> AfterRoomEnded(r, e)
      [] e.type = "room_closed" -> AfterRoomClosed(r, e)

=============================================================================
