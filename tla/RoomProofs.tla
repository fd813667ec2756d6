----------------------------- MODULE RoomProofs -----------------------------
(***************************************************************************)
(* Theorems about Room, for every set of players, teams, modules, devices  *)
(* and battles, and every range of the counts.                             *)
(*                                                                         *)
(* The first part says what each action does to the fields of the room;    *)
(* the invariants after it are proved from these lemmas alone.             *)
(***************************************************************************)
EXTENDS Room, DataLemmas

USE CountRangeAssumption, RoomInputsAssumption

\* The fields a step leaves alone.
SameLimits == room'.max = room.max /\ room'.caps = room.caps
SameDevices == room'.devices = room.devices /\ room'.positions = room.positions
SamePhase == room'.phase = room.phase /\ room'.battle = room.battle

LEMMA CreatedStep ==
    ASSUME NEW e \in Creations, Accept(e)
    PROVE  /\ RoomCreatedAccepted(room, e)
           /\ IsRoom(room')
           /\ room'.phase = "open" /\ room'.battle = NoBattle
           /\ room'.max = e.max /\ room'.caps = e.caps
           /\ room'.players = EmptyMap
           /\ room'.devices = EmptyMap /\ room'.positions = EmptyMap
<1>1. e.type = "room_created"
  BY DEF Creations
<1>2. RoomCreatedAccepted(room, e) /\ room' = AfterRoomCreated(room, e)
  BY <1>1 DEF Accept, RoomAccepts, RoomApply
<1> QED
  BY <1>2 DEF AfterRoomCreated, NewRoom, IsRoom

LEMMA JoinedStep ==
    ASSUME IsRoom(room), NEW e \in Joins, Accept(e)
    PROVE  /\ JoinAccepted(room, e)
           /\ IsRoom(room') /\ SameLimits /\ SameDevices /\ SamePhase
           /\ room'.players = Put(room.players, e.player,
                  [team |-> e.team, module |-> e.module, ready |-> FALSE])
<1>1. e.type = "room_player_joined"
  BY DEF Joins
<1>2. JoinAccepted(room, e) /\ room' = AfterJoined(room, e)
  BY <1>1 DEF Accept, RoomAccepts, RoomApply
<1> QED
  BY <1>2 DEF AfterJoined, IsRoom, SameLimits, SameDevices, SamePhase

LEMMA LeftStep ==
    ASSUME IsRoom(room), NEW e \in Leaves, Accept(e)
    PROVE  /\ PlayerLeftAccepted(room, e)
           /\ IsRoom(room') /\ SameLimits /\ SameDevices /\ SamePhase
           /\ room'.players = Drop(room.players, e.player)
<1>1. e.type = "room_player_left"
  BY DEF Leaves
<1>2. PlayerLeftAccepted(room, e) /\ room' = AfterLeft(room, e)
  BY <1>1 DEF Accept, RoomAccepts, RoomApply
<1> QED
  BY <1>2 DEF AfterLeft, IsRoom, SameLimits, SameDevices, SamePhase

LEMMA TeamChangedStep ==
    ASSUME IsRoom(room), NEW e \in TeamChanges, Accept(e)
    PROVE  /\ TeamChangedAccepted(room, e)
           /\ IsRoom(room') /\ SameLimits /\ SameDevices /\ SamePhase
           /\ room'.players = [room.players EXCEPT ![e.player].team = e.team]
<1>1. e.type = "room_player_team_changed"
  BY DEF TeamChanges
<1>2. TeamChangedAccepted(room, e) /\ room' = AfterTeamChanged(room, e)
  BY <1>1 DEF Accept, RoomAccepts, RoomApply
<1> QED
  BY <1>2 DEF AfterTeamChanged, IsRoom, SameLimits, SameDevices, SamePhase

LEMMA ReadyChangedStep ==
    ASSUME IsRoom(room), NEW e \in ReadyChanges, Accept(e)
    PROVE  /\ ReadyChangedAccepted(room, e)
           /\ IsRoom(room') /\ SameLimits /\ SameDevices /\ SamePhase
           /\ room'.players = [room.players EXCEPT ![e.player].ready = e.ready]
<1>1. e.type = "room_player_ready_changed"
  BY DEF ReadyChanges
<1>2. ReadyChangedAccepted(room, e) /\ room' = AfterReadyChanged(room, e)
  BY <1>1 DEF Accept, RoomAccepts, RoomApply
<1> QED
  BY <1>2 DEF AfterReadyChanged, IsRoom, SameLimits, SameDevices, SamePhase

LEMMA RegisteredStep ==
    ASSUME IsRoom(room), NEW e \in Registrations, Accept(e)
    PROVE  /\ DeviceRegisteredAccepted(room, e)
           /\ IsRoom(room') /\ SameLimits /\ SamePhase
           /\ room'.players = room.players /\ room'.positions = room.positions
           /\ room'.devices = Put(room.devices, e.device,
                                  [online |-> TRUE, bound |-> Nobody])
<1>1. e.type = "room_device_registered"
  BY DEF Registrations
<1>2. DeviceRegisteredAccepted(room, e) /\ room' = AfterDeviceRegistered(room, e)
  BY <1>1 DEF Accept, RoomAccepts, RoomApply
<1> QED
  BY <1>2 DEF AfterDeviceRegistered, IsRoom, SameLimits, SamePhase

LEMMA HeartbeatStep ==
    ASSUME IsRoom(room), NEW e \in Heartbeats, Accept(e)
    PROVE  /\ HeartbeatAccepted(room, e)
           /\ IsRoom(room') /\ SameLimits /\ SamePhase
           /\ room'.players = room.players /\ room'.positions = room.positions
           /\ room'.devices = [room.devices EXCEPT ![e.device].online = e.online]
<1>1. e.type = "room_device_heartbeat_updated"
  BY DEF Heartbeats
<1>2. HeartbeatAccepted(room, e) /\ room' = AfterHeartbeat(room, e)
  BY <1>1 DEF Accept, RoomAccepts, RoomApply
<1> QED
  BY <1>2 DEF AfterHeartbeat, IsRoom, SameLimits, SamePhase

LEMMA BoundStep ==
    ASSUME IsRoom(room), NEW e \in Bindings, Accept(e)
    PROVE  /\ DeviceBoundAccepted(room, e)
           /\ IsRoom(room') /\ SameLimits /\ SamePhase
           /\ room'.players = room.players /\ room'.positions = room.positions
           /\ room'.devices = [room.devices EXCEPT
                                  ![e.device] = [online |-> TRUE, bound |-> e.player]]
<1>1. e.type = "room_device_bound"
  BY DEF Bindings
<1>2. DeviceBoundAccepted(room, e) /\ room' = AfterDeviceBound(room, e)
  BY <1>1 DEF Accept, RoomAccepts, RoomApply
<1> QED
  BY <1>2 DEF AfterDeviceBound, IsRoom, SameLimits, SamePhase

LEMMA UnboundStep ==
    ASSUME IsRoom(room), NEW e \in Unbindings, Accept(e)
    PROVE  /\ DeviceUnboundAccepted(room, e)
           /\ IsRoom(room') /\ SameLimits /\ SamePhase
           /\ room'.players = room.players /\ room'.positions = room.positions
           /\ room'.devices = [room.devices EXCEPT ![e.device].bound = Nobody]
<1>1. e.type = "room_device_unbound"
  BY DEF Unbindings
<1>2. DeviceUnboundAccepted(room, e) /\ room' = AfterDeviceUnbound(room, e)
  BY <1>1 DEF Accept, RoomAccepts, RoomApply
<1> QED
  BY <1>2 DEF AfterDeviceUnbound, IsRoom, SameLimits, SamePhase

LEMMA PositionStep ==
    ASSUME IsRoom(room), NEW e \in PositionReports, Accept(e)
    PROVE  /\ PositionUpdatedAccepted(room, e)
           /\ IsRoom(room') /\ SameLimits /\ SamePhase
           /\ room'.players = room.players /\ room'.devices = room.devices
           /\ room'.positions = Put(room.positions, e.player, e.device)
<1>1. e.type = "room_player_position_updated"
  BY DEF PositionReports
<1>2. PositionUpdatedAccepted(room, e) /\ room' = AfterPositionUpdated(room, e)
  BY <1>1 DEF Accept, RoomAccepts, RoomApply
<1> QED
  BY <1>2 DEF AfterPositionUpdated, IsRoom, SameLimits, SamePhase

LEMMA StartedStep ==
    ASSUME IsRoom(room), NEW e \in Starts, Accept(e)
    PROVE  /\ RoomStartedAccepted(room, e)
           /\ IsRoom(room') /\ SameLimits /\ SameDevices
           /\ room'.players = room.players
           /\ room'.phase = "active" /\ room'.battle = e.battle
<1>1. e.type = "room_started"
  BY DEF Starts
<1>2. RoomStartedAccepted(room, e) /\ room' = AfterRoomStarted(room, e)
  BY <1>1 DEF Accept, RoomAccepts, RoomApply
<1> QED
  BY <1>2 DEF AfterRoomStarted, IsRoom, SameLimits, SameDevices

LEMMA EndedStep ==
    ASSUME IsRoom(room), NEW e \in Ends, Accept(e)
    PROVE  /\ RoomEndedAccepted(room, e)
           /\ IsRoom(room') /\ SameLimits /\ SameDevices
           /\ room'.players = room.players
           /\ room'.phase = "ended" /\ room'.battle = room.battle
<1>1. e.type = "room_ended"
  BY DEF Ends
<1>2. RoomEndedAccepted(room, e) /\ room' = AfterRoomEnded(room, e)
  BY <1>1 DEF Accept, RoomAccepts, RoomApply
<1> QED
  BY <1>2 DEF AfterRoomEnded, IsRoom, SameLimits, SameDevices

LEMMA ClosedStep ==
    ASSUME IsRoom(room), NEW e \in Closings, Accept(e)
    PROVE  /\ RoomClosedAccepted(room, e)
           /\ IsRoom(room') /\ SameLimits /\ SameDevices
           /\ room'.players = room.players
           /\ room'.phase = "closed" /\ room'.battle = room.battle
<1>1. e.type = "room_closed"
  BY DEF Closings
<1>2. RoomClosedAccepted(room, e) /\ room' = AfterRoomClosed(room, e)
  BY <1>1 DEF Accept, RoomAccepts, RoomApply
<1> QED
  BY <1>2 DEF AfterRoomClosed, IsRoom, SameLimits, SameDevices

-----------------------------------------------------------------------------
(* Maps.                                                                   *)

LEMMA UpdateIsMap ==
    ASSUME NEW K, NEW V, NEW m, IsMap(m, K, V), NEW k \in DOMAIN m, NEW v \in V,
           NEW n, n = [m EXCEPT ![k] = v]
    PROVE  /\ IsMap(n, K, V)
           /\ DOMAIN n = DOMAIN m
           /\ n[k] = v
           /\ \A j \in DOMAIN m : j # k => n[j] = m[j]
BY DEF IsMap

-----------------------------------------------------------------------------
(* Types.                                                                  *)

\* What is left of the shape of a room when its members change ...
LEMMA MembersShape ==
    ASSUME RoomShape(room), IsRoom(room'), SameLimits, SameDevices, SamePhase,
           IsMap(room'.players, Players, PlayerState),
           \A p \in DOMAIN room'.players : room'.players[p].team \in DOMAIN room.caps
    PROVE  RoomShape(room')
BY DEF RoomShape, SameLimits, SameDevices, SamePhase

\* ... when its devices change ...
LEMMA DevicesShape ==
    ASSUME RoomShape(room), IsRoom(room'), SameLimits, SamePhase,
           room'.players = room.players, room'.positions = room.positions,
           IsMap(room'.devices, Devices, DeviceState),
           DOMAIN room.devices \subseteq DOMAIN room'.devices
    PROVE  RoomShape(room')
<1>1. IsMap(room'.positions, Players, DOMAIN room'.devices)
  BY DEF RoomShape, IsMap
<1> QED
  BY <1>1 DEF RoomShape, SameLimits, SamePhase

\* ... and when its phase changes.
LEMMA PhaseShape ==
    ASSUME RoomShape(room), IsRoom(room'), SameLimits, SameDevices,
           room'.players = room.players,
           room'.phase \in RoomPhases, room'.battle \in Battles \cup {NoBattle}
    PROVE  RoomShape(room')
BY DEF RoomShape, SameLimits, SameDevices

\* Every reachable room has the shape TypeOK gives it, with each member in a
\* team of the room and each position from a device of the room.
THEOREM TypeCorrect == Spec => []TypeOK
<1>1. Init => TypeOK
  <2> SUFFICES ASSUME Init PROVE TypeOK
    OBVIOUS
  <2>1. IsRoom(room) /\ room.phase \in RoomPhases /\ room.battle = NoBattle
    BY DEF Init, NewRoom, IsRoom, RoomPhases
  <2>2. room.max = 0 /\ 0 \in Seats
    BY DEF Init, NewRoom, Seats
  <2>3. /\ room.caps = EmptyMap /\ room.players = EmptyMap
        /\ room.devices = EmptyMap /\ room.positions = EmptyMap
    BY DEF Init, NewRoom
  <2> QED
    BY <2>1, <2>2, <2>3 DEF Init, TypeOK, RoomShape, IsMap, EmptyMap
<1>2. TypeOK /\ [Next]_vars => TypeOK'
  <2> SUFFICES ASSUME TypeOK, [Next]_vars
               PROVE  TypeOK'
    OBVIOUS
  <2>0. RoomShape(room) /\ IsRoom(room) /\ confirmed \subseteq Players
    BY DEF TypeOK, RoomShape
  <2>1. CASE RoomCreated
    <3>1. PICK e \in Creations : Accept(e) /\ UNCHANGED confirmed
      BY <2>1 DEF RoomCreated
    <3>2. e.max \in Seats /\ IsMap(e.caps, Teams, Seats)
      BY DEF Creations, TeamLists, IsMap
    <3>3. RoomShape(room')
      BY <3>1, <3>2, CreatedStep DEF RoomShape, IsMap, EmptyMap, RoomPhases
    <3> QED
      BY <2>0, <3>1, <3>3 DEF TypeOK
  <2>2. CASE RoomPlayerJoined
    <3>1. PICK e \in Joins : Accept(e) /\ confirmed' = confirmed \ {e.player}
      BY <2>2 DEF RoomPlayerJoined
    <3> DEFINE new == [team |-> e.team, module |-> e.module, ready |-> FALSE]
    <3>2. new \in PlayerState /\ e.player \in Players /\ e.team \in DOMAIN room.caps
      BY <2>0, <3>1, JoinedStep DEF Joins, PlayerState, JoinAccepted, HasSeat
    <3>3. room'.players = Put(room.players, e.player, new)
      BY <2>0, <3>1, JoinedStep
    <3> HIDE DEF new
    <3>4. IsMap(room.players, Players, PlayerState)
      BY <2>0 DEF RoomShape
    <3>5. /\ IsMap(room'.players, Players, PlayerState)
          /\ DOMAIN room'.players = DOMAIN room.players \cup {e.player}
          /\ room'.players[e.player] = new
          /\ \A p \in DOMAIN room.players :
                 p # e.player => room'.players[p] = room.players[p]
      BY <3>2, <3>3, <3>4 DEF Put, IsMap
    <3>6. \A p \in DOMAIN room'.players : room'.players[p].team \in DOMAIN room.caps
      BY <2>0, <3>2, <3>5 DEF RoomShape, new
    <3>7. RoomShape(room')
      BY <2>0, <3>1, <3>5, <3>6, JoinedStep, MembersShape
    <3> QED
      BY <2>0, <3>1, <3>7 DEF TypeOK
  <2>3. CASE RoomPlayerLeft
    <3>1. PICK e \in Leaves : Accept(e) /\ confirmed' = confirmed \ {e.player}
      BY <2>3 DEF RoomPlayerLeft
    <3>2. IsMap(room.players, Players, PlayerState)
      BY <2>0 DEF RoomShape
    <3>3. room'.players = Drop(room.players, e.player)
      BY <2>0, <3>1, LeftStep
    <3>6. /\ IsMap(room'.players, Players, PlayerState)
          /\ DOMAIN room'.players = DOMAIN room.players \ {e.player}
          /\ \A p \in DOMAIN room'.players : room'.players[p] = room.players[p]
      BY <3>2, <3>3 DEF Drop, IsMap
    <3>4. \A p \in DOMAIN room'.players : room'.players[p].team \in DOMAIN room.caps
      BY <2>0, <3>6 DEF RoomShape
    <3>5. RoomShape(room')
      BY <2>0, <3>1, <3>6, <3>4, LeftStep, MembersShape
    <3> QED
      BY <2>0, <3>1, <3>5 DEF TypeOK
  <2>4. CASE RoomPlayerTeamChanged
    <3>1. PICK e \in TeamChanges : Accept(e) /\ UNCHANGED confirmed
      BY <2>4 DEF RoomPlayerTeamChanged
    <3>2. /\ e.team \in DOMAIN room.caps /\ e.team \in Teams
          /\ e.player \in DOMAIN room.players
          /\ room'.players = [room.players EXCEPT ![e.player].team = e.team]
      BY <2>0, <3>1, TeamChangedStep
         DEF TeamChanges, TeamChangedAccepted, HasSeat, Member
    <3>6. IsMap(room.players, Players, PlayerState)
      BY <2>0 DEF RoomShape
    <3>7. room.players[e.player] \in PlayerState
      BY <3>2, <3>6 DEF IsMap
    <3> DEFINE new == [room.players[e.player] EXCEPT !.team = e.team]
    <3>8. new \in PlayerState /\ new.team = e.team
      BY <3>2, <3>7 DEF PlayerState
    <3>9. room'.players = [room.players EXCEPT ![e.player] = new]
      BY <3>2
    <3> HIDE DEF new
    <3>3. /\ IsMap(room'.players, Players, PlayerState)
          /\ DOMAIN room'.players = DOMAIN room.players
          /\ room'.players[e.player] = new
          /\ \A p \in DOMAIN room.players :
                 p # e.player => room'.players[p] = room.players[p]
      BY <3>2, <3>6, <3>8, <3>9, UpdateIsMap
    <3>4. \A p \in DOMAIN room'.players : room'.players[p].team \in DOMAIN room.caps
      BY <2>0, <3>2, <3>3, <3>8 DEF RoomShape
    <3>5. RoomShape(room')
      BY <2>0, <3>1, <3>3, <3>4, TeamChangedStep, MembersShape
    <3> QED
      BY <2>0, <3>1, <3>5 DEF TypeOK
  <2>5. CASE RoomPlayerReadyChanged
    <3>1. PICK e \in ReadyChanges :
              /\ Accept(e)
              /\ confirmed' = IF e.ready THEN confirmed \cup {e.player}
                              ELSE confirmed \ {e.player}
      BY <2>5 DEF RoomPlayerReadyChanged
    <3>2. /\ e.ready \in BOOLEAN /\ e.player \in Players
          /\ e.player \in DOMAIN room.players
          /\ room'.players = [room.players EXCEPT ![e.player].ready = e.ready]
      BY <2>0, <3>1, ReadyChangedStep DEF ReadyChanges, ReadyChangedAccepted, Member
    <3>6. IsMap(room.players, Players, PlayerState)
      BY <2>0 DEF RoomShape
    <3>7. room.players[e.player] \in PlayerState
      BY <3>2, <3>6 DEF IsMap
    <3> DEFINE new == [room.players[e.player] EXCEPT !.ready = e.ready]
    <3>8. new \in PlayerState /\ new.team = room.players[e.player].team
      BY <3>2, <3>7 DEF PlayerState
    <3>9. room'.players = [room.players EXCEPT ![e.player] = new]
      BY <3>2
    <3> HIDE DEF new
    <3>3. /\ IsMap(room'.players, Players, PlayerState)
          /\ DOMAIN room'.players = DOMAIN room.players
          /\ room'.players[e.player] = new
          /\ \A p \in DOMAIN room.players :
                 p # e.player => room'.players[p] = room.players[p]
      BY <3>2, <3>6, <3>8, <3>9, UpdateIsMap
    <3>4. \A p \in DOMAIN room'.players : room'.players[p].team \in DOMAIN room.caps
      BY <2>0, <3>3, <3>8 DEF RoomShape
    <3>5. RoomShape(room')
      BY <2>0, <3>1, <3>3, <3>4, ReadyChangedStep, MembersShape
    <3> QED
      BY <2>0, <3>1, <3>2, <3>5 DEF TypeOK
  <2>6. CASE RoomDeviceRegistered
    <3>1. PICK e \in Registrations : Accept(e) /\ UNCHANGED confirmed
      BY <2>6 DEF RoomDeviceRegistered
    <3> DEFINE new == [online |-> TRUE, bound |-> Nobody]
    <3>2. e.device \in Devices /\ new \in DeviceState
      BY DEF Registrations, DeviceState
    <3>3. room'.devices = Put(room.devices, e.device, new)
      BY <2>0, <3>1, RegisteredStep
    <3> HIDE DEF new
    <3>4. IsMap(room.devices, Devices, DeviceState)
      BY <2>0 DEF RoomShape
    <3>5. /\ IsMap(room'.devices, Devices, DeviceState)
          /\ DOMAIN room.devices \subseteq DOMAIN room'.devices
      BY <3>2, <3>3, <3>4 DEF Put, IsMap
    <3>6. RoomShape(room')
      BY <2>0, <3>1, <3>5, RegisteredStep, DevicesShape
    <3> QED
      BY <2>0, <3>1, <3>6 DEF TypeOK
  <2>7. CASE RoomDeviceHeartbeat
    <3>1. PICK e \in Heartbeats : Accept(e) /\ UNCHANGED confirmed
      BY <2>7 DEF RoomDeviceHeartbeat
    <3>2. /\ e.online \in BOOLEAN /\ e.device \in DOMAIN room.devices
          /\ room'.devices = [room.devices EXCEPT ![e.device].online = e.online]
      BY <2>0, <3>1, HeartbeatStep DEF Heartbeats, HeartbeatAccepted, Device
    <3>5. IsMap(room.devices, Devices, DeviceState)
      BY <2>0 DEF RoomShape
    <3>6. room.devices[e.device] \in DeviceState
      BY <3>2, <3>5 DEF IsMap
    <3> DEFINE new == [room.devices[e.device] EXCEPT !.online = e.online]
    <3>7. new \in DeviceState
      BY <3>2, <3>6 DEF DeviceState
    <3>8. room'.devices = [room.devices EXCEPT ![e.device] = new]
      BY <3>2
    <3> HIDE DEF new
    <3>3. /\ IsMap(room'.devices, Devices, DeviceState)
          /\ DOMAIN room.devices \subseteq DOMAIN room'.devices
      BY <3>2, <3>5, <3>7, <3>8, UpdateIsMap
    <3>4. RoomShape(room')
      BY <2>0, <3>1, <3>3, HeartbeatStep, DevicesShape
    <3> QED
      BY <2>0, <3>1, <3>4 DEF TypeOK
  <2>8. CASE RoomDeviceBound
    <3>1. PICK e \in Bindings : Accept(e) /\ UNCHANGED confirmed
      BY <2>8 DEF RoomDeviceBound
    <3>2. /\ e.player \in Players /\ e.device \in DOMAIN room.devices
          /\ room'.devices = [room.devices EXCEPT
                                 ![e.device] = [online |-> TRUE, bound |-> e.player]]
      BY <2>0, <3>1, BoundStep DEF Bindings, DeviceBoundAccepted, Device
    <3>5. IsMap(room.devices, Devices, DeviceState)
      BY <2>0 DEF RoomShape
    <3>6. room.devices[e.device] \in DeviceState
      BY <3>2, <3>5 DEF IsMap
    <3> DEFINE new == [online |-> TRUE, bound |-> e.player]
    <3>7. new \in DeviceState
      BY <3>2, <3>6 DEF DeviceState
    <3>8. room'.devices = [room.devices EXCEPT ![e.device] = new]
      BY <3>2
    <3> HIDE DEF new
    <3>3. /\ IsMap(room'.devices, Devices, DeviceState)
          /\ DOMAIN room.devices \subseteq DOMAIN room'.devices
      BY <3>2, <3>5, <3>7, <3>8, UpdateIsMap
    <3>4. RoomShape(room')
      BY <2>0, <3>1, <3>3, BoundStep, DevicesShape
    <3> QED
      BY <2>0, <3>1, <3>4 DEF TypeOK
  <2>9. CASE RoomDeviceUnbound
    <3>1. PICK e \in Unbindings : Accept(e) /\ UNCHANGED confirmed
      BY <2>9 DEF RoomDeviceUnbound
    <3>2. /\ e.device \in DOMAIN room.devices
          /\ room'.devices = [room.devices EXCEPT ![e.device].bound = Nobody]
      BY <2>0, <3>1, UnboundStep DEF DeviceUnboundAccepted, Device
    <3>5. IsMap(room.devices, Devices, DeviceState)
      BY <2>0 DEF RoomShape
    <3>6. room.devices[e.device] \in DeviceState
      BY <3>2, <3>5 DEF IsMap
    <3> DEFINE new == [room.devices[e.device] EXCEPT !.bound = Nobody]
    <3>7. new \in DeviceState
      BY <3>2, <3>6 DEF DeviceState
    <3>8. room'.devices = [room.devices EXCEPT ![e.device] = new]
      BY <3>2
    <3> HIDE DEF new
    <3>3. /\ IsMap(room'.devices, Devices, DeviceState)
          /\ DOMAIN room.devices \subseteq DOMAIN room'.devices
      BY <3>2, <3>5, <3>7, <3>8, UpdateIsMap
    <3>4. RoomShape(room')
      BY <2>0, <3>1, <3>3, UnboundStep, DevicesShape
    <3> QED
      BY <2>0, <3>1, <3>4 DEF TypeOK
  <2>10. CASE RoomPositionUpdated
    <3>1. PICK e \in PositionReports : Accept(e) /\ UNCHANGED confirmed
      BY <2>10 DEF RoomPositionUpdated
    <3>2. e.player \in Players /\ e.device \in DOMAIN room.devices
      BY <2>0, <3>1, PositionStep DEF PositionReports, PositionUpdatedAccepted, Device
    <3>3. IsMap(room.positions, Players, DOMAIN room.devices)
      BY <2>0 DEF RoomShape
    <3>6. room'.positions = Put(room.positions, e.player, e.device)
      BY <2>0, <3>1, PositionStep
    <3>4. IsMap(room'.positions, Players, DOMAIN room.devices)
      BY <3>2, <3>3, <3>6 DEF Put, IsMap
    <3>5. RoomShape(room')
      BY <2>0, <3>1, <3>4, PositionStep DEF RoomShape, SameLimits, SamePhase
    <3> QED
      BY <2>0, <3>1, <3>5 DEF TypeOK
  <2>11. CASE RoomStarted
    <3>1. PICK e \in Starts : Accept(e) /\ UNCHANGED confirmed
      BY <2>11 DEF RoomStarted
    <3>2. RoomShape(room')
      BY <2>0, <3>1, StartedStep, PhaseShape DEF Starts, RoomPhases
    <3> QED
      BY <2>0, <3>1, <3>2 DEF TypeOK
  <2>12. CASE RoomEnded
    <3>1. PICK e \in Ends : Accept(e) /\ UNCHANGED confirmed
      BY <2>12 DEF RoomEnded
    <3>2. room.battle \in Battles \cup {NoBattle}
      BY <2>0 DEF RoomShape
    <3>3. RoomShape(room')
      BY <2>0, <3>1, <3>2, EndedStep, PhaseShape DEF RoomPhases
    <3> QED
      BY <2>0, <3>1, <3>3 DEF TypeOK
  <2>13. CASE RoomClosed
    <3>1. PICK e \in Closings : Accept(e) /\ UNCHANGED confirmed
      BY <2>13 DEF RoomClosed
    <3>2. room.battle \in Battles \cup {NoBattle}
      BY <2>0 DEF RoomShape
    <3>3. RoomShape(room')
      BY <2>0, <3>1, <3>2, ClosedStep, PhaseShape DEF RoomPhases
    <3> QED
      BY <2>0, <3>1, <3>3 DEF TypeOK
  <2>14. CASE UNCHANGED vars
    BY <2>14 DEF vars, TypeOK
  <2> QED
    BY <2>1, <2>2, <2>3, <2>4, <2>5, <2>6, <2>7, <2>8, <2>9, <2>10, <2>11, <2>12,
       <2>13, <2>14 DEF Next
<1> QED
  BY <1>1, <1>2, PTL DEF Spec

-----------------------------------------------------------------------------
(* Two classes of steps.                                                   *)

SameRoster ==
    /\ SameLimits
    /\ DOMAIN room'.players = DOMAIN room.players
    /\ \A p \in DOMAIN room.players :
           /\ room'.players[p].team = room.players[p].team
           /\ room'.players[p].module = room.players[p].module

\* Who is in the room, in which team and with which module, changes only when
\* the room is created, or a player joins, leaves or changes the team.
LEMMA RosterSteps ==
    ASSUME TypeOK, [Next]_vars
    PROVE  RoomCreated \/ RoomPlayerJoined \/ RoomPlayerLeft
               \/ RoomPlayerTeamChanged \/ SameRoster
<1>0. IsRoom(room)
  BY DEF TypeOK, RoomShape
<1>1. CASE RoomPlayerReadyChanged
  <2>1. PICK e \in ReadyChanges : Accept(e)
    BY <1>1 DEF RoomPlayerReadyChanged
  <2>2. /\ SameLimits
        /\ room'.players = [room.players EXCEPT ![e.player].ready = e.ready]
    BY <1>0, <2>1, ReadyChangedStep
  <2>3. room.players \in [DOMAIN room.players -> PlayerState]
    BY DEF TypeOK, RoomShape, IsMap
  <2> QED
    BY <2>2, <2>3 DEF SameRoster, PlayerState
<1>2. CASE RoomDeviceRegistered
  BY <1>0, <1>2, RegisteredStep DEF RoomDeviceRegistered, SameRoster
<1>3. CASE RoomDeviceHeartbeat
  BY <1>0, <1>3, HeartbeatStep DEF RoomDeviceHeartbeat, SameRoster
<1>4. CASE RoomDeviceBound
  BY <1>0, <1>4, BoundStep DEF RoomDeviceBound, SameRoster
<1>5. CASE RoomDeviceUnbound
  BY <1>0, <1>5, UnboundStep DEF RoomDeviceUnbound, SameRoster
<1>6. CASE RoomPositionUpdated
  BY <1>0, <1>6, PositionStep DEF RoomPositionUpdated, SameRoster
<1>7. CASE RoomStarted
  BY <1>0, <1>7, StartedStep DEF RoomStarted, SameRoster
<1>8. CASE RoomEnded
  BY <1>0, <1>8, EndedStep DEF RoomEnded, SameRoster
<1>9. CASE RoomClosed
  BY <1>0, <1>9, ClosedStep DEF RoomClosed, SameRoster
<1>10. CASE UNCHANGED vars
  BY <1>10 DEF vars, SameRoster, SameLimits
<1> QED
  BY <1>1, <1>2, <1>3, <1>4, <1>5, <1>6, <1>7, <1>8, <1>9, <1>10 DEF Next

Late == {"active", "ended", "closed"}

\* A room that is no longer open takes four events: a heartbeat, a position
\* while it is active, its end and its closing.
LEMMA LateSteps ==
    ASSUME TypeOK, [Next]_vars, room.phase \in Late
    PROVE  /\ room'.players = room.players /\ confirmed' = confirmed
           /\ room'.battle = room.battle
           /\ room'.phase \in Late
           /\ DOMAIN room'.devices = DOMAIN room.devices
           /\ \A d \in DOMAIN room.devices :
                  room'.devices[d].bound = room.devices[d].bound
           /\ room.phase # "active" => room'.positions = room.positions
<1>0. IsRoom(room) /\ ~Open(room) /\ room.phase # "none"
  BY DEF TypeOK, RoomShape, Open, Late
<1>1. CASE RoomCreated
  BY <1>0, <1>1, CreatedStep DEF RoomCreated, RoomCreatedAccepted
<1>2. CASE RoomPlayerJoined
  BY <1>0, <1>2, JoinedStep DEF RoomPlayerJoined, JoinAccepted
<1>3. CASE RoomPlayerLeft
  BY <1>0, <1>3, LeftStep DEF RoomPlayerLeft, PlayerLeftAccepted
<1>4. CASE RoomPlayerTeamChanged
  BY <1>0, <1>4, TeamChangedStep DEF RoomPlayerTeamChanged, TeamChangedAccepted
<1>5. CASE RoomPlayerReadyChanged
  BY <1>0, <1>5, ReadyChangedStep DEF RoomPlayerReadyChanged, ReadyChangedAccepted
<1>6. CASE RoomDeviceRegistered
  BY <1>0, <1>6, RegisteredStep DEF RoomDeviceRegistered, DeviceRegisteredAccepted
<1>7. CASE RoomDeviceHeartbeat
  <2>1. PICK e \in Heartbeats : Accept(e) /\ UNCHANGED confirmed
    BY <1>7 DEF RoomDeviceHeartbeat
  <2>2. /\ SamePhase /\ e.device \in DOMAIN room.devices
        /\ room'.players = room.players /\ room'.positions = room.positions
        /\ room'.devices = [room.devices EXCEPT ![e.device].online = e.online]
    BY <1>0, <2>1, HeartbeatStep DEF HeartbeatAccepted, Device
  <2>3. room.devices \in [DOMAIN room.devices -> DeviceState]
    BY DEF TypeOK, RoomShape, IsMap
  <2>4. /\ DOMAIN room'.devices = DOMAIN room.devices
        /\ \A d \in DOMAIN room.devices :
               room'.devices[d].bound = room.devices[d].bound
    BY <2>2, <2>3 DEF DeviceState
  <2> QED
    BY <2>1, <2>2, <2>4 DEF SamePhase
<1>8. CASE RoomDeviceBound
  BY <1>0, <1>8, BoundStep DEF RoomDeviceBound, DeviceBoundAccepted
<1>9. CASE RoomDeviceUnbound
  BY <1>0, <1>9, UnboundStep DEF RoomDeviceUnbound, DeviceUnboundAccepted
<1>10. CASE RoomPositionUpdated
  <2>1. PICK e \in PositionReports : Accept(e) /\ UNCHANGED confirmed
    BY <1>10 DEF RoomPositionUpdated
  <2>2. /\ SamePhase /\ room'.players = room.players
        /\ room'.devices = room.devices
        /\ room.phase \in {"open", "active"}
    BY <1>0, <2>1, PositionStep DEF PositionUpdatedAccepted
  <2> QED
    BY <2>1, <2>2 DEF SamePhase, Late
<1>11. CASE RoomStarted
  BY <1>0, <1>11, StartedStep DEF RoomStarted, RoomStartedAccepted
<1>12. CASE RoomEnded
  BY <1>0, <1>12, EndedStep DEF RoomEnded, SameDevices, Late
<1>13. CASE RoomClosed
  BY <1>0, <1>13, ClosedStep DEF RoomClosed, SameDevices, Late
<1>14. CASE UNCHANGED vars
  BY <1>14 DEF vars
<1> QED
  BY <1>1, <1>2, <1>3, <1>4, <1>5, <1>6, <1>7, <1>8, <1>9, <1>10, <1>11, <1>12,
     <1>13, <1>14 DEF Next

\* Out of the open phase roster, bindings and battle never change again, nor
\* do the positions once play is over.
THEOREM SettledCorrect == Spec => SettledOnceOutOfOpen
<1>1. TypeOK /\ [Next]_vars =>
        [room.phase \in {"active", "ended", "closed"} =>
            /\ room'.players = room.players
            /\ room'.battle = room.battle
            /\ \A d \in DOMAIN room'.devices :
                   /\ d \in DOMAIN room.devices
                   /\ room'.devices[d].bound = room.devices[d].bound
            /\ room.phase # "active" => room'.positions = room.positions]_vars
  BY LateSteps DEF Late
<1> QED
  BY <1>1, TypeCorrect, PTL DEF Spec, SettledOnceOutOfOpen

-----------------------------------------------------------------------------
(* Seats.                                                                  *)

MembersFinite == IsFiniteSet(DOMAIN room.players)

\* The members of a team are some of the members of the room.
LEMMA TeamsFinite ==
    ASSUME MembersFinite, NEW t
    PROVE  /\ IsFiniteSet(TeamMembers(room, t))
           /\ Cardinality(TeamMembers(room, t)) \in Nat
           /\ Cardinality(DOMAIN room.players) \in Nat
<1>1. TeamMembers(room, t) \subseteq DOMAIN room.players
  BY DEF TeamMembers
<1> QED
  BY <1>1, FS_Subset, FS_CardinalityType DEF MembersFinite

\* Capacities, together with what it takes to count the members.
LEMMA MembersCorrect == Spec => [](MembersFinite /\ CapacityRespected)
<1> DEFINE Inv == MembersFinite /\ CapacityRespected
<1>1. Init => Inv
  <2> SUFFICES ASSUME Init PROVE Inv
    OBVIOUS
  <2>1. room.players = EmptyMap /\ room.caps = EmptyMap /\ room.max = 0
    BY DEF Init, NewRoom
  <2>2. DOMAIN room.players = {} /\ DOMAIN room.caps = {}
    BY <2>1 DEF EmptyMap
  <2>3. IsFiniteSet({}) /\ Cardinality({}) = 0
    BY FS_EmptySet
  <2> QED
    BY <2>1, <2>2, <2>3 DEF MembersFinite, CapacityRespected
<1>2. TypeOK /\ Inv /\ [Next]_vars => Inv'
  <2> SUFFICES ASSUME TypeOK, Inv, [Next]_vars PROVE Inv'
    OBVIOUS
  <2>0. IsRoom(room) /\ room.max \in Nat /\ IsMap(room.caps, Teams, Nat)
    BY DEF TypeOK, RoomShape, IsMap, Seats
  <2>1. CASE RoomCreated
    <3>1. PICK e \in Creations : Accept(e)
      BY <2>1 DEF RoomCreated
    <3>2. /\ DOMAIN room'.players = {}
          /\ room'.max = e.max /\ room'.caps = e.caps
      BY <3>1, CreatedStep DEF EmptyMap
    <3>3. e.max \in Nat /\ \A t \in DOMAIN e.caps : e.caps[t] \in Nat
      BY DEF Creations, TeamLists, Seats
    <3>4. \A t : TeamMembers(room', t) = {}
      BY <3>2 DEF TeamMembers
    <3>5. IsFiniteSet({}) /\ Cardinality({}) = 0
      BY FS_EmptySet
    <3> QED
      BY <3>2, <3>3, <3>4, <3>5 DEF MembersFinite, CapacityRespected
  <2>2. CASE RoomPlayerJoined
    <3>1. PICK e \in Joins : Accept(e)
      BY <2>2 DEF RoomPlayerJoined
    <3>2. /\ JoinAccepted(room, e) /\ SameLimits
          /\ room'.players = Put(room.players, e.player,
                 [team |-> e.team, module |-> e.module, ready |-> FALSE])
      BY <2>0, <3>1, JoinedStep
    <3>3. /\ e.player \notin DOMAIN room.players
          /\ Cardinality(DOMAIN room.players) < room.max
          /\ e.team \in DOMAIN room.caps
          /\ Cardinality(TeamMembers(room, e.team)) < room.caps[e.team]
      BY <3>2 DEF JoinAccepted, HasSeat, Member
    <3>4. /\ DOMAIN room'.players = DOMAIN room.players \cup {e.player}
          /\ room'.players[e.player].team = e.team
          /\ \A p \in DOMAIN room.players : room'.players[p] = room.players[p]
      BY <3>2, <3>3 DEF Put
    <3>5. /\ IsFiniteSet(DOMAIN room'.players)
          /\ Cardinality(DOMAIN room'.players) = Cardinality(DOMAIN room.players) + 1
      BY <3>3, <3>4, FS_AddElement DEF MembersFinite
    <3>6. Cardinality(DOMAIN room'.players) <= room'.max
      BY <2>0, <3>2, <3>3, <3>5, TeamsFinite DEF SameLimits
    <3>7. ASSUME NEW t \in DOMAIN room'.caps
          PROVE  Cardinality(TeamMembers(room', t)) <= room'.caps[t]
      <4>0. /\ room'.caps[t] = room.caps[t] /\ room.caps[t] \in Nat
            /\ t \in DOMAIN room.caps
        BY <2>0, <3>2 DEF SameLimits, IsMap
      <4>1. CASE t = e.team
        <5>1. TeamMembers(room', t) = TeamMembers(room, t) \cup {e.player}
          BY <4>1, <3>3, <3>4 DEF TeamMembers
        <5>2. e.player \notin TeamMembers(room, t)
          BY <3>3 DEF TeamMembers
        <5>3. IsFiniteSet(TeamMembers(room, t)) /\ Cardinality(TeamMembers(room, t)) \in Nat
          BY TeamsFinite
        <5>4. Cardinality(TeamMembers(room', t)) = Cardinality(TeamMembers(room, t)) + 1
          BY <5>1, <5>2, <5>3, FS_AddElement
        <5> QED
          BY <4>0, <4>1, <3>3, <5>3, <5>4
      <4>2. CASE t # e.team
        <5>1. TeamMembers(room', t) = TeamMembers(room, t)
          BY <4>2, <3>3, <3>4 DEF TeamMembers
        <5> QED
          BY <4>0, <5>1 DEF CapacityRespected
      <4> QED
        BY <4>1, <4>2
    <3> QED
      BY <3>5, <3>6, <3>7 DEF MembersFinite, CapacityRespected
  <2>3. CASE RoomPlayerLeft
    <3>1. PICK e \in Leaves : Accept(e)
      BY <2>3 DEF RoomPlayerLeft
    <3>2. SameLimits /\ room'.players = Drop(room.players, e.player)
      BY <2>0, <3>1, LeftStep
    <3>3. /\ DOMAIN room'.players \subseteq DOMAIN room.players
          /\ \A p \in DOMAIN room'.players : room'.players[p] = room.players[p]
      BY <3>2 DEF Drop
    <3>4. /\ IsFiniteSet(DOMAIN room'.players)
          /\ Cardinality(DOMAIN room'.players) <= Cardinality(DOMAIN room.players)
          /\ Cardinality(DOMAIN room'.players) \in Nat
      BY <3>3, FS_Subset, FS_CardinalityType DEF MembersFinite
    <3>5. Cardinality(DOMAIN room'.players) <= room'.max
      BY <2>0, <3>2, <3>4, TeamsFinite DEF SameLimits, CapacityRespected
    <3>6. ASSUME NEW t \in DOMAIN room'.caps
          PROVE  Cardinality(TeamMembers(room', t)) <= room'.caps[t]
      <4>0. /\ room'.caps[t] = room.caps[t] /\ room.caps[t] \in Nat
            /\ t \in DOMAIN room.caps
        BY <2>0, <3>2 DEF SameLimits, IsMap
      <4>1. TeamMembers(room', t) \subseteq TeamMembers(room, t)
        BY <3>3 DEF TeamMembers
      <4>2. IsFiniteSet(TeamMembers(room, t)) /\ Cardinality(TeamMembers(room, t)) \in Nat
        BY TeamsFinite
      <4>3. /\ Cardinality(TeamMembers(room', t)) <= Cardinality(TeamMembers(room, t))
            /\ Cardinality(TeamMembers(room', t)) \in Nat
        BY <4>1, <4>2, FS_Subset, FS_CardinalityType
      <4>4. Cardinality(TeamMembers(room, t)) <= room.caps[t]
        BY <4>0 DEF CapacityRespected
      <4> QED
        BY <4>0, <4>2, <4>3, <4>4
    <3> QED
      BY <3>4, <3>5, <3>6 DEF MembersFinite, CapacityRespected
  <2>4. CASE RoomPlayerTeamChanged
    <3>1. PICK e \in TeamChanges : Accept(e)
      BY <2>4 DEF RoomPlayerTeamChanged
    <3>2. /\ TeamChangedAccepted(room, e) /\ SameLimits
          /\ room'.players = [room.players EXCEPT ![e.player].team = e.team]
      BY <2>0, <3>1, TeamChangedStep
    <3>3. /\ e.player \in DOMAIN room.players
          /\ room.players \in [DOMAIN room.players -> PlayerState]
      BY <3>2 DEF TeamChangedAccepted, Member, TypeOK, RoomShape, IsMap
    <3>4. /\ DOMAIN room'.players = DOMAIN room.players
          /\ room'.players[e.player].team = e.team
          /\ \A p \in DOMAIN room.players :
                 p # e.player => room'.players[p] = room.players[p]
      BY <3>2, <3>3 DEF PlayerState
    <3>5. MembersFinite' /\ Cardinality(DOMAIN room'.players) <= room'.max
      BY <3>2, <3>4 DEF MembersFinite, CapacityRespected, SameLimits
    <3>6. ASSUME NEW t \in DOMAIN room'.caps
          PROVE  Cardinality(TeamMembers(room', t)) <= room'.caps[t]
      <4>0. /\ room'.caps[t] = room.caps[t] /\ room.caps[t] \in Nat
            /\ t \in DOMAIN room.caps
        BY <2>0, <3>2 DEF SameLimits, IsMap
      <4>1. IsFiniteSet(TeamMembers(room, t)) /\ Cardinality(TeamMembers(room, t)) \in Nat
        BY TeamsFinite
      <4>2. CASE t = e.team /\ room.players[e.player].team # e.team
        <5>1. TeamMembers(room', t) = TeamMembers(room, t) \cup {e.player}
          BY <4>2, <3>3, <3>4 DEF TeamMembers
        <5>2. e.player \notin TeamMembers(room, t)
          BY <4>2 DEF TeamMembers
        <5>3. Cardinality(TeamMembers(room, t)) < room.caps[t]
          BY <3>2, <4>2 DEF TeamChangedAccepted, HasSeat
        <5>4. Cardinality(TeamMembers(room', t)) = Cardinality(TeamMembers(room, t)) + 1
          BY <4>1, <5>1, <5>2, FS_AddElement
        <5> QED
          BY <4>0, <4>1, <5>3, <5>4
      <4>3. CASE ~(t = e.team /\ room.players[e.player].team # e.team)
        <5>1. TeamMembers(room', t) \subseteq TeamMembers(room, t)
          BY <4>3, <3>3, <3>4 DEF TeamMembers
        <5>2. /\ Cardinality(TeamMembers(room', t)) <= Cardinality(TeamMembers(room, t))
              /\ Cardinality(TeamMembers(room', t)) \in Nat
          BY <4>1, <5>1, FS_Subset, FS_CardinalityType
        <5>3. Cardinality(TeamMembers(room, t)) <= room.caps[t]
          BY <4>0 DEF CapacityRespected
        <5> QED
          BY <4>0, <4>1, <5>2, <5>3
      <4> QED
        BY <4>2, <4>3
    <3> QED
      BY <3>5, <3>6 DEF CapacityRespected
  <2>5. CASE SameRoster
    <3>1. \A t : TeamMembers(room', t) = TeamMembers(room, t)
      BY <2>5 DEF SameRoster, TeamMembers
    <3> QED
      BY <2>5, <3>1 DEF SameRoster, SameLimits, MembersFinite, CapacityRespected
  <2> QED
    BY <2>1, <2>2, <2>3, <2>4, <2>5, RosterSteps
<1> QED
  BY <1>1, <1>2, TypeCorrect, PTL DEF Spec

\* Neither the room nor any team is ever overfull, whatever the mix of joins,
\* departures and changes of team.
THEOREM CapacityCorrect == Spec => []CapacityRespected
BY MembersCorrect, PTL

\* What apply_room_created compared still holds: nothing changes the limits.
SeatsEnough ==
    /\ IsFiniteSet(DOMAIN room.caps)
    /\ room.max = 0 \/ room.max <= TotalCapacity(room.caps)

\* A room that is not full has a team with a seat left: if every team was
\* full, the members would be no fewer than the sum of the team limits, and
\* taking that sum modulo the range of the counts can only lower it.
THEOREM SeatCorrect == Spec => []SeatAvailable
<1>1. Init => SeatsEnough
  <2> SUFFICES ASSUME Init PROVE SeatsEnough OBVIOUS
  <2>1. room.max = 0 /\ DOMAIN room.caps = {} BY DEF Init, NewRoom, EmptyMap
  <2> QED BY <2>1, FS_EmptySet DEF SeatsEnough
<1>2. TypeOK /\ SeatsEnough /\ [Next]_vars => SeatsEnough'
  <2> SUFFICES ASSUME TypeOK, SeatsEnough, [Next]_vars PROVE SeatsEnough' OBVIOUS
  <2>0. IsRoom(room) BY DEF TypeOK, RoomShape
  <2>1. CASE RoomCreated
    <3>1. PICK e \in Creations : Accept(e) BY <2>1 DEF RoomCreated
    <3>2. /\ RoomCreatedAccepted(room, e)
          /\ room'.max = e.max /\ room'.caps = e.caps
      BY <3>1, CreatedStep
    <3>3. IsFiniteSet(DOMAIN e.caps) BY DEF Creations, TeamLists
    <3>4. TotalCapacity(e.caps) >= e.max BY <3>2 DEF RoomCreatedAccepted
    <3>5. TotalCapacity(room'.caps) >= room'.max BY <3>2, <3>4
    <3> QED BY <3>2, <3>3, <3>5 DEF SeatsEnough
  <2>2. SameLimits => SeatsEnough' BY DEF SameLimits, SeatsEnough
  <2>3. CASE RoomPlayerJoined BY <2>0, <2>2, <2>3, JoinedStep DEF RoomPlayerJoined
  <2>4. CASE RoomPlayerLeft BY <2>0, <2>2, <2>4, LeftStep DEF RoomPlayerLeft
  <2>5. CASE RoomPlayerTeamChanged
    BY <2>0, <2>2, <2>5, TeamChangedStep DEF RoomPlayerTeamChanged
  <2>6. CASE SameRoster BY <2>2, <2>6 DEF SameRoster
  <2> QED BY <2>1, <2>3, <2>4, <2>5, <2>6, RosterSteps
<1>3. TypeOK /\ MembersFinite /\ SeatsEnough => SeatAvailable
  <2> SUFFICES ASSUME TypeOK, MembersFinite, SeatsEnough,
                      Cardinality(DOMAIN room.players) < room.max,
                      \A t \in DOMAIN room.caps : ~HasSeat(room, t)
               PROVE  FALSE
    BY DEF SeatAvailable
  <2>1. PICK S : S = DOMAIN room.players OBVIOUS
  <2>2. PICK kind : kind = [p \in S |-> room.players[p].team] OBVIOUS
  <2>3. PICK caps : caps = room.caps OBVIOUS
  <2>4. /\ room.max \in Nat /\ IsFiniteSet(S) /\ Cardinality(S) \in Nat
        /\ IsFiniteSet(DOMAIN caps) /\ \A t \in DOMAIN caps : caps[t] \in Nat
    <3>1. IsFiniteSet(S) BY <2>1 DEF MembersFinite
    <3>2. Cardinality(S) \in Nat BY <3>1, FS_CardinalityType
    <3> QED BY <2>3, <3>1, <3>2 DEF TypeOK, RoomShape, IsMap, Seats, SeatsEnough
  <2>5. PICK g, total : total = g[DOMAIN caps] /\ SumsUp(g, caps)
                        /\ TotalCapacity(caps) = total % CountRange
    BY <2>4, FoldedSum, Zenon DEF TotalCapacity
  <2>6. \A t \in DOMAIN caps : caps[t] <= Cardinality({p \in S : kind[p] = t})
    <3> SUFFICES ASSUME NEW t \in DOMAIN caps
                 PROVE  caps[t] <= Cardinality({p \in S : kind[p] = t})
      OBVIOUS
    <3>1. {p \in S : kind[p] = t} = TeamMembers(room, t) BY <2>1, <2>2 DEF TeamMembers
    <3>2. Cardinality(TeamMembers(room, t)) \in Nat BY TeamsFinite
    <3>3. ~(Cardinality(TeamMembers(room, t)) < caps[t]) BY <2>3 DEF HasSeat
    <3>4. caps[t] <= Cardinality(TeamMembers(room, t)) BY <2>4, <3>2, <3>3
    <3> QED BY <3>1, <3>4
  <2>7. total \in Nat /\ total <= Cardinality(S) BY <2>4, <2>5, <2>6, SumBounded
  <2>8. total % CountRange \in Nat /\ total % CountRange <= total BY <2>7
  <2>9. room.max <= total % CountRange
    <3>1. room.max # 0 BY <2>1, <2>4
    <3>2. room.max <= TotalCapacity(caps) BY <2>3, <3>1 DEF SeatsEnough
    <3> QED BY <2>5, <3>2
  <2> QED BY <2>1, <2>4, <2>7, <2>8, <2>9
<1> QED
  BY <1>1, <1>2, <1>3, TypeCorrect, MembersCorrect, PTL DEF Spec

-----------------------------------------------------------------------------
(* Modules, bindings and readiness.                                        *)

\* No two members ever share a module.
THEOREM ModulesCorrect == Spec => []ModulesUnique
<1>1. Init => ModulesUnique
  BY DEF Init, NewRoom, EmptyMap, ModulesUnique
<1>2. TypeOK /\ ModulesUnique /\ [Next]_vars => ModulesUnique'
  <2> SUFFICES ASSUME TypeOK, ModulesUnique, [Next]_vars PROVE ModulesUnique'
    OBVIOUS
  <2>0. IsRoom(room)
    BY DEF TypeOK, RoomShape
  <2>1. CASE RoomCreated
    BY <2>1, CreatedStep DEF RoomCreated, EmptyMap, ModulesUnique
  <2>2. CASE RoomPlayerJoined
    <3>1. PICK e \in Joins : Accept(e)
      BY <2>2 DEF RoomPlayerJoined
    <3>2. /\ JoinAccepted(room, e)
          /\ room'.players = Put(room.players, e.player,
                 [team |-> e.team, module |-> e.module, ready |-> FALSE])
      BY <2>0, <3>1, JoinedStep
    <3>3. /\ e.player \notin DOMAIN room.players
          /\ e.module # NoModule =>
                 \A p \in DOMAIN room.players : room.players[p].module # e.module
      BY <3>2 DEF JoinAccepted, Member, HasModule
    <3>4. /\ DOMAIN room'.players = DOMAIN room.players \cup {e.player}
          /\ room'.players[e.player].module = e.module
          /\ \A p \in DOMAIN room.players :
                 room'.players[p].module = room.players[p].module
      BY <3>2, <3>3 DEF Put
    <3> QED
      BY <3>3, <3>4 DEF ModulesUnique
  <2>3. CASE RoomPlayerLeft
    <3>1. PICK e \in Leaves : Accept(e)
      BY <2>3 DEF RoomPlayerLeft
    <3>2. room'.players = Drop(room.players, e.player)
      BY <2>0, <3>1, LeftStep
    <3> QED
      BY <3>2 DEF ModulesUnique, Drop
  <2>4. CASE RoomPlayerTeamChanged
    <3>1. PICK e \in TeamChanges : Accept(e)
      BY <2>4 DEF RoomPlayerTeamChanged
    <3>2. room'.players = [room.players EXCEPT ![e.player].team = e.team]
      BY <2>0, <3>1, TeamChangedStep
    <3>3. room.players \in [DOMAIN room.players -> PlayerState]
      BY DEF TypeOK, RoomShape, IsMap
    <3>4. /\ DOMAIN room'.players = DOMAIN room.players
          /\ \A p \in DOMAIN room.players :
                 room'.players[p].module = room.players[p].module
      BY <3>2, <3>3 DEF PlayerState
    <3> QED
      BY <3>4 DEF ModulesUnique
  <2>5. CASE SameRoster
    BY <2>5 DEF SameRoster, ModulesUnique
  <2> QED
    BY <2>1, <2>2, <2>3, <2>4, <2>5, RosterSteps
<1> QED
  BY <1>1, <1>2, TypeCorrect, PTL DEF Spec

SameBindings ==
    /\ DOMAIN room'.devices = DOMAIN room.devices
    /\ \A d \in DOMAIN room.devices : room'.devices[d].bound = room.devices[d].bound

\* Bindings change only when the room is created, or a device is registered,
\* bound or unbound.
LEMMA BindingSteps ==
    ASSUME TypeOK, [Next]_vars
    PROVE  RoomCreated \/ RoomDeviceRegistered \/ RoomDeviceBound
               \/ RoomDeviceUnbound \/ SameBindings
<1>0. IsRoom(room)
  BY DEF TypeOK, RoomShape
<1>1. CASE RoomPlayerJoined
  BY <1>0, <1>1, JoinedStep DEF RoomPlayerJoined, SameDevices, SameBindings
<1>2. CASE RoomPlayerLeft
  BY <1>0, <1>2, LeftStep DEF RoomPlayerLeft, SameDevices, SameBindings
<1>3. CASE RoomPlayerTeamChanged
  BY <1>0, <1>3, TeamChangedStep DEF RoomPlayerTeamChanged, SameDevices, SameBindings
<1>4. CASE RoomPlayerReadyChanged
  BY <1>0, <1>4, ReadyChangedStep DEF RoomPlayerReadyChanged, SameDevices, SameBindings
<1>5. CASE RoomDeviceHeartbeat
  <2>1. PICK e \in Heartbeats : Accept(e)
    BY <1>5 DEF RoomDeviceHeartbeat
  <2>2. room'.devices = [room.devices EXCEPT ![e.device].online = e.online]
    BY <1>0, <2>1, HeartbeatStep
  <2>3. room.devices \in [DOMAIN room.devices -> DeviceState]
    BY DEF TypeOK, RoomShape, IsMap
  <2> QED
    BY <2>2, <2>3 DEF SameBindings, DeviceState
<1>6. CASE RoomPositionUpdated
  BY <1>0, <1>6, PositionStep DEF RoomPositionUpdated, SameBindings
<1>7. CASE RoomStarted
  BY <1>0, <1>7, StartedStep DEF RoomStarted, SameDevices, SameBindings
<1>8. CASE RoomEnded
  BY <1>0, <1>8, EndedStep DEF RoomEnded, SameDevices, SameBindings
<1>9. CASE RoomClosed
  BY <1>0, <1>9, ClosedStep DEF RoomClosed, SameDevices, SameBindings
<1>10. CASE UNCHANGED vars
  BY <1>10 DEF vars, SameBindings
<1> QED
  BY <1>1, <1>2, <1>3, <1>4, <1>5, <1>6, <1>7, <1>8, <1>9, <1>10 DEF Next

\* No player, present or gone, is ever bound to two devices.
THEOREM BindingCorrect == Spec => []BindingExclusive
<1>1. Init => BindingExclusive
  BY DEF Init, NewRoom, EmptyMap, BindingExclusive
<1>2. TypeOK /\ BindingExclusive /\ [Next]_vars => BindingExclusive'
  <2> SUFFICES ASSUME TypeOK, BindingExclusive, [Next]_vars PROVE BindingExclusive'
    OBVIOUS
  <2>0. IsRoom(room) /\ room.devices \in [DOMAIN room.devices -> DeviceState]
    BY DEF TypeOK, RoomShape, IsMap
  <2>1. CASE RoomCreated
    BY <2>1, CreatedStep DEF RoomCreated, EmptyMap, BindingExclusive
  <2>2. CASE RoomDeviceRegistered
    <3>1. PICK e \in Registrations : Accept(e)
      BY <2>2 DEF RoomDeviceRegistered
    <3>2. room'.devices = Put(room.devices, e.device,
                              [online |-> TRUE, bound |-> Nobody])
      BY <2>0, <3>1, RegisteredStep
    <3>3. /\ DOMAIN room'.devices = DOMAIN room.devices \cup {e.device}
          /\ room'.devices[e.device].bound = Nobody
          /\ \A d \in DOMAIN room.devices :
                 d # e.device => room'.devices[d] = room.devices[d]
      BY <3>2 DEF Put
    <3> QED
      BY <3>3 DEF BindingExclusive
  <2>3. CASE RoomDeviceBound
    <3>1. PICK e \in Bindings : Accept(e)
      BY <2>3 DEF RoomDeviceBound
    <3>2. /\ DeviceBoundAccepted(room, e)
          /\ room'.devices = [room.devices EXCEPT
                                 ![e.device] = [online |-> TRUE, bound |-> e.player]]
      BY <2>0, <3>1, BoundStep
    <3>3. /\ DOMAIN room'.devices = DOMAIN room.devices
          /\ room'.devices[e.device].bound = e.player
          /\ \A d \in DOMAIN room.devices :
                 d # e.device => room'.devices[d] = room.devices[d]
      BY <2>0, <3>2 DEF DeviceBoundAccepted, Device
    <3>4. \A d \in DOMAIN room.devices : room.devices[d].bound # e.player
      BY <3>2 DEF DeviceBoundAccepted, HasBoundDevice
    <3> QED
      BY <3>3, <3>4 DEF BindingExclusive
  <2>4. CASE RoomDeviceUnbound
    <3>1. PICK e \in Unbindings : Accept(e)
      BY <2>4 DEF RoomDeviceUnbound
    <3>2. room'.devices = [room.devices EXCEPT ![e.device].bound = Nobody]
      BY <2>0, <3>1, UnboundStep
    <3>3. /\ DOMAIN room'.devices = DOMAIN room.devices
          /\ \A d \in DOMAIN room.devices :
                 \/ room'.devices[d].bound = Nobody
                 \/ room'.devices[d].bound = room.devices[d].bound
      BY <2>0, <3>2 DEF DeviceState
    <3> QED
      BY <3>3 DEF BindingExclusive
  <2>5. CASE SameBindings
    BY <2>5 DEF SameBindings, BindingExclusive
  <2> QED
    BY <2>1, <2>2, <2>3, <2>4, <2>5, BindingSteps
<1> QED
  BY <1>1, <1>2, TypeCorrect, PTL DEF Spec

\* The flag of a member is the member's own word since joining: the part of
\* the invariant that holds before a start.
ReadyIsConfirmed ==
    \A p \in DOMAIN room.players : room.players[p].ready => p \in confirmed

LEMMA ReadyCorrect == Spec => []ReadyIsConfirmed
<1>1. Init => ReadyIsConfirmed
  BY DEF Init, NewRoom, EmptyMap, ReadyIsConfirmed
<1>2. TypeOK /\ ReadyIsConfirmed /\ [Next]_vars => ReadyIsConfirmed'
  <2> SUFFICES ASSUME TypeOK, ReadyIsConfirmed, [Next]_vars PROVE ReadyIsConfirmed'
    OBVIOUS
  <2>0. IsRoom(room) /\ room.players \in [DOMAIN room.players -> PlayerState]
    BY DEF TypeOK, RoomShape, IsMap
  <2>1. CASE RoomCreated
    BY <2>1, CreatedStep DEF RoomCreated, EmptyMap, ReadyIsConfirmed
  <2>2. CASE RoomPlayerJoined
    <3>1. PICK e \in Joins : Accept(e) /\ confirmed' = confirmed \ {e.player}
      BY <2>2 DEF RoomPlayerJoined
    <3>2. room'.players = Put(room.players, e.player,
              [team |-> e.team, module |-> e.module, ready |-> FALSE])
      BY <2>0, <3>1, JoinedStep
    <3>3. /\ DOMAIN room'.players = DOMAIN room.players \cup {e.player}
          /\ room'.players[e.player].ready = FALSE
          /\ \A p \in DOMAIN room.players :
                 p # e.player => room'.players[p] = room.players[p]
      BY <3>2 DEF Put
    <3> QED
      BY <3>1, <3>3 DEF ReadyIsConfirmed
  <2>3. CASE RoomPlayerLeft
    <3>1. PICK e \in Leaves : Accept(e) /\ confirmed' = confirmed \ {e.player}
      BY <2>3 DEF RoomPlayerLeft
    <3>2. room'.players = Drop(room.players, e.player)
      BY <2>0, <3>1, LeftStep
    <3> QED
      BY <3>1, <3>2 DEF ReadyIsConfirmed, Drop
  <2>4. CASE RoomPlayerTeamChanged
    <3>1. PICK e \in TeamChanges : Accept(e) /\ UNCHANGED confirmed
      BY <2>4 DEF RoomPlayerTeamChanged
    <3>2. room'.players = [room.players EXCEPT ![e.player].team = e.team]
      BY <2>0, <3>1, TeamChangedStep
    <3>3. /\ DOMAIN room'.players = DOMAIN room.players
          /\ \A p \in DOMAIN room.players :
                 room'.players[p].ready = room.players[p].ready
      BY <2>0, <3>2 DEF PlayerState
    <3> QED
      BY <3>1, <3>3 DEF ReadyIsConfirmed
  <2>5. CASE RoomPlayerReadyChanged
    <3>1. PICK e \in ReadyChanges :
              /\ Accept(e)
              /\ confirmed' = IF e.ready THEN confirmed \cup {e.player}
                              ELSE confirmed \ {e.player}
      BY <2>5 DEF RoomPlayerReadyChanged
    <3>2. /\ e.player \in DOMAIN room.players
          /\ room'.players = [room.players EXCEPT ![e.player].ready = e.ready]
      BY <2>0, <3>1, ReadyChangedStep DEF ReadyChangedAccepted, Member
    <3>3. /\ DOMAIN room'.players = DOMAIN room.players
          /\ room'.players[e.player].ready = e.ready
          /\ \A p \in DOMAIN room.players :
                 p # e.player => room'.players[p] = room.players[p]
      BY <2>0, <3>2 DEF PlayerState
    <3> QED
      BY <3>1, <3>3 DEF ReadyIsConfirmed
  <2>6. CASE room'.players = room.players /\ confirmed' = confirmed
    BY <2>6 DEF ReadyIsConfirmed
  <2>7. CASE RoomDeviceRegistered \/ RoomDeviceHeartbeat \/ RoomDeviceBound
                \/ RoomDeviceUnbound \/ RoomPositionUpdated
    <3>1. room'.players = room.players /\ confirmed' = confirmed
      BY <2>0, <2>7, RegisteredStep, HeartbeatStep, BoundStep, UnboundStep, PositionStep
         DEF RoomDeviceRegistered, RoomDeviceHeartbeat, RoomDeviceBound,
             RoomDeviceUnbound, RoomPositionUpdated
    <3> QED
      BY <2>6, <3>1
  <2>8. CASE RoomStarted \/ RoomEnded \/ RoomClosed
    <3>1. room'.players = room.players /\ confirmed' = confirmed
      BY <2>0, <2>8, StartedStep, EndedStep, ClosedStep
         DEF RoomStarted, RoomEnded, RoomClosed
    <3> QED
      BY <2>6, <3>1
  <2>9. CASE UNCHANGED vars
    BY <2>6, <2>9 DEF vars
  <2> QED
    BY <2>1, <2>2, <2>3, <2>4, <2>5, <2>7, <2>8, <2>9 DEF Next
<1> QED
  BY <1>1, <1>2, TypeCorrect, PTL DEF Spec

\* The phase becomes active only by a start, and ended only from active.
LEMMA StartingSteps ==
    ASSUME TypeOK, [Next]_vars, room.phase \in {"none", "open", "closed"},
           room'.phase \in {"active", "ended"}
    PROVE  RoomStarted
<1>0. IsRoom(room)
  BY DEF TypeOK, RoomShape
<1>1. CASE RoomCreated
  BY <1>1, CreatedStep DEF RoomCreated
<1>2. CASE RoomPlayerJoined \/ RoomPlayerLeft \/ RoomPlayerTeamChanged
              \/ RoomPlayerReadyChanged
  BY <1>0, <1>2, JoinedStep, LeftStep, TeamChangedStep, ReadyChangedStep
     DEF RoomPlayerJoined, RoomPlayerLeft, RoomPlayerTeamChanged,
         RoomPlayerReadyChanged, SamePhase
<1>3. CASE RoomDeviceRegistered \/ RoomDeviceHeartbeat \/ RoomDeviceBound
              \/ RoomDeviceUnbound \/ RoomPositionUpdated
  BY <1>0, <1>3, RegisteredStep, HeartbeatStep, BoundStep, UnboundStep, PositionStep
     DEF RoomDeviceRegistered, RoomDeviceHeartbeat, RoomDeviceBound,
         RoomDeviceUnbound, RoomPositionUpdated, SamePhase
<1>4. CASE RoomEnded
  BY <1>0, <1>4, EndedStep DEF RoomEnded, RoomEndedAccepted
<1>5. CASE RoomClosed
  BY <1>0, <1>5, ClosedStep DEF RoomClosed
<1>6. CASE UNCHANGED vars
  BY <1>6 DEF vars
<1> QED
  BY <1>1, <1>2, <1>3, <1>4, <1>5, <1>6 DEF Next

\* A started room has a battle and members, each of whom said ready after
\* joining.
THEOREM StartCorrect == Spec => []StartedMeansConfirmed
<1>1. Init => StartedMeansConfirmed
  BY DEF Init, NewRoom, StartedMeansConfirmed
<1>2. TypeOK /\ ReadyIsConfirmed /\ StartedMeansConfirmed /\ [Next]_vars
        => StartedMeansConfirmed'
  <2> SUFFICES ASSUME TypeOK, ReadyIsConfirmed, StartedMeansConfirmed, [Next]_vars,
                      room'.phase \in {"active", "ended"}
               PROVE  /\ room'.battle \in Battles
                      /\ DOMAIN room'.players # {}
                      /\ DOMAIN room'.players \subseteq confirmed'
    BY DEF StartedMeansConfirmed
  <2>0. IsRoom(room) /\ room.phase \in RoomPhases
    BY DEF TypeOK, RoomShape
  <2>1. CASE room.phase \in {"active", "ended"}
    BY <2>1, LateSteps DEF StartedMeansConfirmed, Late
  <2>2. CASE room.phase \in {"none", "open", "closed"}
    <3>1. RoomStarted
      BY <2>2, StartingSteps
    <3>2. PICK e \in Starts : Accept(e) /\ UNCHANGED confirmed
      BY <3>1 DEF RoomStarted
    <3>3. /\ RoomStartedAccepted(room, e)
          /\ room'.players = room.players /\ room'.battle = e.battle
      BY <2>0, <3>2, StartedStep
    <3> QED
      BY <3>2, <3>3 DEF RoomStartedAccepted, ReadyIsConfirmed, Starts
  <2> QED
    BY <2>0, <2>1, <2>2 DEF RoomPhases
<1> QED
  BY <1>1, <1>2, TypeCorrect, ReadyCorrect, PTL DEF Spec

=============================================================================
