---------------------------- MODULE LiveServerProofs ----------------------------
(***************************************************************************)
(* What LiveServer promises a page, for any number of threads, players and *)
(* commands: statuses of one player made from two runtimes never come out  *)
(* of order, and the last of them is right.                                *)
(*                                                                         *)
(* The invariant Ordered says what the two mutexes, taken in opposite      *)
(* orders, leave possible: a status on its way from the room and statuses  *)
(* on their way from the battle are never of the same player.  Tracked     *)
(* says of each player what will make the page right if it is not.         *)
(***************************************************************************)
EXTENDS LiveServer, DataLemmas

InRoom(t) == threads[t].at \in {"room", "sending"}
InBattle(t) == threads[t].at \in {"find", "battle"}

\* A room that may be looked at: its battle is the one that is watched, and it
\* has none as long as it is open.
Visible(r) ==
    /\ RoomShape(r) /\ r.phase # "none" /\ r.battle \in {NoBattle, TheBattle}
    /\ Open(r) => r.battle = NoBattle

Snapshots ==
    /\ Visible(room)
    /\ battle = [phase |-> battle.phase, players |-> battle.players, score |-> battle.score]
    /\ roomVersion \in Nat /\ battleVersion \in Nat

\* A thread holds the mutex of the runtime it is in; what it publishes is the
\* snapshot of its own event, which is still the latest.
Holds(t) ==
    /\ threads[t].at \in {"idle", "room", "sending", "find", "battle"}
    /\ threads[t].at = "idle" => threads[t] = Idle
    /\ InRoom(t) <=> roomMutex = t
    /\ InBattle(t) <=> apMutex = t
    /\ threads[t].at = "room" => threads[t] = RoomPublication(room, roomVersion, threads[t].todo)
    /\ threads[t].at = "sending" =>
           threads[t] = [at |-> "sending", room |-> room, version |-> roomVersion,
                         todo |-> threads[t].todo, message |-> threads[t].message]
    /\ InRoom(t) => Listed(threads[t].todo)
    /\ threads[t].at = "find" =>
           threads[t] = [at |-> "find", battle |-> battle, version |-> battleVersion,
                         affected |-> threads[t].affected]
    /\ threads[t].at = "battle" =>
           threads[t] = [at |-> "battle", todo |-> threads[t].todo] /\ Listed(threads[t].todo)

Locks == DOMAIN threads = Threads /\ \A t \in Threads : Holds(t)

\* Only a member of a room with a battle has a status made from the battle.
Fighting(p) == room.battle # NoBattle /\ Member(room, p)

IsMessage(m) ==
    m = Message(m.player, m.status, m.rv, m.bv) /\ m.rv \in 0..roomVersion /\ m.bv \in 0..battleVersion

OnScreen ==
    /\ DOMAIN shown = Players
    /\ \A p \in Players :
        IsMessage(shown[p]) /\ shown[p].player = p /\ (shown[p].bv # 0 => Fighting(p))

\* The status a room thread is about to send.
RoomSends ==
    \A t \in Threads : threads[t].at = "sending" =>
        LET m == threads[t].message
        IN  /\ IsMessage(m) /\ m.rv = roomVersion
            /\ m.bv # 0 => Fighting(m.player)
            /\ m.player \in Players => shown[m.player].bv <= m.bv
            /\ \A u \in Threads : threads[u].at = "battle" =>
                   \A n \in Range(threads[u].todo) : n.player # m.player

\* The statuses a battle thread has still to send.
BattleSends ==
    \A u \in Threads : threads[u].at = "battle" =>
        /\ \A n \in Range(threads[u].todo) :
            /\ IsMessage(n) /\ n.bv = battleVersion /\ Fighting(n.player)
            /\ n.player \in Players => shown[n.player].rv <= n.rv
        /\ \A m, n \in Range(threads[u].todo) : m.player = n.player => m = n

Ordered == Snapshots /\ Locks /\ OnScreen /\ RoomSends /\ BattleSends

\* What a query would answer.
Fresh(p) ==
    IF ~Member(room, p) THEN Null
    ELSE Status(room, p, IF room.battle = NoBattle THEN NoFight ELSE battle)

\* A status of p will be made from the snapshots.
ToBeMade(p) ==
    \/ \E t \in Threads : InRoom(t) /\ p \in Range(threads[t].todo)
    \/ Fighting(p) /\ \E t \in Threads : threads[t].at = "find" /\ p \in threads[t].affected

\* The statuses a thread has made and not sent.
Carried(t) ==
    CASE threads[t].at = "sending" -> {threads[t].message}
      [] threads[t].at = "battle" -> Range(threads[t].todo)
      [] OTHER -> {}

\* The page shows p as a query would, or is going to.
UpToDate(p) ==
    /\ \A t \in Threads : \A m \in Carried(t) : m.player = p => m.status = Fresh(p)
    /\ (\A t \in Threads : \A m \in Carried(t) : m.player # p) => shown[p].status = Fresh(p)

Tracked == \A p \in Players : ToBeMade(p) \/ UpToDate(p)

-----------------------------------------------------------------------------
(* What the reducers do to the players a message names, and to the others. *)

\* A status of p made from s is the one made from r.
SameFor(p, r, s) ==
    \/ ~Member(r, p) /\ ~Member(s, p)
    \/ /\ Member(r, p) /\ Member(s, p) /\ s.players[p] = r.players[p]
       /\ s.phase = r.phase /\ s.battle = r.battle
       /\ BoundDevices(s, p) = BoundDevices(r, p)
       /\ \A d \in BoundDevices(r, p) : s.devices[d].online = r.devices[d].online
       /\ p \in DOMAIN s.positions <=> p \in DOMAIN r.positions
       /\ p \in DOMAIN r.positions => s.positions[p] = r.positions[p]

LEMMA SameStatus ==
    ASSUME NEW p, NEW r, NEW s, SameFor(p, r, s), NEW b
    PROVE  /\ Member(s, p) <=> Member(r, p)
           /\ Member(r, p) => s.battle = r.battle /\ Status(s, p, b) = Status(r, p, b)
<1>1. CASE ~Member(r, p) BY <1>1 DEF SameFor
<1>2. CASE Member(r, p)
  <2>1. /\ Member(s, p) /\ s.players[p] = r.players[p]
        /\ s.phase = r.phase /\ s.battle = r.battle
        /\ BoundDevices(s, p) = BoundDevices(r, p)
        /\ \A d \in BoundDevices(r, p) : s.devices[d].online = r.devices[d].online
        /\ p \in DOMAIN s.positions <=> p \in DOMAIN r.positions
        /\ p \in DOMAIN r.positions => s.positions[p] = r.positions[p]
    BY <1>2 DEF SameFor
  <2>2. PICK device : device = CHOOSE d \in BoundDevices(r, p) : TRUE OBVIOUS
  <2>3. device = CHOOSE d \in BoundDevices(s, p) : TRUE BY <2>1, <2>2, Zenon
  <2>4. BoundDevices(r, p) # {} => device \in BoundDevices(r, p) BY <2>2, Zenon
  <2>5. BoundDevices(r, p) # {} => s.devices[device].online = r.devices[device].online
    BY <2>1, <2>4
  <2>6. Status(s, p, b) = Status(r, p, b)
    BY <2>1, <2>2, <2>3, <2>5 DEF Status
  <2> QED BY <1>2, <2>1, <2>6
<1> QED BY <1>1, <1>2

\* What one event does to a room: it goes on having the battle it has and
\* then the members, and who is not affected looks as before.
RoomStep(r, e, s) ==
    /\ Visible(s)
    /\ r.battle # NoBattle => s.battle = r.battle /\ DOMAIN s.players = DOMAIN r.players
    /\ IsFiniteSet(RoomAffected(e, s))
    /\ e.type # "room_device_unbound" =>
           \A p \in Players : p \notin RoomAffected(e, s) => SameFor(p, r, s)

LEMMA NamedPlayer ==
    ASSUME NEW e \in RoomCommands, NamesOf(e.type) = {"player"}
    PROVE  \A s : e.player \in RoomAffected(e, s)
<1>1. "player" \in {"player"} \cap DOMAIN e BY LiveAssumption DEF LiveAssumption
<1>2. e.player \in Named(e, {"player"}) BY <1>1 DEF Named
<1> QED BY <1>2 DEF RoomAffected

LEMMA AffectedFinite ==
    ASSUME NEW e, NEW s, RoomShape(s) PROVE IsFiniteSet(RoomAffected(e, s))
<1>1. IsFiniteSet({e["player"]}) /\ IsFiniteSet({}) BY FS_Singleton, FS_EmptySet
<1>2. Named(e, {"player"}) = {} \/ Named(e, {"player"}) = {e["player"]}
  BY DEF Named
<1>3. IsFiniteSet(Named(e, {"player"})) BY <1>1, <1>2
<1>4. \A d : IsFiniteSet({s.devices[d].bound} \ {Nobody})
  <2> TAKE d
  <2>1. IsFiniteSet({s.devices[d].bound}) BY FS_Singleton
  <2> QED BY <2>1, FS_Subset
<1>5. IsFiniteSet(DOMAIN s.players) BY DEF RoomShape
<1> DEFINE A == IF e.type \in DeviceEvents /\ Device(s, e.device)
                THEN {s.devices[e.device].bound} \ {Nobody} ELSE {}
           B == IF e.type \in {"room_started", "room_ended", "room_closed"}
                THEN DOMAIN s.players ELSE {}
<1>6. IsFiniteSet(A) /\ IsFiniteSet(B) BY <1>1, <1>4, <1>5
<1>7. IsFiniteSet(Named(e, {"player"}) \cup A) BY <1>3, <1>6, FS_Union
<1>8. IsFiniteSet((Named(e, {"player"}) \cup A) \cup B)
  <2> HIDE DEF A, B
  <2> QED BY <1>6, <1>7, FS_Union
<1>9. RoomAffected(e, s) = (Named(e, {"player"}) \cup A) \cup B BY DEF RoomAffected
<1> QED BY <1>8, <1>9

LEMMA RoomSteps ==
    ASSUME NEW r, Visible(r), NEW e \in RoomCommands, RoomAccepts(r, e),
           NEW s, s = RoomApply(r, e)
    PROVE  RoomStep(r, e, s)
<1> USE DEF Visible
<1>1. /\ r = [phase |-> r.phase, max |-> r.max, caps |-> r.caps, players |-> r.players,
              devices |-> r.devices, positions |-> r.positions, battle |-> r.battle]
      /\ IsFiniteSet(DOMAIN r.players) /\ r.phase # "none"
      /\ \A d \in DOMAIN r.devices :
            r.devices[d] = [online |-> r.devices[d].online, bound |-> r.devices[d].bound]
  BY DEF RoomShape
<1>2. r.battle # NoBattle => ~Open(r) OBVIOUS
<1>3. SUFFICES /\ Visible(s)
               /\ r.battle # NoBattle => s.battle = r.battle /\ DOMAIN s.players = DOMAIN r.players
               /\ e.type # "room_device_unbound" =>
                      \A p \in Players : p \notin RoomAffected(e, s) => SameFor(p, r, s)
  BY AffectedFinite DEF RoomStep
<1>4. CASE e.type = "room_created"
  BY <1>1, <1>4 DEF RoomAccepts, RoomCreatedAccepted
<1>5. CASE e.type = "room_player_joined"
  <2>1. JoinAccepted(r, e) /\ s = AfterJoined(r, e) BY <1>5 DEF RoomAccepts, RoomApply
  <2>2. Open(r) BY <2>1 DEF JoinAccepted
  <2>0. PICK fields :
            s = [r EXCEPT !.players = Put(r.players, e.player, fields)]
    BY <2>1 DEF AfterJoined
  <2>3. /\ s = [phase |-> r.phase, max |-> r.max, caps |-> r.caps, players |-> s.players,
                devices |-> r.devices, positions |-> r.positions, battle |-> r.battle]
        /\ DOMAIN s.players = DOMAIN r.players \cup {e.player}
        /\ \A p \in DOMAIN r.players \ {e.player} : s.players[p] = r.players[p]
    <3>1. s.players = Put(r.players, e.player, fields) BY <1>1, <2>0
    <3> QED BY <1>1, <2>0, <3>1 DEF Put
  <2>4. IsFiniteSet(DOMAIN s.players) BY <1>1, <2>3, FS_AddElement
  <2>5. e.player \in RoomAffected(e, s) BY <1>5, NamedPlayer DEF NamesOf
  <2>6. \A p \in Players : p \notin RoomAffected(e, s) => SameFor(p, r, s)
    BY <2>3, <2>5 DEF SameFor, Member, BoundDevices
  <2>7. Visible(s) BY <1>1, <2>2, <2>3, <2>4 DEF RoomShape, Open
  <2> QED BY <1>2, <2>2, <2>6, <2>7
<1>6. CASE e.type = "room_player_left"
  <2>1. PlayerLeftAccepted(r, e) /\ s = AfterLeft(r, e) BY <1>6 DEF RoomAccepts, RoomApply
  <2>2. Open(r) BY <2>1 DEF PlayerLeftAccepted
  <2>3. /\ s = [phase |-> r.phase, max |-> r.max, caps |-> r.caps, players |-> s.players,
                devices |-> r.devices, positions |-> r.positions, battle |-> r.battle]
        /\ DOMAIN s.players = DOMAIN r.players \ {e.player}
        /\ \A p \in DOMAIN r.players \ {e.player} : s.players[p] = r.players[p]
    BY <1>1, <2>1 DEF AfterLeft, Drop
  <2>4. IsFiniteSet(DOMAIN s.players) BY <1>1, <2>3, FS_Subset
  <2>5. e.player \in RoomAffected(e, s) BY <1>6, NamedPlayer DEF NamesOf
  <2>6. \A p \in Players : p \notin RoomAffected(e, s) => SameFor(p, r, s)
    BY <2>3, <2>5 DEF SameFor, Member, BoundDevices
  <2>7. Visible(s) BY <1>1, <2>2, <2>3, <2>4 DEF RoomShape, Open
  <2> QED BY <1>2, <2>2, <2>6, <2>7
<1>7. CASE e.type \in {"room_player_team_changed", "room_player_ready_changed"}
  <2>1. \/ TeamChangedAccepted(r, e) /\ s = AfterTeamChanged(r, e)
        \/ ReadyChangedAccepted(r, e) /\ s = AfterReadyChanged(r, e)
    BY <1>7 DEF RoomAccepts, RoomApply
  <2>2. Open(r) BY <2>1 DEF TeamChangedAccepted, ReadyChangedAccepted
  <2>3. /\ s = [phase |-> r.phase, max |-> r.max, caps |-> r.caps, players |-> s.players,
                devices |-> r.devices, positions |-> r.positions, battle |-> r.battle]
        /\ DOMAIN s.players = DOMAIN r.players
        /\ \A p \in DOMAIN r.players \ {e.player} : s.players[p] = r.players[p]
    BY <1>1, <2>1 DEF AfterTeamChanged, AfterReadyChanged
  <2>5. e.player \in RoomAffected(e, s) BY <1>7, NamedPlayer DEF NamesOf
  <2>6. \A p \in Players : p \notin RoomAffected(e, s) => SameFor(p, r, s)
    BY <2>3, <2>5 DEF SameFor, Member, BoundDevices
  <2>7. Visible(s) BY <1>1, <2>2, <2>3 DEF RoomShape, Open
  <2> QED BY <1>2, <2>2, <2>6, <2>7
<1>8. CASE e.type = "room_device_registered"
  <2>1. DeviceRegisteredAccepted(r, e) /\ s = AfterDeviceRegistered(r, e)
    BY <1>8 DEF RoomAccepts, RoomApply
  <2>2. Open(r) /\ e.device \notin DOMAIN r.devices
    BY <2>1 DEF DeviceRegisteredAccepted, Device
  <2>3. /\ s = [phase |-> r.phase, max |-> r.max, caps |-> r.caps, players |-> r.players,
                devices |-> s.devices, positions |-> r.positions, battle |-> r.battle]
        /\ DOMAIN s.devices = DOMAIN r.devices \cup {e.device}
        /\ s.devices[e.device] = [online |-> TRUE, bound |-> Nobody]
        /\ \A d \in DOMAIN r.devices : s.devices[d] = r.devices[d]
    BY <1>1, <2>1, <2>2 DEF AfterDeviceRegistered, Put
  <2>4. \A p \in Players : BoundDevices(s, p) = BoundDevices(r, p)
    BY <2>3, LiveAssumption DEF LiveAssumption, BoundDevices
  <2>6. \A p \in Players : SameFor(p, r, s)
    BY <2>3, <2>4 DEF SameFor, Member, BoundDevices
  <2>7. Visible(s) BY <1>1, <2>2, <2>3 DEF RoomShape, Open
  <2> QED BY <1>2, <2>2, <2>6, <2>7
<1>9. CASE e.type = "room_device_heartbeat_updated"
  <2>1. HeartbeatAccepted(r, e) /\ s = AfterHeartbeat(r, e)
    BY <1>9 DEF RoomAccepts, RoomApply
  <2>2. e.device \in DOMAIN r.devices BY <2>1 DEF HeartbeatAccepted, Device
  <2>3. /\ s = [phase |-> r.phase, max |-> r.max, caps |-> r.caps, players |-> r.players,
                devices |-> s.devices, positions |-> r.positions, battle |-> r.battle]
        /\ DOMAIN s.devices = DOMAIN r.devices
        /\ s.devices[e.device] = [r.devices[e.device] EXCEPT !.online = e.online]
        /\ \A d \in DOMAIN r.devices \ {e.device} : s.devices[d] = r.devices[d]
    BY <1>1, <2>1, <2>2 DEF AfterHeartbeat
  <2>4. /\ s.devices[e.device] = [online |-> e.online, bound |-> r.devices[e.device].bound]
        /\ s.devices[e.device].bound = r.devices[e.device].bound
    BY <1>1, <2>2, <2>3
  <2>5. \A p \in Players : p \notin RoomAffected(e, s) => r.devices[e.device].bound # p
    BY <1>9, <2>2, <2>3, <2>4, LiveAssumption
    DEF LiveAssumption, RoomAffected, DeviceEvents, Device
  <2>6. \A p : BoundDevices(s, p) = BoundDevices(r, p)
    BY <2>2, <2>3, <2>4 DEF BoundDevices
  <2>8. \A p \in Players : p \notin RoomAffected(e, s) => SameFor(p, r, s)
    BY <2>3, <2>5, <2>6 DEF SameFor, Member, BoundDevices
  <2>9. Visible(s) BY <1>1, <2>3, <2>4 DEF RoomShape, Open
  <2> QED BY <2>3, <2>8, <2>9
<1>10. CASE e.type = "room_device_bound"
  <2>1. DeviceBoundAccepted(r, e) /\ s = AfterDeviceBound(r, e)
    BY <1>10 DEF RoomAccepts, RoomApply
  <2>2. Open(r) /\ e.device \in DOMAIN r.devices /\ r.devices[e.device].bound = Nobody
    BY <2>1 DEF DeviceBoundAccepted, Device
  <2>3. /\ s = [phase |-> r.phase, max |-> r.max, caps |-> r.caps, players |-> r.players,
                devices |-> s.devices, positions |-> r.positions, battle |-> r.battle]
        /\ DOMAIN s.devices = DOMAIN r.devices
        /\ s.devices[e.device] = [online |-> TRUE, bound |-> e.player]
        /\ \A d \in DOMAIN r.devices \ {e.device} : s.devices[d] = r.devices[d]
    BY <1>1, <2>1, <2>2 DEF AfterDeviceBound
  <2>4. e.player \in RoomAffected(e, s) BY <1>10, NamedPlayer DEF NamesOf
  <2>5. \A p \in Players : p # e.player => BoundDevices(s, p) = BoundDevices(r, p)
    BY <2>2, <2>3, LiveAssumption DEF LiveAssumption, BoundDevices
  <2>6. \A p \in Players : p \notin RoomAffected(e, s) => SameFor(p, r, s)
    <3> SUFFICES ASSUME NEW p \in Players, p \notin RoomAffected(e, s) PROVE SameFor(p, r, s)
      OBVIOUS
    <3>1. p # e.player /\ BoundDevices(s, p) = BoundDevices(r, p) BY <2>4, <2>5
    <3>2. e.device \notin BoundDevices(r, p)
      BY <2>2, LiveAssumption DEF LiveAssumption, BoundDevices
    <3>3. \A d \in BoundDevices(r, p) : s.devices[d] = r.devices[d]
      BY <2>3, <3>2 DEF BoundDevices
    <3> QED BY <2>3, <3>1, <3>3 DEF SameFor, Member
  <2>7. Visible(s) BY <1>1, <2>2, <2>3 DEF RoomShape, Open
  <2> QED BY <1>2, <2>2, <2>6, <2>7
<1>11. CASE e.type = "room_device_unbound"
  <2>1. DeviceUnboundAccepted(r, e) /\ s = AfterDeviceUnbound(r, e)
    BY <1>11 DEF RoomAccepts, RoomApply
  <2>2. Open(r) /\ e.device \in DOMAIN r.devices BY <2>1 DEF DeviceUnboundAccepted, Device
  <2>3. /\ s = [phase |-> r.phase, max |-> r.max, caps |-> r.caps, players |-> r.players,
                devices |-> s.devices, positions |-> r.positions, battle |-> r.battle]
        /\ DOMAIN s.devices = DOMAIN r.devices
        /\ s.devices[e.device] = [r.devices[e.device] EXCEPT !.bound = Nobody]
        /\ \A d \in DOMAIN r.devices \ {e.device} : s.devices[d] = r.devices[d]
    BY <1>1, <2>1, <2>2 DEF AfterDeviceUnbound
  <2>4. s.devices[e.device] = [online |-> r.devices[e.device].online, bound |-> Nobody]
    BY <1>1, <2>2, <2>3
  <2>7. Visible(s) BY <1>1, <2>2, <2>3, <2>4 DEF RoomShape, Open
  <2> QED BY <1>2, <1>11, <2>2, <2>7
<1>12. CASE e.type = "room_player_position_updated"
  <2>1. PositionUpdatedAccepted(r, e) /\ s = AfterPositionUpdated(r, e)
    BY <1>12 DEF RoomAccepts, RoomApply
  <2>3. /\ s = [phase |-> r.phase, max |-> r.max, caps |-> r.caps, players |-> r.players,
                devices |-> r.devices, positions |-> s.positions, battle |-> r.battle]
        /\ DOMAIN s.positions = DOMAIN r.positions \cup {e.player}
        /\ \A p \in DOMAIN r.positions \ {e.player} : s.positions[p] = r.positions[p]
    BY <1>1, <2>1 DEF AfterPositionUpdated, Put
  <2>4. e.player \in RoomAffected(e, s) BY <1>12, NamedPlayer DEF NamesOf
  <2>6. \A p \in Players : p \notin RoomAffected(e, s) => SameFor(p, r, s)
    BY <2>3, <2>4 DEF SameFor, Member, BoundDevices
  <2>7. Visible(s) BY <1>1, <2>3 DEF RoomShape, Open
  <2> QED BY <2>3, <2>6, <2>7
<1>13. CASE e.type \in {"room_started", "room_ended", "room_closed"}
  <2>1. \/ RoomStartedAccepted(r, e) /\ s = AfterRoomStarted(r, e) /\ e.type = "room_started"
        \/ RoomEndedAccepted(r, e) /\ s = AfterRoomEnded(r, e)
        \/ RoomClosedAccepted(r, e) /\ s = AfterRoomClosed(r, e)
    BY <1>13 DEF RoomAccepts, RoomApply
  <2>2. /\ s = [phase |-> s.phase, max |-> r.max, caps |-> r.caps, players |-> r.players,
                devices |-> r.devices, positions |-> r.positions, battle |-> s.battle]
        /\ s.phase \in {"active", "ended", "closed"}
        /\ s.battle = r.battle \/ (Open(r) /\ s.battle = TheBattle)
    BY <1>1, <2>1, LiveAssumption
    DEF LiveAssumption, AfterRoomStarted, AfterRoomEnded, AfterRoomClosed, RoomStartedAccepted
  <2>3. DOMAIN r.players \subseteq RoomAffected(e, s) BY <1>13, <2>2 DEF RoomAffected
  <2>4. \A p \in Players : p \notin RoomAffected(e, s) => SameFor(p, r, s)
    BY <2>2, <2>3 DEF SameFor, Member
  <2>7. Visible(s) BY <1>1, <2>2 DEF RoomShape, Open
  <2> QED BY <1>2, <2>2, <2>4, <2>7
<1> QED
  BY <1>4, <1>5, <1>6, <1>7, <1>8, <1>9, <1>10, <1>11, <1>12, <1>13 DEF RoomAccepts

\* What one event does to a battle: who is not affected looks as before.
BattleStep(b, e, s) ==
    /\ s = [phase |-> s.phase, players |-> s.players, score |-> s.score]
    /\ \A p : p \notin BattleAffected(e, s) =>
        /\ p \in DOMAIN s.players <=> p \in DOMAIN b.players
        /\ p \in DOMAIN b.players => s.players[p] = b.players[p]

LEMMA BattleSteps ==
    ASSUME NEW b, b = [phase |-> b.phase, players |-> b.players, score |-> b.score],
           NEW e \in BattleCommands, Rules!BattleAccepts(b, e),
           NEW s, s = Rules!BattleApply(b, e)
    PROVE  BattleStep(b, e, s)
<1>1. ASSUME NEW n \in NamesOf(e.type), n \in {"player", "attacker", "target"}
      PROVE  e[n] \in BattleAffected(e, s)
  <2>1. n \in DOMAIN e BY <1>1, LiveAssumption DEF LiveAssumption
  <2>2. e[n] \in Named(e, {"player", "attacker", "target"}) BY <1>1, <2>1 DEF Named
  <2> QED BY <2>2 DEF BattleAffected
<1>2. CASE e.type = "player_joined"
  <2>1. s = Rules!AfterPlayerJoined(b, e) BY <1>2 DEF Rules!BattleApply
  <2>2. e.player \in BattleAffected(e, s) BY <1>1, <1>2 DEF NamesOf
  <2>3. PICK new, score :
            s = [b EXCEPT !.players = Rules!Put(b.players, e.player, new), !.score = score]
    BY <2>1 DEF Rules!AfterPlayerJoined
  <2>4. /\ s = [phase |-> b.phase, players |-> s.players, score |-> s.score]
        /\ s.players = Rules!Put(b.players, e.player, new)
    BY <2>3
  <2> QED BY <2>2, <2>4 DEF BattleStep, Rules!Put
<1>3. CASE e.type \in {"shot", "player_state"}
  <2>1. s = Rules!AfterShot(b, e) \/ s = Rules!AfterPlayerState(b, e)
    BY <1>3 DEF Rules!BattleApply
  <2>2. e.player \in BattleAffected(e, s) BY <1>1, <1>3 DEF NamesOf
  <2>3. /\ s = [phase |-> b.phase, players |-> s.players, score |-> b.score]
        /\ DOMAIN s.players = DOMAIN b.players
        /\ \A p \in DOMAIN b.players \ {e.player} : s.players[p] = b.players[p]
    BY <2>1 DEF Rules!AfterShot, Rules!AfterPlayerState
  <2> QED BY <2>2, <2>3 DEF BattleStep
<1>4. CASE e.type = "hit"
  <2>1. s = Rules!AfterHit(b, e) BY <1>4 DEF Rules!BattleApply
  <2>2. e.attacker \in BattleAffected(e, s) /\ e.target \in BattleAffected(e, s)
    BY <1>1, <1>4 DEF NamesOf
  <2> DEFINE left == Rules!NotBelowZero(b.players[e.target].health - e.damage)
             up == left > 0
             hurt == [b.players EXCEPT ![e.target].health = left, ![e.target].alive = up]
  <2>3. /\ s.players = [hurt EXCEPT ![e.attacker].hits = @ + 1]
        /\ s = [phase |-> b.phase, players |-> s.players, score |-> s.score]
    BY <2>1 DEF Rules!AfterHit
  <2> HIDE DEF left, up
  <2>4. /\ s = [phase |-> b.phase, players |-> s.players, score |-> s.score]
        /\ DOMAIN s.players = DOMAIN b.players
        /\ \A p \in DOMAIN b.players \ {e.attacker, e.target} : s.players[p] = b.players[p]
    BY <2>3
  <2> QED BY <2>2, <2>4 DEF BattleStep
<1>5. CASE e.type \in {"battle_started", "battle_ended", "battle_paused", "battle_resumed"}
  <2>1. \E phase : s = Rules!AfterPhase(b, phase) BY <1>5 DEF Rules!BattleApply
  <2>2. s = [phase |-> s.phase, players |-> b.players, score |-> b.score]
    BY <2>1 DEF Rules!AfterPhase
  <2> QED BY <2>2 DEF BattleStep
<1> QED BY <1>2, <1>3, <1>4, <1>5 DEF Rules!BattleAccepts

LEMMA SameFight ==
    ASSUME NEW b, NEW e, NEW s, BattleStep(b, e, s), NEW p, p \notin BattleAffected(e, s), NEW r
    PROVE  Status(r, p, s) = Status(r, p, b)
<1>1. /\ p \in DOMAIN s.players <=> p \in DOMAIN b.players
      /\ p \in DOMAIN b.players => s.players[p] = b.players[p]
  BY DEF BattleStep
<1>2. p \in DOMAIN b.players =>
        s.players[p].alive = b.players[p].alive /\ s.players[p].health = b.players[p].health
  BY <1>1
<1> QED BY <1>1, <1>2 DEF Status

-----------------------------------------------------------------------------
(* The invariant, one lemma per action.                                    *)

\* What only one thread's step changes.
Step(t) ==
    /\ DOMAIN threads' = Threads
    /\ \A u \in Threads : u # t => threads'[u] = threads[u]

\* No status of any player is replaced by one made from older snapshots.
Forward == \A p \in Players : shown'[p].rv >= shown[p].rv /\ shown'[p].bv >= shown[p].bv

LEMMA InitOrdered == Init => Ordered /\ Tracked
<1> SUFFICES ASSUME Init PROVE Ordered /\ Tracked OBVIOUS
<1> USE DEF Init
<1>1. Snapshots
  BY LiveAssumption DEF LiveAssumption, Snapshots, Visible, Open, Rules!NewBattle
<1>2. \A t \in Threads : threads[t] = Idle /\ threads[t].at = "idle" BY DEF Idle
<1>3. Locks
  <2>1. \A t \in Threads : t # Free BY LiveAssumption DEF LiveAssumption
  <2> QED BY <1>2, <2>1 DEF Locks, Holds, InRoom, InBattle
<1>4. \A p \in Players :
        shown[p] = Message(p, IF Member(room, p) THEN Status(room, p, NoFight) ELSE Null, 0, 0)
  OBVIOUS
<1>5. OnScreen BY <1>4 DEF OnScreen, IsMessage, Message
<1>6. RoomSends /\ BattleSends BY <1>2 DEF RoomSends, BattleSends
<1>7. Tracked
  <2>1. \A t \in Threads : Carried(t) = {} BY <1>2 DEF Carried
  <2>2. room.battle = NoBattle BY LiveAssumption DEF LiveAssumption
  <2>3. \A p \in Players : shown[p].status = Fresh(p) BY <1>4, <2>2 DEF Message, Fresh
  <2> QED BY <2>1, <2>3 DEF Tracked, UpToDate
<1> QED BY <1>1, <1>3, <1>5, <1>6, <1>7 DEF Ordered

LEMMA RoomSubmitted ==
    ASSUME Ordered, NEW t \in Threads, NEW e \in RoomCommands, SubmitRoom(t, e)
    PROVE  /\ Ordered' /\ Forward
           /\ Tracked /\ e.type # "room_device_unbound" => Tracked'
<1>1. /\ threads[t] = Idle /\ roomMutex = Free /\ RoomAccepts(room, e)
      /\ room' = RoomApply(room, e) /\ roomVersion' = roomVersion + 1 /\ roomMutex' = t
      /\ threads' = [threads EXCEPT ![t] =
             RoomPublication(room', roomVersion', SetToSeq(RoomAffected(e, room')))]
      /\ battle' = battle /\ battleVersion' = battleVersion /\ apMutex' = apMutex /\ shown' = shown
  BY DEF SubmitRoom
<1>2. Snapshots /\ Locks /\ OnScreen /\ RoomSends /\ BattleSends BY DEF Ordered
<1>3. RoomStep(room, e, room')
  <2>1. Visible(room) BY <1>2 DEF Snapshots
  <2> DEFINE s == room'
  <2>2. s = RoomApply(room, e) BY <1>1
  <2> HIDE DEF s
  <2>3. RoomStep(room, e, s) BY <1>1, <2>1, <2>2, RoomSteps
  <2> QED BY <2>3 DEF s
<1> DEFINE q == SetToSeq(RoomAffected(e, room'))
<1>4. Listed(q) /\ Range(q) = RoomAffected(e, room') BY <1>3, ListOfSet DEF RoomStep
<1>5. threads'[t] = RoomPublication(room', roomVersion', q) /\ Step(t)
  BY <1>1, <1>2 DEF Step, Locks
<1> HIDE DEF q
<1>6. /\ threads'[t].at = "room" /\ threads'[t].todo = q
      /\ threads[t].at = "idle" /\ ~InRoom(t) /\ ~InBattle(t)
  BY <1>1, <1>5 DEF RoomPublication, Idle, InRoom, InBattle
<1>7. \A u \in Threads : ~InRoom(u) /\ threads[u].at \notin {"room", "sending"}
  BY <1>1, <1>2, LiveAssumption DEF LiveAssumption, Locks, Holds, InRoom
<1>8. Snapshots' BY <1>1, <1>2, <1>3 DEF Snapshots, RoomStep
<1>9. Locks'
  <2>1. Holds(t)'
    <3>1. apMutex # t BY <1>2, <1>6 DEF Locks, Holds
    <3> QED BY <1>1, <1>4, <1>5, <1>6, <3>1 DEF Holds, InRoom, InBattle
  <2>2. ASSUME NEW u \in Threads, u # t PROVE Holds(u)'
    <3>1. threads'[u] = threads[u] BY <1>5, <2>2 DEF Step
    <3>2. Holds(u) BY <1>2 DEF Locks
    <3> QED BY <1>1, <1>7, <2>2, <3>1, <3>2 DEF Holds, InRoom, InBattle
  <2> QED BY <1>5, <2>1, <2>2 DEF Locks, Step
<1>10. \A p : Fighting(p) => Fighting(p)'
  BY <1>3 DEF Fighting, RoomStep, Member
<1>11. \A m : IsMessage(m) =>
          /\ m = Message(m.player, m.status, m.rv, m.bv)
          /\ m.rv \in 0..roomVersion' /\ m.bv \in 0..battleVersion'
  BY <1>1, <1>2 DEF Snapshots, IsMessage
<1>12. OnScreen' BY <1>1, <1>2, <1>10, <1>11 DEF OnScreen, IsMessage
<1>13. RoomSends'
  <2>1. \A u \in Threads : threads'[u].at # "sending"
    BY <1>5, <1>6, <1>7 DEF Step
  <2> QED BY <2>1 DEF RoomSends
<1>14. BattleSends'
  <2> SUFFICES ASSUME NEW u \in Threads, threads'[u].at = "battle"
               PROVE  /\ \A n \in Range(threads'[u].todo) :
                           /\ IsMessage(n)' /\ n.bv = battleVersion' /\ Fighting(n.player)'
                           /\ n.player \in Players => shown'[n.player].rv <= n.rv
                      /\ \A m, n \in Range(threads'[u].todo) : m.player = n.player => m = n
    BY DEF BattleSends
  <2>1. threads'[u] = threads[u] BY <1>5, <1>6 DEF Step
  <2>2. \A n \in Range(threads[u].todo) : IsMessage(n)'
    BY <1>2, <1>11, <2>1 DEF BattleSends, IsMessage
  <2> QED BY <1>1, <1>2, <1>10, <2>1, <2>2 DEF BattleSends
<1>15. Forward
  BY <1>1, <1>2 DEF Forward, OnScreen, IsMessage, Snapshots
<1>16. ASSUME Tracked, e.type # "room_device_unbound", NEW p \in Players
       PROVE  ToBeMade(p)' \/ UpToDate(p)'
  <2>1. CASE p \in RoomAffected(e, room')
    BY <1>4, <1>6, <2>1 DEF ToBeMade, InRoom
  <2>2. CASE p \notin RoomAffected(e, room')
    <3>1. SameFor(p, room, room') BY <1>3, <1>16, <2>2 DEF RoomStep
    <3>2. /\ Member(room', p) <=> Member(room, p)
          /\ Member(room, p) => room'.battle = room.battle
          /\ Member(room, p) => Status(room', p, battle) = Status(room, p, battle)
          /\ Member(room, p) => Status(room', p, NoFight) = Status(room, p, NoFight)
      <4> DEFINE s == room'
      <4>1. SameFor(p, room, s) BY <3>1
      <4> HIDE DEF s
      <4>2. /\ Member(s, p) <=> Member(room, p)
            /\ \A b : Member(room, p) => s.battle = room.battle /\ Status(s, p, b) = Status(room, p, b)
        BY <4>1, SameStatus
      <4> QED BY <4>2 DEF s
    <3>3. Fresh(p)' = Fresh(p) BY <1>1, <3>2 DEF Fresh, NoFight
    <3>4. CASE ToBeMade(p)
      <4>1. PICK u \in Threads : threads[u].at = "find" /\ p \in threads[u].affected
        BY <1>7, <3>4 DEF ToBeMade
      <4>2. Fighting(p) BY <1>7, <3>4 DEF ToBeMade
      <4>3. threads'[u] = threads[u] BY <1>5, <1>6, <4>1 DEF Step
      <4> QED BY <1>10, <4>1, <4>2, <4>3 DEF ToBeMade
    <3>5. CASE UpToDate(p)
      <4>1. Carried(t)' = {} /\ Carried(t) = {} BY <1>6 DEF Carried
      <4>2. \A u \in Threads : Carried(u)' = Carried(u)
        BY <1>5, <4>1 DEF Carried, Step
      <4> QED BY <1>1, <3>3, <3>5, <4>2 DEF UpToDate
    <3> QED BY <1>16, <3>4, <3>5 DEF Tracked
  <2> QED BY <2>1, <2>2
<1> QED BY <1>8, <1>9, <1>12, <1>13, <1>14, <1>15, <1>16 DEF Ordered, Tracked

LEMMA RoomStatusMade ==
    ASSUME Ordered, NEW t \in Threads, MakeRoomStatus(t)
    PROVE  Ordered' /\ Forward /\ (Tracked => Tracked')
<1> DEFINE k == threads[t]
           p == Head(k.todo)
<1>1. /\ threads[t].at = "room" /\ k.todo # <<>>
      /\ UNCHANGED <<room, battle, roomVersion, battleVersion, roomMutex, apMutex, shown>>
  BY DEF MakeRoomStatus
<1>2. Snapshots /\ Locks /\ OnScreen /\ RoomSends /\ BattleSends BY DEF Ordered
<1>3. /\ k = RoomPublication(room, roomVersion, k.todo) /\ roomMutex = t /\ Listed(k.todo)
      /\ k.room = room /\ k.version = roomVersion
  <2>1. /\ k = RoomPublication(room, roomVersion, k.todo) /\ roomMutex = t /\ Listed(k.todo)
    BY <1>1, <1>2 DEF Locks, Holds, InRoom
  <2>2. PICK todo : k = [at |-> "room", room |-> room, version |-> roomVersion, todo |-> todo]
    BY <2>1 DEF RoomPublication
  <2> QED BY <2>1, <2>2
<1>4. PICK status, bv :
        /\ threads' = [threads EXCEPT ![t] =
               [at |-> "sending", room |-> k.room, version |-> k.version,
                todo |-> Tail(k.todo), message |-> Message(p, status, k.version, bv)]]
        /\ \/ ~Member(k.room, p) /\ status = Null /\ bv = 0
           \/ Member(k.room, p) /\ k.room.battle = NoBattle
              /\ status = Status(k.room, p, NoFight) /\ bv = 0
           \/ Member(k.room, p) /\ k.room.battle # NoBattle /\ apMutex = Free
              /\ status = Status(k.room, p, battle) /\ bv = battleVersion
  BY DEF MakeRoomStatus
<1>a. PICK m : m = Message(p, status, roomVersion, bv) OBVIOUS
<1> DEFINE q == Tail(k.todo)
<1>5. /\ status = Fresh(p)
      /\ bv \in 0..battleVersion
      /\ Fighting(p) => apMutex = Free /\ bv = battleVersion
      /\ ~Fighting(p) => bv = 0
  <2>1. battleVersion \in Nat BY <1>2 DEF Snapshots
  <2>2. status = Fresh(p) BY <1>3, <1>4 DEF Fresh
  <2> QED BY <1>3, <1>4, <2>1, <2>2 DEF Fighting
<1>6. Listed(q) /\ p \in Range(k.todo) /\ Range(k.todo) = Range(q) \cup {p}
  BY <1>1, <1>3, HeadAndTail
<1>7. /\ threads'[t] = [at |-> "sending", room |-> room, version |-> roomVersion,
                        todo |-> q, message |-> m]
      /\ Step(t)
  BY <1>2, <1>3, <1>4, <1>a DEF Step, Locks
<1>8. /\ m.player = p /\ m.status = status /\ m.rv = roomVersion /\ m.bv = bv
      /\ m = Message(m.player, m.status, m.rv, m.bv)
  BY <1>a DEF Message
<1> HIDE DEF q, p, k
<1>9. threads'[t].at = "sending" /\ threads'[t].todo = q /\ threads'[t].message = m
  BY ONLY <1>7
<1>10. \A u \in Threads : u # t => ~InRoom(u) /\ threads[u].at \notin {"room", "sending"}
  BY <1>2, <1>3 DEF Locks, Holds, InRoom
<1>11. \A u \in Threads : threads[u].at = "battle" =>
          u # t /\ \A n \in Range(threads[u].todo) : n.player # p
  <2> SUFFICES ASSUME NEW u \in Threads, threads[u].at = "battle",
                      NEW n \in Range(threads[u].todo), n.player = p
               PROVE  FALSE
    BY <1>1
  <2>1. Fighting(p) BY <1>2 DEF BattleSends
  <2>2. apMutex = u BY <1>2 DEF Locks, Holds, InBattle
  <2> QED BY <1>5, <2>1, <2>2, LiveAssumption DEF LiveAssumption
<1>12. Snapshots' BY <1>1, <1>2 DEF Snapshots
<1>13. Locks'
  <2>1. Holds(t)'
    <3>1. apMutex # t BY <1>1, <1>2 DEF Locks, Holds, InBattle
    <3> QED BY <1>1, <1>3, <1>6, <1>7, <1>9, <3>1 DEF Holds, InRoom, InBattle
  <2>2. ASSUME NEW u \in Threads, u # t PROVE Holds(u)'
    <3>1. threads'[u] = threads[u] BY <1>7, <2>2 DEF Step
    <3>2. Holds(u) BY <1>2 DEF Locks
    <3> QED BY <1>1, <3>1, <3>2 DEF Holds, InRoom, InBattle
  <2> QED BY <1>7, <2>1, <2>2 DEF Locks, Step
<1>14. OnScreen' BY <1>1, <1>2 DEF OnScreen, IsMessage, Fighting
<1>15. BattleSends'
  <2> SUFFICES ASSUME NEW u \in Threads, threads'[u].at = "battle"
               PROVE  /\ \A n \in Range(threads'[u].todo) :
                           /\ IsMessage(n)' /\ n.bv = battleVersion' /\ Fighting(n.player)'
                           /\ n.player \in Players => shown'[n.player].rv <= n.rv
                      /\ \A o, n \in Range(threads'[u].todo) : o.player = n.player => o = n
    BY DEF BattleSends
  <2>1. threads'[u] = threads[u] BY <1>7, <1>9 DEF Step
  <2> QED BY <1>1, <1>2, <2>1 DEF BattleSends, IsMessage, Fighting
<1>16. RoomSends'
  <2>1. \A u \in Threads : threads'[u].at = "sending" => u = t BY <1>7, <1>10 DEF Step
  <2>2. IsMessage(m)' /\ m.rv = roomVersion' /\ (m.bv # 0 => Fighting(m.player)')
    BY <1>1, <1>2, <1>5, <1>8 DEF IsMessage, Snapshots, Fighting
  <2>3. p \in Players => shown[p].bv <= bv
    BY <1>2, <1>5 DEF OnScreen, IsMessage, Snapshots
  <2>4. \A u \in Threads : threads'[u].at = "battle" =>
            \A n \in Range(threads'[u].todo) : n.player # m.player
    BY <1>7, <1>8, <1>9, <1>11 DEF Step
  <2> QED BY <1>1, <1>8, <1>9, <2>1, <2>2, <2>3, <2>4 DEF RoomSends
<1>17. Forward BY <1>1, <1>2 DEF Forward, OnScreen, IsMessage, Snapshots
<1>18. ASSUME Tracked, NEW x \in Players PROVE ToBeMade(x)' \/ UpToDate(x)'
  <2>1. Fresh(x)' = Fresh(x) BY <1>1 DEF Fresh
  <2>2. Carried(t) = {} /\ Carried(t)' = {m} BY <1>1, <1>9 DEF Carried
  <2>3. \A u \in Threads : u # t => Carried(u)' = Carried(u) BY <1>7 DEF Carried, Step
  <2>4. CASE x = p
    <3>1. \A u \in Threads : u # t => \A n \in Carried(u) : n.player # p
      BY <1>10, <1>11 DEF Carried
    <3> QED BY <1>5, <1>8, <2>1, <2>2, <2>3, <2>4, <3>1 DEF UpToDate
  <2>5. CASE x # p /\ ToBeMade(x)
    <3>1. CASE \E u \in Threads : InRoom(u) /\ x \in Range(threads[u].todo)
      <4>1. x \in Range(threads[t].todo) BY <1>10, <3>1
      <4>2. x \in Range(q) BY <1>6, <2>5, <4>1 DEF k
      <4> QED BY <1>9, <4>2 DEF ToBeMade, InRoom
    <3>2. CASE Fighting(x) /\ \E u \in Threads : threads[u].at = "find" /\ x \in threads[u].affected
      <4>1. PICK u \in Threads : threads[u].at = "find" /\ x \in threads[u].affected BY <3>2
      <4>2. threads'[u] = threads[u] BY <1>1, <1>7, <4>1 DEF Step
      <4> QED BY <1>1, <3>2, <4>1, <4>2 DEF ToBeMade, Fighting
    <3> QED BY <2>5, <3>1, <3>2 DEF ToBeMade
  <2>6. CASE x # p /\ UpToDate(x)
    BY <1>1, <1>8, <2>1, <2>2, <2>3, <2>6 DEF UpToDate
  <2> QED BY <1>18, <2>4, <2>5, <2>6 DEF Tracked
<1> QED BY <1>12, <1>13, <1>14, <1>15, <1>16, <1>17, <1>18 DEF Ordered, Tracked

LEMMA RoomStatusSent ==
    ASSUME Ordered, NEW t \in Threads, SendRoomStatus(t)
    PROVE  Ordered' /\ Forward /\ (Tracked => Tracked')
<1> DEFINE k == threads[t]
           m == k.message
<1>1. /\ threads[t].at = "sending"
      /\ shown' = [shown EXCEPT ![m.player] = m]
      /\ threads' = [threads EXCEPT ![t] = RoomPublication(k.room, k.version, k.todo)]
      /\ UNCHANGED <<room, battle, roomVersion, battleVersion, roomMutex, apMutex>>
  BY DEF SendRoomStatus
<1>2. Snapshots /\ Locks /\ OnScreen /\ RoomSends /\ BattleSends BY DEF Ordered
<1>3. /\ k = [at |-> "sending", room |-> room, version |-> roomVersion,
              todo |-> k.todo, message |-> k.message]
      /\ roomMutex = t /\ Listed(k.todo) /\ k.room = room /\ k.version = roomVersion
  <2>1. /\ k = [at |-> "sending", room |-> room, version |-> roomVersion,
                todo |-> k.todo, message |-> k.message]
        /\ roomMutex = t /\ Listed(k.todo)
    BY <1>1, <1>2 DEF Locks, Holds, InRoom
  <2>2. PICK todo, message : k = [at |-> "sending", room |-> room, version |-> roomVersion,
                                  todo |-> todo, message |-> message]
    BY <2>1
  <2> QED BY <2>1, <2>2
<1>4. /\ threads'[t] = RoomPublication(room, roomVersion, k.todo) /\ Step(t)
      /\ threads'[t].at = "room" /\ threads'[t].todo = threads[t].todo
  BY <1>1, <1>2, <1>3 DEF Step, Locks, RoomPublication
<1>5. /\ IsMessage(m) /\ m.rv = roomVersion
      /\ m.bv # 0 => Fighting(m.player)
      /\ m.player \in Players => shown[m.player].bv <= m.bv
      /\ \A u \in Threads : threads[u].at = "battle" =>
             \A n \in Range(threads[u].todo) : n.player # m.player
  BY <1>1, <1>2 DEF RoomSends
<1>6. /\ DOMAIN shown = Players /\ DOMAIN shown' = Players
      /\ m.player \in Players => shown'[m.player] = m
      /\ \A p \in Players : p # m.player => shown'[p] = shown[p]
  BY <1>1, <1>2 DEF OnScreen
<1> HIDE DEF m, k
<1>7. \A u \in Threads : u # t => ~InRoom(u) /\ threads[u].at \notin {"room", "sending"}
  BY <1>2, <1>3 DEF Locks, Holds, InRoom
<1>8. Snapshots' BY <1>1, <1>2 DEF Snapshots
<1>9. Locks'
  <2>1. Holds(t)'
    <3>1. apMutex # t BY <1>1, <1>2 DEF Locks, Holds, InBattle
    <3> QED BY <1>1, <1>3, <1>4, <3>1 DEF Holds, InRoom, InBattle, k
  <2>2. ASSUME NEW u \in Threads, u # t PROVE Holds(u)'
    <3>1. threads'[u] = threads[u] BY <1>4, <2>2 DEF Step
    <3>2. Holds(u) BY <1>2 DEF Locks
    <3> QED BY <1>1, <3>1, <3>2 DEF Holds, InRoom, InBattle
  <2> QED BY <1>4, <2>1, <2>2 DEF Locks, Step
<1>10. OnScreen'
  <2> SUFFICES ASSUME NEW p \in Players
               PROVE  /\ IsMessage(shown[p])' /\ shown'[p].player = p
                      /\ shown'[p].bv # 0 => Fighting(p)'
    BY <1>6 DEF OnScreen
  <2>1. CASE p = m.player
    <3>1. shown'[p] = m BY <1>6, <2>1
    <3> QED BY <1>1, <1>5, <2>1, <3>1 DEF IsMessage, Fighting
  <2>2. CASE p # m.player
    <3>1. shown'[p] = shown[p] BY <1>6, <2>2
    <3> QED BY <1>1, <1>2, <3>1 DEF OnScreen, IsMessage, Fighting
  <2> QED BY <2>1, <2>2
<1>11. BattleSends'
  <2> SUFFICES ASSUME NEW u \in Threads, threads'[u].at = "battle"
               PROVE  /\ \A n \in Range(threads'[u].todo) :
                           /\ IsMessage(n)' /\ n.bv = battleVersion' /\ Fighting(n.player)'
                           /\ n.player \in Players => shown'[n.player].rv <= n.rv
                      /\ \A o, n \in Range(threads'[u].todo) : o.player = n.player => o = n
    BY DEF BattleSends
  <2>1. threads'[u] = threads[u] BY <1>4 DEF Step
  <2>2. \A n \in Range(threads[u].todo) : n.player # m.player BY <1>5, <2>1
  <2> QED BY <1>1, <1>2, <1>6, <2>1, <2>2 DEF BattleSends, IsMessage, Fighting
<1>12. RoomSends'
  <2>1. \A u \in Threads : threads'[u].at # "sending" BY <1>4, <1>7 DEF Step
  <2> QED BY <2>1 DEF RoomSends
<1>13. Forward
  <2> SUFFICES ASSUME NEW p \in Players
               PROVE  shown'[p].rv >= shown[p].rv /\ shown'[p].bv >= shown[p].bv
    BY DEF Forward
  <2>1. shown[p].rv \in 0..roomVersion /\ shown[p].bv \in 0..battleVersion
    BY <1>2 DEF OnScreen, IsMessage
  <2>2. roomVersion \in Nat /\ battleVersion \in Nat BY <1>2 DEF Snapshots
  <2>3. m.bv \in 0..battleVersion BY <1>5 DEF IsMessage
  <2>4. CASE p = m.player BY <1>5, <1>6, <2>1, <2>2, <2>3, <2>4
  <2>5. CASE p # m.player BY <1>6, <2>1, <2>2, <2>5
  <2> QED BY <2>4, <2>5
<1>14. ASSUME Tracked, NEW x \in Players PROVE ToBeMade(x)' \/ UpToDate(x)'
  <2>1. Fresh(x)' = Fresh(x) BY <1>1 DEF Fresh
  <2>2. Carried(t) = {m} /\ Carried(t)' = {} BY <1>1, <1>4 DEF Carried, m, k
  <2>3. \A u \in Threads : u # t => Carried(u)' = Carried(u) BY <1>4 DEF Carried, Step
  <2>4. CASE ToBeMade(x)
    <3>1. \A u \in Threads : InRoom(u) /\ x \in Range(threads[u].todo)
              => InRoom(u)' /\ x \in Range(threads'[u].todo)
      BY <1>4, <1>7 DEF Step, InRoom
    <3>2. \A u \in Threads : threads[u].at = "find" => threads'[u] = threads[u]
      BY <1>1, <1>4 DEF Step
    <3> QED BY <1>1, <2>4, <3>1, <3>2 DEF ToBeMade, Fighting
  <2>5. CASE UpToDate(x)
    <3>1. CASE x = m.player
      <4>1. m.status = Fresh(x) BY <2>2, <2>5, <3>1 DEF UpToDate
      <4> QED BY <1>6, <2>1, <2>2, <2>3, <2>5, <3>1, <4>1 DEF UpToDate
    <3>2. CASE x # m.player
      BY <1>6, <2>1, <2>2, <2>3, <2>5, <3>2 DEF UpToDate
    <3> QED BY <3>1, <3>2
  <2> QED BY <1>14, <2>4, <2>5 DEF Tracked
<1> QED BY <1>8, <1>9, <1>10, <1>11, <1>12, <1>13, <1>14 DEF Ordered, Tracked

LEMMA RoomPublished ==
    ASSUME Ordered, NEW t \in Threads, RoomDone(t)
    PROVE  Ordered' /\ Forward /\ (Tracked => Tracked')
<1>1. /\ threads[t].at = "room" /\ threads[t].todo = <<>>
      /\ roomMutex' = Free /\ threads' = [threads EXCEPT ![t] = Idle]
      /\ UNCHANGED <<room, battle, roomVersion, battleVersion, apMutex, shown>>
  BY DEF RoomDone
<1>2. Snapshots /\ Locks /\ OnScreen /\ RoomSends /\ BattleSends BY DEF Ordered
<1>3. threads'[t] = Idle /\ Step(t) BY <1>1, <1>2 DEF Step, Locks
<1>4. threads'[t].at = "idle" BY <1>3 DEF Idle
<1>5. roomMutex = t /\ apMutex # t BY <1>1, <1>2 DEF Locks, Holds, InRoom, InBattle
<1>6. \A u \in Threads : u # t => ~InRoom(u) /\ threads[u].at \notin {"room", "sending"}
  BY <1>2, <1>5 DEF Locks, Holds, InRoom
<1>7. Snapshots' BY <1>1, <1>2 DEF Snapshots
<1>8. Locks'
  <2>1. \A u \in Threads : u # Free BY LiveAssumption DEF LiveAssumption
  <2>2. Holds(t)' BY <1>1, <1>3, <1>4, <1>5, <2>1 DEF Holds, InRoom, InBattle
  <2>3. ASSUME NEW u \in Threads, u # t PROVE Holds(u)'
    <3>1. threads'[u] = threads[u] BY <1>3, <2>3 DEF Step
    <3>2. Holds(u) BY <1>2 DEF Locks
    <3> QED BY <1>1, <1>6, <2>1, <2>3, <3>1, <3>2 DEF Holds, InRoom, InBattle
  <2> QED BY <1>3, <2>2, <2>3 DEF Locks, Step
<1>9. OnScreen' BY <1>1, <1>2 DEF OnScreen, IsMessage, Fighting
<1>10. RoomSends' BY <1>3, <1>4, <1>6 DEF RoomSends, Step
<1>11. BattleSends'
  <2>1. \A u \in Threads : threads'[u].at = "battle" => threads'[u] = threads[u]
    BY <1>3, <1>4 DEF Step
  <2> QED BY <1>1, <1>2, <2>1 DEF BattleSends, IsMessage, Fighting
<1>12. Forward BY <1>1, <1>2 DEF Forward, OnScreen, IsMessage, Snapshots
<1>13. ASSUME Tracked, NEW x \in Players PROVE ToBeMade(x)' \/ UpToDate(x)'
  <2>1. Fresh(x)' = Fresh(x) BY <1>1 DEF Fresh
  <2>2. \A u \in Threads : Carried(u)' = Carried(u) BY <1>1, <1>3, <1>4 DEF Carried, Step
  <2>3. CASE ToBeMade(x)
    <3>1. \A u \in Threads : ~(InRoom(u) /\ x \in Range(threads[u].todo))
      <4>1. Range(<<>>) = {} BY DEF Range
      <4> QED BY <1>1, <1>6, <4>1
    <3>2. \A u \in Threads : threads[u].at = "find" => threads'[u] = threads[u]
      BY <1>1, <1>3 DEF Step
    <3> QED BY <1>1, <2>3, <3>1, <3>2 DEF ToBeMade, Fighting
  <2>4. CASE UpToDate(x) BY <1>1, <2>1, <2>2, <2>4 DEF UpToDate
  <2> QED BY <1>13, <2>3, <2>4 DEF Tracked
<1> QED BY <1>7, <1>8, <1>9, <1>10, <1>11, <1>12, <1>13 DEF Ordered, Tracked

LEMMA BattleSubmitted ==
    ASSUME Ordered, NEW t \in Threads, NEW e \in BattleCommands, SubmitBattle(t, e)
    PROVE  Ordered' /\ Forward /\ (Tracked => Tracked')
<1>1. /\ threads[t] = Idle /\ apMutex = Free /\ Rules!BattleAccepts(battle, e)
      /\ battle' = Rules!BattleApply(battle, e) /\ battleVersion' = battleVersion + 1
      /\ apMutex' = t
      /\ threads' = [threads EXCEPT ![t] =
             [at |-> "find", battle |-> battle', version |-> battleVersion',
              affected |-> BattleAffected(e, battle')]]
      /\ UNCHANGED <<room, roomVersion, roomMutex, shown>>
  BY DEF SubmitBattle
<1>2. Snapshots /\ Locks /\ OnScreen /\ RoomSends /\ BattleSends BY DEF Ordered
<1>3. PICK s : s = battle' OBVIOUS
<1>4. BattleStep(battle, e, s)
  <2>1. battle = [phase |-> battle.phase, players |-> battle.players, score |-> battle.score]
    BY <1>2 DEF Snapshots
  <2>2. s = Rules!BattleApply(battle, e) BY <1>1, <1>3
  <2> QED BY <1>1, <2>1, <2>2, BattleSteps
<1>5. /\ threads'[t] = [at |-> "find", battle |-> battle', version |-> battleVersion',
                        affected |-> BattleAffected(e, s)]
      /\ Step(t)
  BY <1>1, <1>2, <1>3 DEF Step, Locks
<1>6. /\ threads'[t].at = "find" /\ threads'[t].affected = BattleAffected(e, s)
      /\ threads[t].at = "idle"
  BY <1>1, <1>5 DEF Idle
<1>7. \A u \in Threads : ~InBattle(u) /\ threads[u].at \notin {"find", "battle"}
  BY <1>1, <1>2, LiveAssumption DEF LiveAssumption, Locks, Holds, InBattle
<1>8. Snapshots' BY <1>1, <1>2, <1>3, <1>4 DEF Snapshots, BattleStep
<1>9. Locks'
  <2>1. Holds(t)'
    <3>1. roomMutex # t BY <1>2, <1>6 DEF Locks, Holds, InRoom
    <3> QED BY <1>1, <1>5, <1>6, <3>1 DEF Holds, InRoom, InBattle
  <2>2. ASSUME NEW u \in Threads, u # t PROVE Holds(u)'
    <3>1. threads'[u] = threads[u] BY <1>5, <2>2 DEF Step
    <3>2. Holds(u) BY <1>2 DEF Locks
    <3> QED BY <1>1, <1>7, <2>2, <3>1, <3>2 DEF Holds, InRoom, InBattle
  <2> QED BY <1>5, <2>1, <2>2 DEF Locks, Step
<1>10. \A m : IsMessage(m) =>
          /\ m = Message(m.player, m.status, m.rv, m.bv)
          /\ m.rv \in 0..roomVersion' /\ m.bv \in 0..battleVersion'
  BY <1>1, <1>2 DEF Snapshots, IsMessage
<1>11. OnScreen' BY <1>1, <1>2, <1>10 DEF OnScreen, IsMessage, Fighting
<1>12. \A u \in Threads : threads'[u].at # "battle" BY <1>5, <1>6, <1>7 DEF Step
<1>13. RoomSends'
  <2> SUFFICES ASSUME NEW u \in Threads, threads'[u].at = "sending",
                      NEW m, m = threads'[u].message
               PROVE  /\ IsMessage(m)' /\ m.rv = roomVersion'
                      /\ m.bv # 0 => Fighting(m.player)'
                      /\ m.player \in Players => shown'[m.player].bv <= m.bv
    BY <1>12 DEF RoomSends, IsMessage
  <2>1. threads'[u] = threads[u] BY <1>5, <1>6 DEF Step
  <2>2. /\ IsMessage(m) /\ m.rv = roomVersion
        /\ m.bv # 0 => Fighting(m.player)
        /\ m.player \in Players => shown[m.player].bv <= m.bv
    BY <1>2, <2>1 DEF RoomSends
  <2> QED BY <1>1, <1>10, <2>2 DEF IsMessage, Fighting
<1>14. BattleSends' BY <1>12 DEF BattleSends
<1>15. Forward BY <1>1, <1>2 DEF Forward, OnScreen, IsMessage, Snapshots
<1>16. ASSUME Tracked, NEW x \in Players PROVE ToBeMade(x)' \/ UpToDate(x)'
  <2>1. CASE Fighting(x) /\ x \in BattleAffected(e, s)
    BY <1>1, <1>6, <2>1 DEF ToBeMade, Fighting
  <2>2. CASE ~(Fighting(x) /\ x \in BattleAffected(e, s))
    <3>1. x \notin BattleAffected(e, s) => Status(room, x, s) = Status(room, x, battle)
      BY <1>4, SameFight
    <3>2. Fresh(x)' = Fresh(x) BY <1>1, <1>3, <2>2, <3>1 DEF Fresh, Fighting, NoFight
    <3>3. CASE ToBeMade(x)
      <4>1. PICK u \in Threads : InRoom(u) /\ x \in Range(threads[u].todo)
        BY <1>7, <3>3 DEF ToBeMade
      <4>2. threads'[u] = threads[u] BY <1>5, <1>6, <4>1 DEF Step, InRoom
      <4> QED BY <4>1, <4>2 DEF ToBeMade, InRoom
    <3>4. CASE UpToDate(x)
      <4>1. \A u \in Threads : Carried(u)' = Carried(u) BY <1>5, <1>6 DEF Carried, Step
      <4> QED BY <1>1, <3>2, <3>4, <4>1 DEF UpToDate
    <3> QED BY <1>16, <3>3, <3>4 DEF Tracked
  <2> QED BY <2>1, <2>2
<1> QED BY <1>8, <1>9, <1>11, <1>13, <1>14, <1>15, <1>16 DEF Ordered, Tracked

LEMMA RoomFound ==
    ASSUME Ordered, NEW t \in Threads, FindRoom(t)
    PROVE  Ordered' /\ Forward /\ (Tracked => Tracked')
<1> DEFINE k == threads[t]
           members == IF room.battle = TheBattle
                      THEN k.affected \cap DOMAIN room.players ELSE {}
           made(p) == Message(p, Status(room, p, k.battle), roomVersion, k.version)
           S == {made(p) : p \in members}
           q == SetToSeq(S)
<1>1. /\ threads[t].at = "find" /\ roomMutex = Free
      /\ threads' = [threads EXCEPT ![t] = [at |-> "battle", todo |-> q]]
      /\ UNCHANGED <<room, battle, roomVersion, battleVersion, roomMutex, apMutex, shown>>
  BY DEF FindRoom
<1>2. Snapshots /\ Locks /\ OnScreen /\ RoomSends /\ BattleSends BY DEF Ordered
<1>3. apMutex = t /\ k.battle = battle /\ k.version = battleVersion
  <2>1. /\ k = [at |-> "find", battle |-> battle, version |-> battleVersion,
                affected |-> k.affected]
        /\ apMutex = t
    BY <1>1, <1>2 DEF Locks, Holds, InBattle
  <2>2. PICK a : k = [at |-> "find", battle |-> battle, version |-> battleVersion,
                      affected |-> a]
    BY <2>1
  <2> QED BY <2>1, <2>2
<1>4. IsFiniteSet(members)
  <2>1. IsFiniteSet(DOMAIN room.players) BY <1>2 DEF Snapshots, Visible, RoomShape
  <2>2. members \subseteq DOMAIN room.players OBVIOUS
  <2> QED BY <2>1, <2>2, FS_Subset
<1>5. /\ Listed(q) /\ Range(q) = S
  <2>1. IsFiniteSet(S)
    <3> DEFINE f == [p \in members |-> made(p)]
    <3> HIDE DEF members, made
    <3>1. f \in [members -> S] OBVIOUS
    <3>2. \A n \in S : \E p \in members : f[p] = n OBVIOUS
    <3>3. f \in Surjection(members, S) BY <3>1, <3>2 DEF Surjection
    <3> QED BY <1>4, <3>3, FS_Surjection
  <2> HIDE DEF S
  <2> QED BY <2>1, ListOfSet
<1>6. \A n \in S : /\ n = Message(n.player, Status(room, n.player, battle), roomVersion, battleVersion)
                   /\ n.rv = roomVersion /\ n.bv = battleVersion
                   /\ n.status = Status(room, n.player, battle)
                   /\ Fighting(n.player)
  BY <1>3, LiveAssumption DEF LiveAssumption, Message, Fighting, Member
<1>7. \A p : Fighting(p) /\ p \in k.affected => \E n \in S : n.player = p
  <2> SUFFICES ASSUME NEW p, Fighting(p), p \in k.affected PROVE \E n \in S : n.player = p
    OBVIOUS
  <2>1. room.battle = TheBattle BY <1>2 DEF Fighting, Snapshots, Visible
  <2>2. p \in members BY <2>1 DEF Fighting, Member
  <2>3. made(p) \in S /\ made(p).player = p BY <2>2 DEF Message
  <2> QED BY <2>3
<1> HIDE DEF S, members, made
<1>8. threads'[t] = [at |-> "battle", todo |-> q] /\ Step(t)
  BY <1>1, <1>2 DEF Step, Locks
<1> HIDE DEF q
<1>9. threads'[t].at = "battle" /\ threads'[t].todo = q BY <1>8
<1>10. \A u \in Threads : ~InRoom(u) /\ threads[u].at \notin {"room", "sending"}
  BY <1>1, <1>2, LiveAssumption DEF LiveAssumption, Locks, Holds, InRoom
<1>11. \A u \in Threads : u # t => ~InBattle(u) /\ threads[u].at \notin {"find", "battle"}
  BY <1>2, <1>3 DEF Locks, Holds, InBattle
<1>12. Snapshots' BY <1>1, <1>2 DEF Snapshots
<1>13. Locks'
  <2>1. Holds(t)'
    <3>1. roomMutex # t BY <1>1, LiveAssumption DEF LiveAssumption
    <3> QED BY <1>1, <1>3, <1>5, <1>8, <1>9, <3>1 DEF Holds, InRoom, InBattle
  <2>2. ASSUME NEW u \in Threads, u # t PROVE Holds(u)'
    <3>1. threads'[u] = threads[u] BY <1>8, <2>2 DEF Step
    <3>2. Holds(u) BY <1>2 DEF Locks
    <3> QED BY <1>1, <3>1, <3>2 DEF Holds, InRoom, InBattle
  <2> QED BY <1>8, <2>1, <2>2 DEF Locks, Step
<1>14. OnScreen' BY <1>1, <1>2 DEF OnScreen, IsMessage, Fighting
<1>15. RoomSends' BY <1>8, <1>9, <1>10 DEF RoomSends, Step
<1>16. BattleSends'
  <2>1. \A u \in Threads : threads'[u].at = "battle" => u = t BY <1>8, <1>11 DEF Step
  <2>2. \A n \in S : /\ IsMessage(n)' /\ n.bv = battleVersion' /\ Fighting(n.player)'
                     /\ n.player \in Players => shown'[n.player].rv <= n.rv
    <3> SUFFICES ASSUME NEW n \in S
                 PROVE  /\ IsMessage(n)' /\ n.bv = battleVersion' /\ Fighting(n.player)'
                        /\ n.player \in Players => shown'[n.player].rv <= n.rv
      OBVIOUS
    <3>1. /\ n = Message(n.player, n.status, n.rv, n.bv)
          /\ n.rv = roomVersion /\ n.bv = battleVersion /\ Fighting(n.player)
      BY <1>6
    <3>2. roomVersion \in Nat /\ battleVersion \in Nat BY <1>2 DEF Snapshots
    <3>3. n.player \in Players => shown[n.player].rv \in 0..roomVersion
      BY <1>2 DEF OnScreen, IsMessage
    <3> QED BY <1>1, <3>1, <3>2, <3>3 DEF IsMessage, Fighting
  <2>3. \A m, n \in S : m.player = n.player => m = n BY <1>6
  <2> QED BY <1>5, <1>9, <2>1, <2>2, <2>3 DEF BattleSends
<1>17. Forward BY <1>1, <1>2 DEF Forward, OnScreen, IsMessage, Snapshots
<1>18. ASSUME Tracked, NEW x \in Players PROVE UpToDate(x)'
  <2>1. Fresh(x)' = Fresh(x) BY <1>1 DEF Fresh
  <2>2. \A u \in Threads : u # t => Carried(u)' = {} BY <1>8, <1>10, <1>11 DEF Carried, Step
  <2>3. Carried(t)' = S BY <1>5, <1>9 DEF Carried
  <2>4. \A n \in S : n.player = x => n.status = Fresh(x) BY <1>6 DEF Fresh, Fighting
  <2>5. CASE ToBeMade(x)
    <3>1. Fighting(x) /\ x \in k.affected BY <1>10, <1>11, <2>5 DEF ToBeMade
    <3>2. \E n \in S : n.player = x BY <1>7, <3>1
    <3> QED BY <2>1, <2>2, <2>3, <2>4, <3>2 DEF UpToDate
  <2>6. CASE UpToDate(x)
    <3>1. \A u \in Threads : Carried(u) = {} BY <1>1, <1>10, <1>11 DEF Carried
    <3>2. shown'[x].status = Fresh(x) BY <1>1, <2>6, <3>1 DEF UpToDate
    <3> QED BY <2>1, <2>2, <2>3, <2>4, <3>2 DEF UpToDate
  <2> QED BY <1>18, <2>5, <2>6 DEF Tracked
<1> QED BY <1>12, <1>13, <1>14, <1>15, <1>16, <1>17, <1>18 DEF Ordered, Tracked

LEMMA BattleStatusSent ==
    ASSUME Ordered, NEW t \in Threads, SendBattleStatus(t)
    PROVE  Ordered' /\ Forward /\ (Tracked => Tracked')
<1> DEFINE q == threads[t].todo
<1>0. PICK m : m = Head(q) OBVIOUS
<1>1. /\ threads[t].at = "battle" /\ q # <<>>
      /\ shown' = [shown EXCEPT ![m.player] = m]
      /\ threads' = [threads EXCEPT ![t].todo = Tail(q)]
      /\ UNCHANGED <<room, battle, roomVersion, battleVersion, roomMutex, apMutex>>
  BY <1>0 DEF SendBattleStatus
<1>2. Snapshots /\ Locks /\ OnScreen /\ RoomSends /\ BattleSends BY DEF Ordered
<1>3. threads[t] = [at |-> "battle", todo |-> q] /\ Listed(q) /\ apMutex = t
  BY <1>1, <1>2 DEF Locks, Holds, InBattle
<1>4. Listed(Tail(q)) /\ m \in Range(q) /\ Range(q) = Range(Tail(q)) \cup {m}
  BY <1>0, <1>1, <1>3, HeadAndTail
<1> DEFINE r == Tail(q)
<1>5. threads'[t] = [at |-> "battle", todo |-> r] /\ Step(t)
  <2>1. threads'[t] = [threads[t] EXCEPT !.todo = r] BY <1>1, <1>2 DEF Locks
  <2>2. PICK todo : threads[t] = [at |-> "battle", todo |-> todo] BY <1>3
  <2> HIDE DEF r
  <2>3. threads'[t] = [at |-> "battle", todo |-> r] BY <2>1, <2>2
  <2> QED BY <1>1, <1>2, <2>3 DEF Step, Locks, r
<1> HIDE DEF r
<1>6. threads'[t].at = "battle" /\ threads'[t].todo = r BY <1>5
<1>7. /\ IsMessage(m) /\ m.bv = battleVersion /\ Fighting(m.player)
      /\ m.player \in Players => shown[m.player].rv <= m.rv
      /\ \A n \in Range(q) : n.player = m.player => n = m
  BY <1>1, <1>2, <1>4 DEF BattleSends
<1>8. \A n \in Range(r) : n \in Range(q) BY <1>4 DEF r
<1>9. \A n \in Range(q) : n \in Range(r) \/ n = m BY <1>4 DEF r
<1>10. \A u \in Threads : threads[u].at = "sending" => threads[u].message.player # m.player
  BY <1>1, <1>2, <1>4 DEF RoomSends
<1>11. /\ DOMAIN shown = Players /\ DOMAIN shown' = Players
       /\ m.player \in Players => shown'[m.player] = m
       /\ \A p \in Players : p # m.player => shown'[p] = shown[p]
  BY <1>1, <1>2 DEF OnScreen
<1>12. \A u \in Threads : u # t => ~InBattle(u) /\ threads[u].at \notin {"find", "battle"}
  BY <1>2, <1>3 DEF Locks, Holds, InBattle
<1>13. Snapshots' BY <1>1, <1>2 DEF Snapshots
<1>14. Locks'
  <2>1. Holds(t)'
    <3>1. roomMutex # t BY <1>1, <1>2 DEF Locks, Holds, InRoom
    <3> QED BY <1>1, <1>3, <1>4, <1>5, <1>6, <3>1 DEF Holds, InRoom, InBattle, r
  <2>2. ASSUME NEW u \in Threads, u # t PROVE Holds(u)'
    <3>1. threads'[u] = threads[u] BY <1>5, <2>2 DEF Step
    <3>2. Holds(u) BY <1>2 DEF Locks
    <3> QED BY <1>1, <3>1, <3>2 DEF Holds, InRoom, InBattle
  <2> QED BY <1>5, <2>1, <2>2 DEF Locks, Step
<1>15. OnScreen'
  <2> SUFFICES ASSUME NEW p \in Players
               PROVE  /\ IsMessage(shown[p])' /\ shown'[p].player = p
                      /\ shown'[p].bv # 0 => Fighting(p)'
    BY <1>11 DEF OnScreen
  <2>1. CASE p = m.player
    <3>1. shown'[p] = m BY <1>11, <2>1
    <3> QED BY <1>1, <1>7, <2>1, <3>1 DEF IsMessage, Fighting
  <2>2. CASE p # m.player
    <3>1. shown'[p] = shown[p] BY <1>11, <2>2
    <3> QED BY <1>1, <1>2, <3>1 DEF OnScreen, IsMessage, Fighting
  <2> QED BY <2>1, <2>2
<1>16. RoomSends'
  <2> SUFFICES ASSUME NEW u \in Threads, threads'[u].at = "sending",
                      NEW n, n = threads'[u].message
               PROVE  /\ IsMessage(n)' /\ n.rv = roomVersion'
                      /\ n.bv # 0 => Fighting(n.player)'
                      /\ n.player \in Players => shown'[n.player].bv <= n.bv
                      /\ \A w \in Threads : threads'[w].at = "battle" =>
                             \A o \in Range(threads'[w].todo) : o.player # n.player
    BY DEF RoomSends, IsMessage
  <2>1. threads'[u] = threads[u] BY <1>5, <1>6 DEF Step
  <2>2. /\ IsMessage(n) /\ n.rv = roomVersion
        /\ n.bv # 0 => Fighting(n.player)
        /\ n.player \in Players => shown[n.player].bv <= n.bv
        /\ \A o \in Range(q) : o.player # n.player
    BY <1>1, <1>2, <2>1 DEF RoomSends
  <2>3. n.player # m.player BY <1>10, <2>1
  <2>4. \A w \in Threads : threads'[w].at = "battle" => w = t BY <1>5, <1>12 DEF Step
  <2> QED BY <1>1, <1>6, <1>8, <1>11, <2>2, <2>3, <2>4 DEF IsMessage, Fighting
<1>17. BattleSends'
  <2>1. \A w \in Threads : threads'[w].at = "battle" => w = t BY <1>5, <1>12 DEF Step
  <2>2. \A n \in Range(r) :
            /\ IsMessage(n) /\ n.bv = battleVersion /\ Fighting(n.player)
            /\ n.player \in Players => shown[n.player].rv <= n.rv
            /\ n.player = m.player => n = m
    BY <1>1, <1>2, <1>7, <1>8 DEF BattleSends
  <2>3. \A n \in Range(r) :
            /\ IsMessage(n)' /\ n.bv = battleVersion' /\ Fighting(n.player)'
            /\ n.player \in Players => shown'[n.player].rv <= n.rv
    <3> SUFFICES ASSUME NEW n \in Range(r)
                 PROVE  /\ IsMessage(n)' /\ n.bv = battleVersion' /\ Fighting(n.player)'
                        /\ n.player \in Players => shown'[n.player].rv <= n.rv
      OBVIOUS
    <3>1. /\ IsMessage(n) /\ n.bv = battleVersion /\ Fighting(n.player)
          /\ n.player \in Players => shown[n.player].rv <= n.rv
          /\ n.player = m.player => n = m
      BY <2>2
    <3>2. roomVersion \in Nat BY <1>2 DEF Snapshots
    <3>3. m.rv \in 0..roomVersion BY <1>7 DEF IsMessage
    <3> QED BY <1>1, <1>11, <3>1, <3>2, <3>3 DEF IsMessage, Fighting
  <2>4. \A o, n \in Range(r) : o.player = n.player => o = n
    BY <1>1, <1>2, <1>8 DEF BattleSends
  <2> QED BY <1>6, <2>1, <2>3, <2>4 DEF BattleSends
<1>18. Forward
  <2> SUFFICES ASSUME NEW p \in Players
               PROVE  shown'[p].rv >= shown[p].rv /\ shown'[p].bv >= shown[p].bv
    BY DEF Forward
  <2>1. shown[p].rv \in 0..roomVersion /\ shown[p].bv \in 0..battleVersion
    BY <1>2 DEF OnScreen, IsMessage
  <2>2. roomVersion \in Nat /\ battleVersion \in Nat BY <1>2 DEF Snapshots
  <2>3. m.rv \in 0..roomVersion BY <1>7 DEF IsMessage
  <2>4. CASE p = m.player BY <1>7, <1>11, <2>1, <2>2, <2>3, <2>4
  <2>5. CASE p # m.player BY <1>11, <2>1, <2>2, <2>5
  <2> QED BY <2>4, <2>5
<1>19. ASSUME Tracked, NEW x \in Players PROVE ToBeMade(x)' \/ UpToDate(x)'
  <2>1. Fresh(x)' = Fresh(x) BY <1>1 DEF Fresh
  <2>2. Carried(t) = Range(q) /\ Carried(t)' = Range(r) BY <1>1, <1>6 DEF Carried
  <2>3. \A u \in Threads : u # t => Carried(u)' = Carried(u) BY <1>5 DEF Carried, Step
  <2>4. CASE ToBeMade(x)
    <3>1. \A u \in Threads : InRoom(u) \/ threads[u].at = "find" => threads'[u] = threads[u]
      BY <1>1, <1>5 DEF Step, InRoom
    <3> QED BY <1>1, <2>4, <3>1 DEF ToBeMade, Fighting, InRoom
  <2>5. CASE UpToDate(x)
    <3>1. \A u \in Threads : \A n \in Carried(u)' : n.player = x => n.status = Fresh(x)
      BY <1>8, <2>2, <2>3, <2>5 DEF UpToDate
    <3>2. ASSUME \A u \in Threads : \A n \in Carried(u)' : n.player # x
          PROVE  shown'[x].status = Fresh(x)
      <4>1. CASE x = m.player
        <5>1. m.status = Fresh(x) BY <1>4, <2>2, <2>5, <4>1 DEF UpToDate
        <5> QED BY <1>11, <4>1, <5>1
      <4>2. CASE x # m.player
        <5>1. \A u \in Threads : \A n \in Carried(u) : n.player # x
          BY <1>9, <2>2, <2>3, <3>2, <4>2
        <5> QED BY <1>11, <2>5, <4>2, <5>1 DEF UpToDate
      <4> QED BY <4>1, <4>2
    <3> QED BY <2>1, <3>1, <3>2 DEF UpToDate
  <2> QED BY <1>19, <2>4, <2>5 DEF Tracked
<1> QED BY <1>13, <1>14, <1>15, <1>16, <1>17, <1>18, <1>19 DEF Ordered, Tracked

LEMMA BattlePublished ==
    ASSUME Ordered, NEW t \in Threads, BattleDone(t)
    PROVE  Ordered' /\ Forward /\ (Tracked => Tracked')
<1>1. /\ threads[t].at = "battle" /\ threads[t].todo = <<>>
      /\ apMutex' = Free /\ threads' = [threads EXCEPT ![t] = Idle]
      /\ UNCHANGED <<room, battle, roomVersion, battleVersion, roomMutex, shown>>
  BY DEF BattleDone
<1>2. Snapshots /\ Locks /\ OnScreen /\ RoomSends /\ BattleSends BY DEF Ordered
<1>3. threads'[t] = Idle /\ Step(t) BY <1>1, <1>2 DEF Step, Locks
<1>4. threads'[t].at = "idle" BY <1>3 DEF Idle
<1>5. apMutex = t /\ roomMutex # t BY <1>1, <1>2 DEF Locks, Holds, InRoom, InBattle
<1>6. \A u \in Threads : u # t => ~InBattle(u) /\ threads[u].at \notin {"find", "battle"}
  BY <1>2, <1>5 DEF Locks, Holds, InBattle
<1>7. Snapshots' BY <1>1, <1>2 DEF Snapshots
<1>8. Locks'
  <2>1. \A u \in Threads : u # Free BY LiveAssumption DEF LiveAssumption
  <2>2. Holds(t)' BY <1>1, <1>3, <1>4, <1>5, <2>1 DEF Holds, InRoom, InBattle
  <2>3. ASSUME NEW u \in Threads, u # t PROVE Holds(u)'
    <3>1. threads'[u] = threads[u] BY <1>3, <2>3 DEF Step
    <3>2. Holds(u) BY <1>2 DEF Locks
    <3> QED BY <1>1, <1>6, <2>1, <2>3, <3>1, <3>2 DEF Holds, InRoom, InBattle
  <2> QED BY <1>3, <2>2, <2>3 DEF Locks, Step
<1>9. OnScreen' BY <1>1, <1>2 DEF OnScreen, IsMessage, Fighting
<1>10. \A u \in Threads : threads'[u].at # "battle" BY <1>3, <1>4, <1>6 DEF Step
<1>11. RoomSends'
  <2>1. \A u \in Threads : threads'[u].at = "sending" => threads'[u] = threads[u]
    BY <1>3, <1>4 DEF Step
  <2> QED BY <1>1, <1>2, <1>10, <2>1 DEF RoomSends, IsMessage, Fighting
<1>12. BattleSends' BY <1>10 DEF BattleSends
<1>13. Forward BY <1>1, <1>2 DEF Forward, OnScreen, IsMessage, Snapshots
<1>14. ASSUME Tracked, NEW x \in Players PROVE ToBeMade(x)' \/ UpToDate(x)'
  <2>1. Fresh(x)' = Fresh(x) BY <1>1 DEF Fresh
  <2>2. \A u \in Threads : Carried(u)' = Carried(u)
    <3>1. Range(<<>>) = {} BY DEF Range
    <3> QED BY <1>1, <1>3, <1>4, <3>1 DEF Carried, Step
  <2>3. CASE ToBeMade(x)
    <3>1. \A u \in Threads : InRoom(u) \/ threads[u].at = "find" => threads'[u] = threads[u]
      BY <1>1, <1>3 DEF Step, InRoom
    <3> QED BY <1>1, <2>3, <3>1 DEF ToBeMade, Fighting, InRoom
  <2>4. CASE UpToDate(x) BY <1>1, <2>1, <2>2, <2>4 DEF UpToDate
  <2> QED BY <1>14, <2>3, <2>4 DEF Tracked
<1> QED BY <1>7, <1>8, <1>9, <1>11, <1>12, <1>13, <1>14 DEF Ordered, Tracked

-----------------------------------------------------------------------------
\* The client that unbinds a device is the one no status is published for
\* (finding 5): without it a page ends up current.
NoUnbinding == \A e \in RoomCommands : e.type # "room_device_unbound"

LEMMA OrderedInductive ==
    /\ Ordered /\ [Next]_vars => Ordered' /\ [Forward]_vars
    /\ NoUnbinding /\ Ordered /\ Tracked /\ [Next]_vars => Tracked'
<1> SUFFICES ASSUME Ordered, [Next]_vars
             PROVE  Ordered' /\ [Forward]_vars /\ (NoUnbinding /\ Tracked => Tracked')
  OBVIOUS
<1>1. ASSUME NEW t \in Threads, NEW e \in RoomCommands, SubmitRoom(t, e)
      PROVE  Ordered' /\ Forward /\ (NoUnbinding /\ Tracked => Tracked')
  BY <1>1, RoomSubmitted DEF NoUnbinding
<1>2. CASE UNCHANGED vars
  BY <1>2 DEF vars, Ordered, Tracked, Snapshots, Locks, Holds, InRoom, InBattle, OnScreen,
              RoomSends, BattleSends, IsMessage, Fighting, ToBeMade, UpToDate, Carried, Fresh
<1> QED
  BY <1>1, <1>2, RoomStatusMade, RoomStatusSent, RoomPublished, BattleSubmitted,
     RoomFound, BattleStatusSent, BattlePublished DEF Next

\* However many threads publish statuses of a player from the two runtimes,
\* no page ever goes back to one made from an older room or battle.
THEOREM PagesMoveForward == Spec => PageOnlyMovesForward
<1>1. Init => Ordered BY InitOrdered
<1>2. Ordered /\ [Next]_vars => Ordered' /\ [Forward]_vars BY OrderedInductive
<1>3. [Forward]_vars => [\A p \in Players : shown'[p].rv >= shown[p].rv
                                            /\ shown'[p].bv >= shown[p].bv]_vars
  BY DEF Forward
<1> QED BY <1>1, <1>2, <1>3, PTL DEF Spec, PageOnlyMovesForward

\* If no device is unbound, then whenever no command is in progress a page
\* shows of every player what a query would answer.
THEOREM PagesEndCurrent == NoUnbinding => (Spec => []PageIsCurrent)
<1> SUFFICES ASSUME NoUnbinding PROVE Spec => []PageIsCurrent OBVIOUS
<1>1. Init => Ordered /\ Tracked BY InitOrdered
<1>2. Ordered /\ Tracked /\ [Next]_vars => Ordered' /\ Tracked' BY OrderedInductive
<1>3. Ordered /\ Tracked => PageIsCurrent
  <2> SUFFICES ASSUME Ordered, Tracked, \A t \in Threads : ~Busy(t), NEW p \in Players
               PROVE  shown[p].status = Fresh(p)
    BY DEF PageIsCurrent, Fresh
  <2>1. \A t \in Threads : threads[t].at = "idle" BY DEF Busy, Idle
  <2>2. ~ToBeMade(p) BY <2>1 DEF ToBeMade, InRoom
  <2>3. \A t \in Threads : Carried(t) = {} BY <2>1 DEF Carried
  <2> QED BY <2>2, <2>3 DEF Tracked, UpToDate
<1> QED BY <1>1, <1>2, <1>3, PTL DEF Spec

=============================================================================
