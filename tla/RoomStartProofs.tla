-------------------------- MODULE RoomStartProofs --------------------------
(***************************************************************************)
(* What RoomStart promises, for any number of rooms, players, threads and  *)
(* commands, any clock, and any number of crashes and failed appends.      *)
(***************************************************************************)
EXTENDS RoomStart, DataLemmas

-----------------------------------------------------------------------------
(* What the two reducers leave alone.                                      *)

\* No event of a handler's making takes a room out of play, or changes its
\* roster or its battle while it is.
LEMMA RoomSteps ==
    ASSUME NEW r, RoomFields(r), NEW e, RoomAccepts(r, e), e.type # "room_ended",
           NEW s, s = RoomApply(r, e)
    PROVE  /\ RoomFields(s)
           /\ r.phase = "active" => /\ s.phase = "active" /\ s.players = r.players
                                    /\ s.battle = r.battle /\ e.type # "room_started"
<1>1. /\ r = [phase |-> r.phase, max |-> r.max, caps |-> r.caps, players |-> r.players,
              devices |-> r.devices, positions |-> r.positions, battle |-> r.battle]
      /\ IsFiniteSet(DOMAIN r.players)
  BY DEF RoomFields
<1>2. CASE e.type = "room_created"
  <2>1. RoomCreatedAccepted(r, e) /\ s = AfterRoomCreated(r, e)
    BY <1>2 DEF RoomAccepts, RoomApply
  <2>2. DOMAIN s.players = {} BY <2>1 DEF AfterRoomCreated, NewRoom, EmptyMap
  <2>3. IsFiniteSet(DOMAIN s.players) BY <2>2, FS_EmptySet
  <2> QED BY <2>1, <2>3 DEF RoomCreatedAccepted, AfterRoomCreated, NewRoom, RoomFields
<1>3. CASE e.type = "room_player_joined"
  <2>1. JoinAccepted(r, e) /\ s = AfterJoined(r, e) BY <1>3 DEF RoomAccepts, RoomApply
  <2>2. DOMAIN s.players = DOMAIN r.players \cup {e.player}
    BY <1>1, <2>1 DEF AfterJoined, Put
  <2>3. IsFiniteSet(DOMAIN s.players) BY <1>1, <2>2, FS_AddElement
  <2> QED BY <1>1, <2>1, <2>3 DEF JoinAccepted, Open, AfterJoined, RoomFields
<1>4. CASE e.type = "room_player_left"
  <2>1. PlayerLeftAccepted(r, e) /\ s = AfterLeft(r, e) BY <1>4 DEF RoomAccepts, RoomApply
  <2>2. DOMAIN s.players \subseteq DOMAIN r.players BY <1>1, <2>1 DEF AfterLeft, Drop
  <2>3. IsFiniteSet(DOMAIN s.players) BY <1>1, <2>2, FS_Subset
  <2> QED BY <1>1, <2>1, <2>3 DEF PlayerLeftAccepted, Open, AfterLeft, RoomFields
<1>5. CASE e.type = "room_player_team_changed"
  <2>1. TeamChangedAccepted(r, e) /\ s = AfterTeamChanged(r, e)
    BY <1>5 DEF RoomAccepts, RoomApply
  <2> QED BY <1>1, <2>1 DEF TeamChangedAccepted, Open, AfterTeamChanged, RoomFields
<1>6. CASE e.type = "room_player_ready_changed"
  <2>1. ReadyChangedAccepted(r, e) /\ s = AfterReadyChanged(r, e)
    BY <1>6 DEF RoomAccepts, RoomApply
  <2> QED BY <1>1, <2>1 DEF ReadyChangedAccepted, Open, AfterReadyChanged, RoomFields
<1>7. CASE e.type = "room_device_registered"
  <2>1. DeviceRegisteredAccepted(r, e) /\ s = AfterDeviceRegistered(r, e)
    BY <1>7 DEF RoomAccepts, RoomApply
  <2> QED BY <1>1, <2>1 DEF DeviceRegisteredAccepted, Open, AfterDeviceRegistered, RoomFields
<1>8. CASE e.type = "room_device_heartbeat_updated"
  <2>1. s = AfterHeartbeat(r, e) BY <1>8 DEF RoomAccepts, RoomApply
  <2> QED BY <1>1, <1>8, <2>1 DEF AfterHeartbeat, RoomFields
<1>9. CASE e.type = "room_device_bound"
  <2>1. DeviceBoundAccepted(r, e) /\ s = AfterDeviceBound(r, e)
    BY <1>9 DEF RoomAccepts, RoomApply
  <2> QED BY <1>1, <2>1 DEF DeviceBoundAccepted, Open, AfterDeviceBound, RoomFields
<1>10. CASE e.type = "room_device_unbound"
  <2>1. DeviceUnboundAccepted(r, e) /\ s = AfterDeviceUnbound(r, e)
    BY <1>10 DEF RoomAccepts, RoomApply
  <2> QED BY <1>1, <2>1 DEF DeviceUnboundAccepted, Open, AfterDeviceUnbound, RoomFields
<1>11. CASE e.type = "room_player_position_updated"
  <2>1. s = AfterPositionUpdated(r, e) BY <1>11 DEF RoomAccepts, RoomApply
  <2> QED BY <1>1, <1>11, <2>1 DEF AfterPositionUpdated, RoomFields
<1>12. CASE e.type = "room_started"
  <2>1. RoomStartedAccepted(r, e) /\ s = AfterRoomStarted(r, e)
    BY <1>12 DEF RoomAccepts, RoomApply
  <2> QED BY <1>1, <2>1 DEF RoomStartedAccepted, Open, AfterRoomStarted, RoomFields
<1>13. CASE e.type = "room_closed"
  <2>1. RoomClosedAccepted(r, e) /\ s = AfterRoomClosed(r, e)
    BY <1>13 DEF RoomAccepts, RoomApply
  <2> QED BY <1>1, <2>1 DEF RoomClosedAccepted, AfterRoomClosed, RoomFields
<1> QED
  BY <1>2, <1>3, <1>4, <1>5, <1>6, <1>7, <1>8, <1>9, <1>10, <1>11, <1>12, <1>13
  DEF RoomAccepts

\* A start leaves the roster as it was, and somebody in it.
LEMMA StartSteps ==
    ASSUME NEW r, RoomFields(r), NEW e, RoomAccepts(r, e), e.type = "room_started",
           NEW s, s = RoomApply(r, e)
    PROVE  /\ r.phase = "open" /\ s.phase = "active" /\ s.battle = e.battle
           /\ s.players = r.players /\ DOMAIN s.players # {}
<1>1. RoomStartedAccepted(r, e) /\ s = AfterRoomStarted(r, e)
  BY DEF RoomAccepts, RoomApply
<1>2. r = [phase |-> r.phase, max |-> r.max, caps |-> r.caps, players |-> r.players,
           devices |-> r.devices, positions |-> r.positions, battle |-> r.battle]
  BY DEF RoomFields
<1> QED BY <1>1, <1>2 DEF RoomStartedAccepted, Open, AfterRoomStarted

\* PlayerState and BattleState.
PlayerFields(x) ==
    x = [team |-> x.team, health |-> x.health, ammo |-> x.ammo, alive |-> x.alive,
         shots |-> x.shots, hits |-> x.hits]
BattleFields(b) ==
    /\ b = [phase |-> b.phase, players |-> b.players, score |-> b.score]
    /\ \A p \in DOMAIN b.players : PlayerFields(b.players[p])

\* An event that is no join and no start leaves the roster alone, and a
\* battle that has not begun takes none.
LEMMA PlaySteps ==
    ASSUME NEW b, BattleFields(b), NEW e, Rules!BattleAccepts(b, e),
           e.type \notin {"player_joined", "battle_started"},
           NEW c, c = Rules!BattleApply(b, e)
    PROVE  /\ BattleFields(c) /\ b.phase # "lobby" /\ c.phase # "lobby"
           /\ DOMAIN c.players = DOMAIN b.players
           /\ \A p \in DOMAIN b.players : c.players[p].team = b.players[p].team
<1>1. /\ b = [phase |-> b.phase, players |-> b.players, score |-> b.score]
      /\ \A p \in DOMAIN b.players : PlayerFields(b.players[p])
  BY DEF BattleFields
<1>2. CASE e.type = "shot"
  <2>1. Rules!ShotAccepted(b, e) /\ c = Rules!AfterShot(b, e)
    BY <1>2 DEF Rules!BattleAccepts, Rules!BattleApply
  <2>2. c = [phase |-> b.phase, score |-> b.score,
             players |-> [b.players EXCEPT ![e.player].shots = @ + 1, ![e.player].ammo = e.ammo]]
    BY <1>1, <2>1 DEF Rules!AfterShot
  <2> QED BY <1>1, <2>1, <2>2
          DEF Rules!ShotAccepted, Rules!InPlay, BattleFields, PlayerFields
<1>3. CASE e.type = "hit"
  <2>1. Rules!HitAccepted(b, e) /\ c = Rules!AfterHit(b, e)
    BY <1>3 DEF Rules!BattleAccepts, Rules!BattleApply
  <2> DEFINE left == Rules!NotBelowZero(b.players[e.target].health - e.damage)
             up == left > 0
             hurt == [b.players EXCEPT ![e.target].health = left, ![e.target].alive = up]
  <2>2. /\ c.players = [hurt EXCEPT ![e.attacker].hits = @ + 1]
        /\ c = [phase |-> b.phase, players |-> c.players, score |-> c.score]
    BY <1>1, <2>1 DEF Rules!AfterHit
  <2> HIDE DEF left, up
  <2>3. /\ DOMAIN hurt = DOMAIN b.players
        /\ \A p \in DOMAIN b.players : PlayerFields(hurt[p]) /\ hurt[p].team = b.players[p].team
    BY <1>1 DEF PlayerFields
  <2> HIDE DEF hurt
  <2>4. /\ DOMAIN c.players = DOMAIN b.players
        /\ \A p \in DOMAIN b.players :
               PlayerFields(c.players[p]) /\ c.players[p].team = b.players[p].team
    <3>1. PICK n : c.players = [hurt EXCEPT ![e.attacker].hits = n] BY <2>2
    <3>2. ASSUME NEW x, PlayerFields(x), NEW h, NEW y, y = [x EXCEPT !.hits = h]
          PROVE  PlayerFields(y) /\ y.team = x.team
      BY <3>2 DEF PlayerFields
    <3>3. ASSUME NEW p \in DOMAIN b.players
          PROVE  PlayerFields(c.players[p]) /\ c.players[p].team = b.players[p].team
      <4>1. c.players[p] = hurt[p] \/ c.players[p] = [hurt[p] EXCEPT !.hits = n]
        BY <2>3, <3>1
      <4> QED BY <2>3, <3>2, <4>1
    <3> QED BY <2>3, <3>1, <3>3
  <2>5. BattleFields(c) /\ c.phase = b.phase
    <3>1. PICK players, score : c = [phase |-> b.phase, players |-> players, score |-> score]
      BY <2>2
    <3> QED BY <2>4, <3>1 DEF BattleFields
  <2> QED BY <2>1, <2>4, <2>5 DEF Rules!HitAccepted, Rules!InPlay
<1>4. CASE e.type = "player_state"
  <2>1. Rules!PlayerStateAccepted(b, e) /\ c = Rules!AfterPlayerState(b, e)
    BY <1>4 DEF Rules!BattleAccepts, Rules!BattleApply
  <2> DEFINE health == Rules!NotBelowZero(e.health)
             up == e.alive /\ health > 0
  <2>2. c = [phase |-> b.phase, score |-> b.score,
             players |-> [b.players EXCEPT ![e.player].health = health,
                                           ![e.player].ammo = e.ammo,
                                           ![e.player].alive = up]]
    BY <1>1, <2>1 DEF Rules!AfterPlayerState
  <2> HIDE DEF health, up
  <2>3. /\ DOMAIN c.players = DOMAIN b.players
        /\ \A p \in DOMAIN b.players :
               PlayerFields(c.players[p]) /\ c.players[p].team = b.players[p].team
    BY <1>1, <2>2 DEF PlayerFields
  <2> QED BY <1>1, <2>1, <2>2, <2>3 DEF Rules!PlayerStateAccepted, Rules!InPlay, BattleFields
<1>5. CASE e.type \in {"battle_ended", "battle_paused", "battle_resumed"}
  <2>1. /\ b.phase \in {"active", "paused"}
        /\ \E phase \in {"ended", "paused", "active"} : c = Rules!AfterPhase(b, phase)
    BY <1>5 DEF Rules!BattleAccepts, Rules!BattleApply, Rules!BattleEndedAccepted,
                Rules!BattlePausedAccepted, Rules!BattleResumedAccepted
  <2> QED BY <1>1, <2>1 DEF Rules!AfterPhase, BattleFields, PlayerFields
<1> QED BY <1>2, <1>3, <1>4, <1>5 DEF Rules!BattleAccepts

LEMMA JoinSteps ==
    ASSUME NEW b, BattleFields(b), NEW e, Rules!BattleAccepts(b, e),
           e.type = "player_joined", NEW c, c = Rules!BattleApply(b, e)
    PROVE  /\ BattleFields(c) /\ b.phase = "lobby" /\ c.phase = "lobby"
           /\ DOMAIN c.players = DOMAIN b.players \cup {e.player}
           /\ c.players[e.player].team = e.team
           /\ \A p \in DOMAIN b.players : c.players[p].team = b.players[p].team
<1>1. /\ b = [phase |-> b.phase, players |-> b.players, score |-> b.score]
      /\ \A p \in DOMAIN b.players : PlayerFields(b.players[p])
  BY DEF BattleFields
<1>2. Rules!PlayerJoinedAccepted(b, e) /\ c = Rules!AfterPlayerJoined(b, e)
  BY DEF Rules!BattleAccepts, Rules!BattleApply
<1>3. PICK x, score : /\ x = Rules!NewPlayer(e.team)
                      /\ c = [phase |-> b.phase, score |-> score,
                              players |-> Rules!Put(b.players, e.player, x)]
  BY <1>1, <1>2 DEF Rules!AfterPlayerJoined
<1>4. PlayerFields(x) /\ x.team = e.team BY <1>3 DEF Rules!NewPlayer, PlayerFields
<1> QED BY <1>1, <1>2, <1>3, <1>4
        DEF Rules!PlayerJoinedAccepted, Rules!Registered, Rules!Put, BattleFields

LEMMA BattleStartSteps ==
    ASSUME NEW b, BattleFields(b), NEW e, Rules!BattleAccepts(b, e),
           e.type = "battle_started", NEW c, c = Rules!BattleApply(b, e)
    PROVE  /\ BattleFields(c) /\ b.phase = "lobby" /\ c.phase # "lobby"
           /\ c.players = b.players
<1>1. b = [phase |-> b.phase, players |-> b.players, score |-> b.score]
  BY DEF BattleFields
<1>2. Rules!BattleStartedAccepted(b, e) /\ c = Rules!AfterPhase(b, "active")
  BY DEF Rules!BattleAccepts, Rules!BattleApply
<1> QED BY <1>1, <1>2 DEF Rules!BattleStartedAccepted, Rules!AfterPhase, BattleFields

-----------------------------------------------------------------------------
(* What a commit leaves in a runtime's memory.                             *)

MemoryFields(m) ==
    m = [streams |-> m.streams, accepted |-> m.accepted, latest |-> m.latest, acc |-> m.acc]

\* The accepted events have a new one.
Grown(m, e, n) ==
    /\ DOMAIN n.accepted = DOMAIN m.accepted \cup {e.id}
    /\ e.id \notin DOMAIN m.accepted /\ n.accepted[e.id] = e
    /\ \A id \in DOMAIN m.accepted : n.accepted[id] = m.accepted[id]

LEMMA RoomCommit ==
    ASSUME NEW m, MemoryFields(m), NEW e, RoomRuntime!Verdict(m, e) = "accepted",
           NEW n, n = RoomRuntime!Commit(m, e)
    PROVE  /\ MemoryFields(n) /\ Grown(m, e, n)
           /\ RoomAccepts(RoomRuntime!StreamState(m, e.stream), e.body)
           /\ DOMAIN n.streams = DOMAIN m.streams \cup {e.stream}
           /\ n.streams[e.stream] = RoomApply(RoomRuntime!StreamState(m, e.stream), e.body)
           /\ \A s \in DOMAIN m.streams \ {e.stream} : n.streams[s] = m.streams[s]
<1>1. /\ e.id \notin DOMAIN m.accepted
      /\ RoomAccepts(RoomRuntime!StreamState(m, e.stream), e.body)
  BY DEF RoomRuntime!Verdict, RoomRuntime!Known
<1>2. PICK b : b = RoomApply(RoomRuntime!StreamState(m, e.stream), e.body) OBVIOUS
<1>3. n = [streams |-> RoomRuntime!Put(m.streams, e.stream, b),
           accepted |-> RoomRuntime!PutNew(m.accepted, e.id, e),
           latest |-> RoomRuntime!Put(m.latest, e.source, e.seq),
           acc |-> m.acc + 1]
  BY <1>2 DEF RoomRuntime!Commit
<1> QED BY <1>1, <1>2, <1>3
        DEF MemoryFields, Grown, RoomRuntime!Put, RoomRuntime!PutNew

LEMMA BattleCommit ==
    ASSUME NEW m, MemoryFields(m), NEW e, ApRuntime!Verdict(m, e) = "accepted",
           NEW n, n = ApRuntime!Commit(m, e)
    PROVE  /\ MemoryFields(n) /\ Grown(m, e, n)
           /\ AcceptsBody(ApRuntime!StreamState(m, e.stream), e.body)
           /\ DOMAIN n.streams = DOMAIN m.streams \cup {e.stream}
           /\ n.streams[e.stream]
                  = Rules!BattleApply(ApRuntime!StreamState(m, e.stream), e.body)
           /\ \A s \in DOMAIN m.streams \ {e.stream} : n.streams[s] = m.streams[s]
           /\ DOMAIN n.latest = DOMAIN m.latest \cup {e.source}
           /\ n.latest[e.source] = e.seq
           /\ \A s \in DOMAIN m.latest \ {e.source} : n.latest[s] = m.latest[s]
           /\ e.source \in DOMAIN m.latest => ~(e.seq <= m.latest[e.source])
<1>1. /\ e.id \notin DOMAIN m.accepted
      /\ AcceptsBody(ApRuntime!StreamState(m, e.stream), e.body)
      /\ e.source \in DOMAIN m.latest => ~(e.seq <= m.latest[e.source])
  BY DEF ApRuntime!Verdict, ApRuntime!Known, ApRuntime!Stale
<1>2. PICK b : b = Rules!BattleApply(ApRuntime!StreamState(m, e.stream), e.body) OBVIOUS
<1>3. n = [streams |-> ApRuntime!Put(m.streams, e.stream, b),
           accepted |-> ApRuntime!PutNew(m.accepted, e.id, e),
           latest |-> ApRuntime!Put(m.latest, e.source, e.seq),
           acc |-> m.acc + 1]
  BY <1>2 DEF ApRuntime!Commit
<1> QED BY <1>1, <1>2, <1>3
        DEF MemoryFields, Grown, ApRuntime!Put, ApRuntime!PutNew

-----------------------------------------------------------------------------
(* The invariant.                                                          *)

RoomsKept ==
    /\ MemoryFields(roomMemory)
    /\ \A r \in Rooms : RoomFields(Room(r))
    /\ \A id \in DOMAIN roomMemory.accepted : roomMemory.accepted[id].id = id

\* The event e may be submitted for the command c.
MadeFor(c, e) == DoneBy(c, e) /\ e.body.type # "room_ended"

Setting(w) == workers[w].at = "setup"

\* A thread that sets a battle up goes by the room as it was started, and as
\* it still is.
Handler(w) ==
    LET k == workers[w]
    IN  /\ k.at \in {"idle", "composing", "stamped", "setup"}
        /\ k.at = "composing" =>
            /\ k = [at |-> "composing", command |-> k.command, event |-> k.event]
            /\ Envelope(k.event) /\ MadeFor(k.command, k.event)
            /\ \A field \in {"id", "source", "seq", "time"} :
                   k.event[field] = k.command[field]
        /\ k.at = "stamped" =>
            /\ k = [at |-> "stamped", command |-> k.command, event |-> k.event]
            /\ MadeFor(k.command, k.event)
        /\ k.at = "setup" =>
            /\ k = [at |-> "setup", room |-> k.room, battle |-> Room(k.room).battle,
                    players |-> Room(k.room).players, todo |-> k.todo,
                    sequence |-> k.sequence]
            /\ k.room \in Rooms /\ Room(k.room).phase = "active"
            /\ Listed(k.todo) /\ Range(k.todo) \subseteq DOMAIN k.players

Handlers == DOMAIN workers = Workers /\ \A w \in Workers : Handler(w)

Events == {battleMemory.accepted[id] : id \in DOMAIN battleMemory.accepted}
Numbered == "ap-room-start" \in DOMAIN battleMemory.latest
LastNumber == battleMemory.latest["ap-room-start"]

Joins(e, b, p) == e.stream = b /\ e.body.type = "player_joined" /\ e.body.player = p
Starts(e, b) == e.stream = b /\ e.body.type = "battle_started"
InTeam(b, p, team) ==
    p \in DOMAIN Battle(b).players /\ Battle(b).players[p].team = team

\* The rooms' envelopes have one source, whose numbers are used once.
NumbersOnce ==
    /\ Numbered => LastNumber \in Int
    /\ \A e \in Events : e.source = "ap-room-start" =>
           Numbered /\ e.seq \in Int /\ e.seq <= LastNumber
    /\ \A e, f \in Events : /\ e.source = "ap-room-start" /\ f.source = "ap-room-start"
                            /\ e.seq = f.seq
                            => e = f

\* What a battle has come to, some accepted event did.
BattlesKept ==
    /\ MemoryFields(battleMemory)
    /\ \A b \in DOMAIN battleMemory.streams : BattleFields(Battle(b))
    /\ \A id \in DOMAIN battleMemory.accepted : battleMemory.accepted[id].id = id
    /\ NumbersOnce
    /\ \A e \in Events : \A b : Starts(e, b) => Playing(b)
    /\ \A e \in Events : \A b, p : Joins(e, b, p) => InTeam(b, p, e.body.team)
    /\ \A b : Playing(b) => \E e \in Events : Starts(e, b)
    /\ \A b : \A p \in DOMAIN Battle(b).players : \E e \in Events : Joins(e, b, p)

\* The first envelope of the source, of which there is one, was the room r's.
Opened(r) ==
    \E e \in Events : /\ e.source = "ap-room-start" /\ e.seq = 1
                      /\ e.id = <<r, "join", e.body.player>>

\* The set-up of the room r has submitted e.
SetUpBy(r, e) ==
    /\ Room(r).phase = "active" /\ Room(r).battle = e.stream /\ Opened(r)
    /\ \/ /\ e.body.type = "player_joined" /\ e.body.player \in DOMAIN Room(r).players
          /\ e.body.team = Room(r).players[e.body.player].team
       \/ /\ e.body.type = "battle_started"
          /\ \A p \in DOMAIN Room(r).players :
                 InTeam(e.stream, p, Room(r).players[p].team)

Origin(e) == e \in Posts \/ \E r \in Rooms : SetUpBy(r, e)
Origins == \A e \in Events : Origin(e)

\* How far the thread has come: only a room whose first envelope was the
\* source's first gets any further.
Progress(w) ==
    LET k == workers[w]
    IN  /\ k.sequence \in Nat \ {0}
        /\ k.sequence = 1 => k.todo # <<>>
        /\ k.sequence > 1 => Opened(k.room)
        /\ \A p \in DOMAIN k.players \ Range(k.todo) :
               InTeam(k.battle, p, k.players[p].team)

Setups == \A w \in Workers : Setting(w) => Progress(w)

Inv == RoomsKept /\ Handlers /\ ToldIsDone /\ BattlesKept /\ Origins /\ Setups
       /\ AnsweredStartIsPlaying

-----------------------------------------------------------------------------
LEMMA Untouched ==
    \A b : b \notin DOMAIN battleMemory.streams =>
        Battle(b).phase = "lobby" /\ DOMAIN Battle(b).players = {}
BY DEF Battle, ApRuntime!StreamState, Rules!NewBattle, Rules!EmptyMap

LEMMA InitInv == Init => Inv
<1> SUFFICES ASSUME Init PROVE Inv OBVIOUS
<1>1. PICK rooms \in InitialRooms : roomMemory = [RoomRuntime!NoMemory EXCEPT !.streams = rooms]
  BY DEF Init
<1>2. /\ roomMemory = [streams |-> rooms, accepted |-> RoomRuntime!EmptyMap,
                       latest |-> RoomRuntime!EmptyMap, acc |-> 0]
      /\ battleMemory = [streams |-> ApRuntime!EmptyMap, accepted |-> ApRuntime!EmptyMap,
                         latest |-> ApRuntime!EmptyMap, acc |-> 0]
  BY <1>1 DEF Init, RoomRuntime!NoMemory, ApRuntime!NoMemory
<1>3. /\ DOMAIN roomMemory.accepted = {} /\ DOMAIN battleMemory.accepted = {}
      /\ DOMAIN battleMemory.streams = {} /\ DOMAIN battleMemory.latest = {}
      /\ \A w \in Workers : workers[w] = Idle /\ ~Setting(w)
  BY <1>2 DEF Init, RoomRuntime!EmptyMap, ApRuntime!EmptyMap, Idle, Setting
<1>4. RoomsKept
  <2>1. \A q \in Rooms : RoomFields(Room(q))
    BY <1>1, <1>2, RoomsAssumption DEF RoomsAssumption, Rooms, Room
  <2> QED BY <1>2, <1>3, <2>1 DEF RoomsKept, MemoryFields
<1>5. Handlers BY <1>3 DEF Init, Handlers, Handler, Idle
<1>6. ToldIsDone /\ AnsweredStartIsPlaying BY DEF Init, ToldIsDone, AnsweredStartIsPlaying
<1>7. Events = {} BY <1>3 DEF Events
<1>8. \A b : ~Playing(b) /\ DOMAIN Battle(b).players = {}
  BY <1>3, Untouched DEF Playing
<1>9. BattlesKept
  <2>1. MemoryFields(battleMemory) BY <1>2 DEF MemoryFields
  <2> QED BY <1>3, <1>7, <1>8, <2>1 DEF BattlesKept, NumbersOnce, Numbered
<1>10. Origins /\ Setups BY <1>3, <1>7 DEF Origins, Setups
<1> QED BY <1>4, <1>5, <1>6, <1>9, <1>10 DEF Inv

\* What is said of the battles hangs on their runtime alone.
LEMMA BattlesStand ==
    ASSUME BattlesKept, UNCHANGED battleMemory
    PROVE  /\ BattlesKept' /\ Events' = Events /\ \A b : Playing(b) => Playing(b)'
           /\ \A b, p, team : InTeam(b, p, team) => InTeam(b, p, team)'
<1>1. /\ Events' = Events /\ Numbered' = Numbered /\ LastNumber' = LastNumber
      /\ \A b : Battle(b)' = Battle(b)
  BY DEF Events, Numbered, LastNumber, Battle
<1>2. /\ \A b : Playing(b)' = Playing(b)
      /\ \A b, p, team : InTeam(b, p, team)' = InTeam(b, p, team)
  BY <1>1 DEF Playing, InTeam
<1>3. NumbersOnce' BY <1>1 DEF BattlesKept, NumbersOnce
<1>4. (\A b \in DOMAIN battleMemory.streams : BattleFields(Battle(b)))'
  BY <1>1 DEF BattlesKept
<1>5. MemoryFields(battleMemory)' BY DEF BattlesKept
<1>6. /\ \A e \in Events' : \A b : Starts(e, b) => Playing(b)'
      /\ \A e \in Events' : \A b, p : Joins(e, b, p) => InTeam(b, p, e.body.team)'
      /\ \A b : Playing(b)' => \E e \in Events' : Starts(e, b)
      /\ \A b : \A p \in DOMAIN Battle(b)'.players : \E e \in Events' : Joins(e, b, p)
  BY <1>1, <1>2 DEF BattlesKept
<1>7. (\A id \in DOMAIN battleMemory.accepted : battleMemory.accepted[id].id = id)'
  BY DEF BattlesKept
<1> QED BY <1>1, <1>2, <1>3, <1>4, <1>5, <1>6, <1>7 DEF BattlesKept

\* The rooms that have been started stay as they are.
RoomsGoOn ==
    \A r \in Rooms :
        /\ r \in Rooms'
        /\ Room(r).phase = "active" =>
               /\ Room(r)'.phase = "active" /\ Room(r)'.battle = Room(r).battle
               /\ Room(r)'.players = Room(r).players

\* Events and players come and do not go.
BattlesGoOn ==
    /\ Events \subseteq Events'
    /\ \A b, p, team : InTeam(b, p, team) => InTeam(b, p, team)'

LEMMA OpenedStays ==
    ASSUME BattlesGoOn, NEW r, Opened(r) PROVE Opened(r)'
BY DEF BattlesGoOn, Opened

LEMMA OriginStays ==
    ASSUME RoomsGoOn, BattlesGoOn, NEW e, Origin(e) PROVE Origin(e)'
<1>1. CASE e \in Posts BY <1>1 DEF Origin
<1>2. CASE \E r \in Rooms : SetUpBy(r, e)
  <2>1. PICK r \in Rooms : SetUpBy(r, e) BY <1>2
  <2>2. /\ r \in Rooms' /\ Room(r)'.phase = "active" /\ Room(r)'.battle = Room(r).battle
        /\ Room(r)'.players = Room(r).players /\ Opened(r)'
    BY <2>1, OpenedStays DEF RoomsGoOn, SetUpBy
  <2>3. SetUpBy(r, e)'
    <3>1. CASE e.body.type = "player_joined"
      <4>1. e.body.player \in DOMAIN Room(r).players
            /\ e.body.team = Room(r).players[e.body.player].team
        BY <2>1, <3>1 DEF SetUpBy
      <4> QED BY <2>1, <2>2, <3>1, <4>1 DEF SetUpBy
    <3>2. CASE e.body.type = "battle_started"
      <4>1. \A p \in DOMAIN Room(r).players : InTeam(e.stream, p, Room(r).players[p].team)
        BY <2>1, <3>2 DEF SetUpBy
      <4>2. \A p \in DOMAIN Room(r).players : InTeam(e.stream, p, Room(r).players[p].team)'
        <5> SUFFICES ASSUME NEW p \in DOMAIN Room(r).players
                     PROVE  InTeam(e.stream, p, Room(r).players[p].team)'
          OBVIOUS
        <5>1. PICK team : team = Room(r).players[p].team OBVIOUS
        <5>2. InTeam(e.stream, p, team)' BY <4>1, <5>1 DEF BattlesGoOn
        <5> QED BY <2>2, <5>1, <5>2 DEF InTeam
      <4> QED BY <2>1, <2>2, <3>2, <4>2 DEF SetUpBy
    <3> QED BY <2>1, <3>1, <3>2 DEF SetUpBy
  <2> QED BY <2>2, <2>3 DEF Origin
<1> QED BY <1>1, <1>2 DEF Origin

\* A thread that does not move finds all as it was.
LEMMA HandlerStays ==
    ASSUME Inv, RoomsGoOn, BattlesGoOn, NEW v \in Workers, workers'[v] = workers[v]
    PROVE  Handler(v)' /\ (Setting(v)' => Progress(v)')
<1>1. Handler(v) BY DEF Inv, Handlers
<1>2. CASE workers[v].at = "setup"
  <2>1. /\ workers[v].room \in Rooms' /\ Room(workers[v].room)'.phase = "active"
        /\ Room(workers[v].room)'.battle = Room(workers[v].room).battle
        /\ Room(workers[v].room)'.players = Room(workers[v].room).players
    BY <1>1, <1>2 DEF Handler, RoomsGoOn
  <2>2. Handler(v)' BY <1>1, <1>2, <2>1 DEF Handler, Room
  <2>3. Progress(v) BY <1>2 DEF Inv, Setups, Setting
  <2>4. PICK k : k = workers[v] OBVIOUS
  <2>5. k.sequence > 1 => Opened(k.room)' BY <2>3, <2>4, OpenedStays DEF Progress
  <2>6. \A p \in DOMAIN k.players \ Range(k.todo) :
            InTeam(k.battle, p, k.players[p].team)'
    BY <2>3, <2>4 DEF Progress, BattlesGoOn
  <2>7. Progress(v)' BY <2>3, <2>4, <2>5, <2>6 DEF Progress
  <2> QED BY <2>2, <2>7
<1>3. CASE workers[v].at # "setup" BY <1>1, <1>3 DEF Handler, Setting
<1> QED BY <1>2, <1>3

\* A step in which some threads stop or go on to what is no setting up, and
\* neither runtime does anything.
LEMMA WorkersOnly ==
    ASSUME Inv, UNCHANGED <<roomMemory, battleMemory, answered, told>>,
           DOMAIN workers' = Workers,
           \A w \in Workers : workers'[w] = workers[w] \/ (Handler(w)' /\ ~Setting(w)')
    PROVE  Inv'
<1>1. RoomsKept' /\ ToldIsDone' BY DEF Inv, RoomsKept, Rooms, Room, ToldIsDone
<1>2. BattlesKept' /\ BattlesGoOn /\ Events' = Events /\ \A b : Playing(b) => Playing(b)'
  BY BattlesStand DEF Inv, BattlesGoOn
<1>3. AnsweredStartIsPlaying' BY <1>2 DEF Inv, AnsweredStartIsPlaying
<1>4. RoomsGoOn BY DEF RoomsGoOn, Rooms, Room
<1>5. \A w \in Workers : Handler(w)' /\ (Setting(w)' => Progress(w)')
  BY <1>2, <1>4, HandlerStays
<1>6. Origins' BY <1>2, <1>4, OriginStays DEF Inv, Origins
<1> QED BY <1>1, <1>2, <1>3, <1>5, <1>6 DEF Inv, Handlers, Setups

LEMMA StartComposed ==
    ASSUME Inv, NEW w \in Workers, NEW c \in Requests, ComposeStart(w, c) PROVE Inv'
<1>1. PICK event : /\ event = [c EXCEPT !.body.battle = Generated("battle", clock)]
                   /\ workers' = [workers EXCEPT ![w] =
                         [at |-> "composing", command |-> c, event |-> event]]
  BY DEF ComposeStart
<1>2. /\ c = [id |-> c.id, source |-> c.source, seq |-> c.seq, time |-> c.time,
              stream |-> c.stream, body |-> c.body]
      /\ {"type", "battle"} \subseteq DOMAIN c.body /\ c.body.type = "room_started"
      /\ ~NamesBattle(c)
  BY RequestsAssumption DEF RequestsAssumption, Envelope, ComposeStart, NamesBattle
<1>3. PICK body : /\ body = [c.body EXCEPT !.battle = Generated("battle", clock)]
                  /\ event = [id |-> c.id, source |-> c.source, seq |-> c.seq,
                              time |-> c.time, stream |-> c.stream, body |-> body]
  BY <1>1, <1>2
<1>4. /\ body.type = "room_started" /\ body = [c.body EXCEPT !.battle = body.battle]
  <2>1. body.battle = Generated("battle", clock) BY <1>2, <1>3
  <2> QED BY <1>2, <1>3, <2>1
<1>5. /\ Envelope(event) /\ MadeFor(c, event)
      /\ \A field \in {"id", "source", "seq", "time"} : event[field] = c[field]
  <2>1. Envelope(event) BY <1>3 DEF Envelope
  <2>2. \A field \in {"id", "source", "seq", "time"} : event[field] = c[field]
    BY <1>2, <1>3
  <2>3. MadeFor(c, event) BY <1>2, <1>3, <1>4 DEF MadeFor, DoneBy, Given
  <2> QED BY <2>1, <2>2, <2>3
<1>6. workers'[w] = [at |-> "composing", command |-> c, event |-> event]
      /\ DOMAIN workers' = Workers /\ \A v \in Workers \ {w} : workers'[v] = workers[v]
  BY <1>1 DEF Inv, Handlers
<1>7. Handler(w)' /\ ~Setting(w)' BY <1>5, <1>6 DEF Handler, Setting
<1> QED BY <1>6, <1>7, WorkersOnly DEF ComposeStart, histories

\* Stamping fills in what is missing.
LEMMA StampedEvent ==
    ASSUME NEW c, Envelope(c), NEW t, NEW e, e = Stamped(c, t)
    PROVE  /\ e.stream = c.stream /\ e.body = c.body
           /\ \A field \in {"id", "source", "seq", "time"} :
                  e[field] = Given(c[field], e[field])
<1>1. PICK time, id, source, seq :
        /\ time = Given(c.time, t) /\ id = Given(c.id, Generated("room-evt", time))
        /\ source = Given(c.source, "ap-http") /\ seq = Given(c.seq, time)
  OBVIOUS
<1>2. e = [id |-> id, source |-> source, seq |-> seq, time |-> time,
           stream |-> c.stream, body |-> c.body]
  BY <1>1 DEF Envelope, Stamped
<1> QED BY <1>1, <1>2 DEF Given

LEMMA StartStamped ==
    ASSUME Inv, NEW w \in Workers, StampStart(w) PROVE Inv'
<1>1. PICK c, event : workers[w] = [at |-> "composing", command |-> c, event |-> event]
  BY DEF Inv, Handlers, Handler, StampStart
<1>2. /\ Envelope(event) /\ MadeFor(c, event)
      /\ event.id = c.id /\ event.source = c.source /\ event.seq = c.seq
      /\ event.time = c.time
  BY <1>1 DEF Inv, Handlers, Handler
<1>3. PICK e : e = Stamped(event, clock) OBVIOUS
<1>4. DOMAIN workers = Workers BY DEF Inv, Handlers
<1>5. MadeFor(c, e)
  <2>1. /\ e.stream = event.stream /\ e.body = event.body
        /\ e.id = Given(c.id, e.id) /\ e.source = Given(c.source, e.source)
        /\ e.seq = Given(c.seq, e.seq) /\ e.time = Given(c.time, e.time)
    BY <1>2, <1>3, StampedEvent
  <2> QED BY <1>2, <2>1 DEF MadeFor, DoneBy
<1>6. /\ workers'[w] = [at |-> "stamped", command |-> c, event |-> e]
      /\ DOMAIN workers' = Workers /\ \A v \in Workers \ {w} : workers'[v] = workers[v]
  BY <1>1, <1>3, <1>4 DEF StampStart
<1>7. Handler(w)' /\ ~Setting(w)' BY <1>5, <1>6 DEF Handler, Setting
<1> QED BY <1>6, <1>7, WorkersOnly DEF StampStart, histories

\* What a command that names what it needs is stamped to.
LEMMA RequestStampedFor ==
    ASSUME NEW c \in Requests, NamesBattle(c), NEW t
    PROVE  MadeFor(c, Stamped(c, t))
<1>1. PICK e : e = Stamped(c, t) OBVIOUS
<1>2. Envelope(c) /\ c.body.type # "room_ended"
  BY RequestsAssumption DEF RequestsAssumption
<1>3. /\ e.stream = c.stream /\ e.body = c.body
      /\ e.id = Given(c.id, e.id) /\ e.source = Given(c.source, e.source)
      /\ e.seq = Given(c.seq, e.seq) /\ e.time = Given(c.time, e.time)
  BY <1>1, <1>2, StampedEvent
<1>4. MadeFor(c, e) BY <1>2, <1>3 DEF MadeFor, DoneBy
<1> QED BY <1>1, <1>4

LEMMA RequestStamped ==
    ASSUME Inv, NEW w \in Workers, NEW c \in Requests, StampRoomRequest(w, c) PROVE Inv'
<1>1. PICK e : e = Stamped(c, clock) OBVIOUS
<1>2. MadeFor(c, e) BY <1>1, RequestStampedFor DEF StampRoomRequest
<1>3. /\ workers'[w] = [at |-> "stamped", command |-> c, event |-> e]
      /\ DOMAIN workers' = Workers /\ \A v \in Workers \ {w} : workers'[v] = workers[v]
  BY <1>1 DEF Inv, Handlers, StampRoomRequest
<1>4. Handler(w)' /\ ~Setting(w)' BY <1>2, <1>3 DEF Handler, Setting
<1> QED BY <1>3, <1>4, WorkersOnly DEF StampRoomRequest, histories

LEMMA SetupGivenUp ==
    ASSUME Inv, NEW w \in Workers, JoinFails(w) \/ StartedFails(w) PROVE Inv'
<1>1. /\ workers'[w] = Idle /\ DOMAIN workers' = Workers
      /\ \A v \in Workers \ {w} : workers'[v] = workers[v]
  BY DEF Inv, Handlers, JoinFails, StartedFails
<1>2. Handler(w)' /\ ~Setting(w)' BY <1>1 DEF Handler, Setting, Idle
<1> QED BY <1>1, <1>2, WorkersOnly DEF JoinFails, StartedFails, SubmitFails

LEMMA Restarted == ASSUME Inv, CrashAndRestart PROVE Inv'
<1>1. DOMAIN workers' = Workers /\ \A w \in Workers : workers'[w] = Idle
  BY DEF CrashAndRestart
<1>2. \A w \in Workers : Handler(w)' /\ ~Setting(w)' BY <1>1 DEF Handler, Setting, Idle
<1> QED BY <1>1, <1>2, WorkersOnly DEF CrashAndRestart

LEMMA Ticked == ASSUME Inv, Tick PROVE Inv'
<1>1. DOMAIN workers' = Workers /\ \A w \in Workers : workers'[w] = workers[w]
  BY DEF Tick, Inv, Handlers
<1> QED BY <1>1, WorkersOnly DEF Tick, histories

-----------------------------------------------------------------------------
\* An event submitted to a room by a thread that may submit it.
LEMMA RoomSubmitted ==
    ASSUME Inv, NEW w \in Workers, ~Setting(w), NEW c, NEW e, MadeFor(c, e),
           SubmitRoom(w, c, e)
    PROVE  Inv'
<1> DEFINE verdict == RoomRuntime!Verdict(roomMemory, e)
           start == verdict = "accepted" /\ e.body.type = "room_started"
           before == RoomRuntime!StreamState(roomMemory, e.stream)
           after == roomMemory'.streams[e.stream]
<1>1. /\ roomMemory' = IF verdict = "accepted" THEN RoomRuntime!Commit(roomMemory, e)
                       ELSE roomMemory
      /\ workers' = [workers EXCEPT ![w] = IF start THEN Setup(e.stream, after) ELSE Idle]
      /\ told' = IF verdict = "rejected" \/ start THEN told ELSE told \cup {c}
      /\ UNCHANGED <<battleMemory, clock, answered>>
  BY DEF SubmitRoom
<1>2. /\ workers'[w] = IF start THEN Setup(e.stream, after) ELSE Idle
      /\ DOMAIN workers' = Workers
      /\ \A v \in Workers \ {w} : workers'[v] = workers[v]
  BY <1>1 DEF Inv, Handlers
<1>3. verdict \in {"accepted", "duplicate", "rejected"} BY DEF RoomRuntime!Verdict
<1>4. verdict = "duplicate" => e.id \in DOMAIN roomMemory.accepted /\ roomMemory.accepted[e.id] = e
  BY DEF RoomRuntime!Verdict, RoomRuntime!Known
<1>5. RoomFields(before)
  <2>1. RoomFields(NewRoom)
    <3>1. DOMAIN NewRoom.players = {} BY DEF NewRoom, EmptyMap
    <3>2. IsFiniteSet(DOMAIN NewRoom.players) BY <3>1, FS_EmptySet
    <3> QED BY <3>2 DEF RoomFields, NewRoom
  <2> QED BY <2>1 DEF Inv, RoomsKept, Rooms, Room, RoomRuntime!StreamState
<1>6. e.body.type # "room_ended" /\ DoneBy(c, e) BY DEF MadeFor
<1>7. ASSUME verdict = "accepted"
      PROVE  /\ MemoryFields(roomMemory)' /\ Grown(roomMemory, e, roomMemory')
             /\ RoomAccepts(before, e.body) /\ after = RoomApply(before, e.body)
             /\ Rooms' = Rooms \cup {e.stream}
             /\ \A r \in Rooms \ {e.stream} : Room(r)' = Room(r)
  <2>1. PICK n : n = roomMemory' OBVIOUS
  <2>2. /\ MemoryFields(n) /\ Grown(roomMemory, e, n)
        /\ RoomAccepts(before, e.body)
        /\ DOMAIN n.streams = DOMAIN roomMemory.streams \cup {e.stream}
        /\ n.streams[e.stream] = RoomApply(before, e.body)
        /\ \A s \in DOMAIN roomMemory.streams \ {e.stream} :
               n.streams[s] = roomMemory.streams[s]
    BY <1>1, <1>7, <2>1, RoomCommit DEF Inv, RoomsKept
  <2> QED BY <2>1, <2>2 DEF MemoryFields, Rooms, Room
<1> HIDE DEF verdict, before, after
<1>8. ASSUME verdict = "accepted"
      PROVE  /\ RoomFields(after)
             /\ before.phase = "active" =>
                   /\ after.phase = "active" /\ after.players = before.players
                   /\ after.battle = before.battle /\ ~start
             /\ start => /\ before.phase = "open" /\ after.phase = "active"
                         /\ DOMAIN after.players # {}
  BY <1>5, <1>6, <1>7, <1>8, RoomSteps, StartSteps
<1>9. e.stream \in Rooms => before = Room(e.stream)
  BY DEF before, Rooms, Room, RoomRuntime!StreamState
<1>10. verdict = "accepted" => after = Room(e.stream)'
  BY DEF after, Room
<1>11. RoomsGoOn
  <2>1. CASE verdict = "accepted" BY <1>7, <1>8, <1>9, <1>10, <2>1 DEF RoomsGoOn
  <2>2. CASE verdict # "accepted" BY <1>1, <2>2 DEF RoomsGoOn, Rooms, Room
  <2> QED BY <2>1, <2>2
<1>12. RoomsKept'
  <2>1. CASE verdict = "accepted"
    <3>1. \A r \in Rooms' : RoomFields(Room(r)')
      BY <1>7, <1>8, <1>10, <2>1 DEF Inv, RoomsKept
    <3>2. \A id \in DOMAIN roomMemory'.accepted :
            roomMemory'.accepted[id].id = id
      BY <1>7, <2>1 DEF Inv, RoomsKept, Grown
    <3> QED BY <1>1, <1>7, <2>1, <3>1, <3>2 DEF Inv, RoomsKept
  <2>2. CASE verdict # "accepted"
    BY <1>1, <2>2 DEF Inv, RoomsKept, Rooms, Room
  <2> QED BY <2>1, <2>2
<1>13. ToldIsDone'
  <2>1. \A id \in DOMAIN roomMemory.accepted :
          /\ id \in DOMAIN roomMemory'.accepted
          /\ roomMemory'.accepted[id] = roomMemory.accepted[id]
    <3>1. CASE verdict = "accepted" BY <1>7, <3>1 DEF Grown
    <3> QED BY <1>1, <3>1
  <2>2. verdict # "rejected" =>
          e.id \in DOMAIN roomMemory'.accepted /\ roomMemory'.accepted[e.id] = e
    BY <1>3, <1>4, <1>7, <2>1 DEF Grown
  <2> QED BY <1>1, <1>6, <2>1, <2>2 DEF Inv, ToldIsDone
<1>14. ASSUME start PROVE Handler(w)' /\ Progress(w)'
  <2>1. PICK q : q = SetToSeq(DOMAIN after.players) OBVIOUS
  <2>2. Listed(q) /\ Range(q) = DOMAIN after.players
    BY <1>8, <1>14, <2>1, ListOfSet DEF RoomFields
  <2>3. q # <<>> BY <1>8, <1>14, <2>2 DEF Range
  <2>4. workers'[w] = [at |-> "setup", room |-> e.stream, battle |-> after.battle,
                       players |-> after.players, todo |-> q, sequence |-> 1]
    BY <1>2, <1>14, <2>1 DEF Setup
  <2>5. e.stream \in Rooms' /\ after = Room(e.stream)' /\ after.phase = "active"
    BY <1>7, <1>8, <1>10, <1>14
  <2>6. Handler(w)' BY <2>2, <2>4, <2>5 DEF Handler, Room
  <2>7. Progress(w)' BY <2>2, <2>3, <2>4 DEF Progress
  <2> QED BY <2>6, <2>7
<1>15. ~start => Handler(w)' /\ ~Setting(w)'
  BY <1>2 DEF Handler, Setting, Idle
<1>16. BattlesKept' /\ BattlesGoOn /\ Events' = Events /\ \A b : Playing(b) => Playing(b)'
  BY <1>1, BattlesStand DEF Inv, BattlesGoOn
<1>17. \A v \in Workers : Handler(v)' /\ (Setting(v)' => Progress(v)')
  <2>1. \A v \in Workers \ {w} : Handler(v)' /\ (Setting(v)' => Progress(v)')
    BY <1>2, <1>11, <1>16, HandlerStays
  <2> QED BY <1>14, <1>15, <2>1
<1>18. Origins' BY <1>11, <1>16, OriginStays DEF Inv, Origins
<1>19. AnsweredStartIsPlaying' BY <1>1, <1>16 DEF Inv, AnsweredStartIsPlaying
<1> QED BY <1>2, <1>12, <1>13, <1>16, <1>17, <1>18, <1>19 DEF Inv, Handlers, Setups

LEMMA RoomRequested ==
    ASSUME Inv, NEW w \in Workers, NEW c \in Requests, RoomRequest(w, c) PROVE Inv'
<1>1. PICK e : e = Stamped(c, clock) OBVIOUS
<1>2. MadeFor(c, e) BY <1>1, RequestStampedFor DEF RoomRequest
<1>3. ~Setting(w) BY DEF RoomRequest, Setting, Idle
<1> QED BY <1>1, <1>2, <1>3, RoomSubmitted DEF RoomRequest

LEMMA StampedSubmitted ==
    ASSUME Inv, NEW w \in Workers, SubmitStamped(w) PROVE Inv'
<1>1. MadeFor(workers[w].command, workers[w].event) /\ ~Setting(w)
  BY DEF SubmitStamped, Inv, Handlers, Handler, Setting
<1> QED BY <1>1, RoomSubmitted DEF SubmitStamped

-----------------------------------------------------------------------------
\* Whatever event a battle accepts, its players stay, in their teams; a join
\* adds one, before the start, and nothing else does; it is started once.
LEMMA BattleSteps ==
    ASSUME NEW b, BattleFields(b), NEW e, Rules!BattleAccepts(b, e),
           NEW c, c = Rules!BattleApply(b, e)
    PROVE  /\ BattleFields(c)
           /\ DOMAIN c.players = DOMAIN b.players
                  \cup (IF e.type = "player_joined" THEN {e.player} ELSE {})
           /\ e.type = "player_joined" => c.players[e.player].team = e.team
           /\ \A p \in DOMAIN b.players : c.players[p].team = b.players[p].team
           /\ b.phase # "lobby" => c.phase # "lobby"
           /\ e.type = "battle_started" => c.phase # "lobby"
           /\ b.phase = "lobby" /\ c.phase # "lobby" => e.type = "battle_started"
<1>1. CASE e.type = "player_joined" BY <1>1, JoinSteps
<1>2. CASE e.type = "battle_started" BY <1>2, BattleStartSteps
<1>3. CASE e.type \notin {"player_joined", "battle_started"} BY <1>3, PlaySteps
<1> QED BY <1>1, <1>2, <1>3

\* An event the battle runtime commits.
LEMMA BattleCommitted ==
    ASSUME BattlesKept, NEW e, ApRuntime!Verdict(battleMemory, e) = "accepted",
           battleMemory' = ApRuntime!Commit(battleMemory, e), e.seq \in Int
    PROVE  /\ BattlesKept' /\ BattlesGoOn /\ Events' = Events \cup {e}
           /\ \A b : Playing(b) => Playing(b)'
<1>1. PICK n : n = battleMemory' OBVIOUS
<1>2. /\ MemoryFields(n) /\ Grown(battleMemory, e, n)
      /\ AcceptsBody(Battle(e.stream), e.body)
      /\ DOMAIN n.streams = DOMAIN battleMemory.streams \cup {e.stream}
      /\ n.streams[e.stream] = Rules!BattleApply(Battle(e.stream), e.body)
      /\ \A s \in DOMAIN battleMemory.streams \ {e.stream} :
             n.streams[s] = battleMemory.streams[s]
  BY <1>1, BattleCommit DEF BattlesKept, Battle
<1>3. /\ DOMAIN n.latest = DOMAIN battleMemory.latest \cup {e.source}
      /\ n.latest[e.source] = e.seq
      /\ \A s \in DOMAIN battleMemory.latest \ {e.source} :
             n.latest[s] = battleMemory.latest[s]
      /\ e.source \in DOMAIN battleMemory.latest =>
             ~(e.seq <= battleMemory.latest[e.source])
  BY <1>1, BattleCommit DEF BattlesKept
<1>4. Events' = Events \cup {e}
  BY <1>1, <1>2 DEF Grown, Events
<1>5. (\A id \in DOMAIN battleMemory.accepted : battleMemory.accepted[id].id = id)'
  BY <1>1, <1>2 DEF Grown, BattlesKept
<1>6. NumbersOnce'
  <2>1. /\ Numbered' => LastNumber' \in Int
        /\ Numbered => Numbered' /\ LastNumber' >= LastNumber
        /\ e.source = "ap-room-start" => Numbered' /\ LastNumber' = e.seq
        /\ e.source = "ap-room-start" /\ Numbered => LastNumber < e.seq
    BY <1>1, <1>3 DEF BattlesKept, NumbersOnce, Numbered, LastNumber
  <2>2. \A f \in Events' : f.source = "ap-room-start" =>
            Numbered' /\ f.seq \in Int /\ f.seq <= LastNumber'
    BY <1>4, <2>1 DEF BattlesKept, NumbersOnce
  <2>3. \A f \in Events : /\ f.source = "ap-room-start" /\ e.source = "ap-room-start"
                          => f.seq # e.seq
    BY <2>1 DEF BattlesKept, NumbersOnce
  <2>4. \A f, g \in Events' : /\ f.source = "ap-room-start" /\ g.source = "ap-room-start"
                              /\ f.seq = g.seq
                              => f = g
    BY <1>4, <2>3 DEF BattlesKept, NumbersOnce
  <2> QED BY <2>1, <2>2, <2>4 DEF NumbersOnce
<1>7. BattleFields(Battle(e.stream))
  <2>1. BattleFields(Rules!NewBattle)
    BY DEF BattleFields, Rules!NewBattle, Rules!EmptyMap
  <2> QED BY <2>1 DEF BattlesKept, Battle, ApRuntime!StreamState
<1>8. /\ Battle(e.stream)' = Rules!BattleApply(Battle(e.stream), e.body)
      /\ \A b : b # e.stream => Battle(b)' = Battle(b)
  BY <1>1, <1>2 DEF Battle, ApRuntime!StreamState
<1>9. /\ BattleFields(Battle(e.stream)')
      /\ DOMAIN Battle(e.stream)'.players = DOMAIN Battle(e.stream).players
             \cup (IF e.body.type = "player_joined" THEN {e.body.player} ELSE {})
      /\ e.body.type = "player_joined" =>
             Battle(e.stream)'.players[e.body.player].team = e.body.team
      /\ \A p \in DOMAIN Battle(e.stream).players :
             Battle(e.stream)'.players[p].team = Battle(e.stream).players[p].team
      /\ Battle(e.stream).phase # "lobby" => Battle(e.stream)'.phase # "lobby"
      /\ e.body.type = "battle_started" => Battle(e.stream)'.phase # "lobby"
      /\ Battle(e.stream).phase = "lobby" /\ Battle(e.stream)'.phase # "lobby" =>
             e.body.type = "battle_started"
  <2>1. Rules!BattleAccepts(Battle(e.stream), e.body) BY <1>2 DEF AcceptsBody
  <2> QED BY <1>7, <1>8, <2>1, BattleSteps
<1>10. \A b : Playing(b) => Playing(b)' BY <1>8, <1>9 DEF Playing
<1>11. BattlesGoOn
  <2>1. ASSUME NEW b, NEW p, NEW team, InTeam(b, p, team) PROVE InTeam(b, p, team)'
    <3>1. p \in DOMAIN Battle(b).players /\ Battle(b).players[p].team = team
      BY <2>1 DEF InTeam
    <3>2. p \in DOMAIN Battle(b)'.players /\ Battle(b)'.players[p].team = team
      BY <1>8, <1>9, <3>1
    <3> QED BY <3>2 DEF InTeam
  <2> QED BY <1>4, <2>1 DEF BattlesGoOn
<1>12. \A f \in Events' : \A b : Starts(f, b) => Playing(b)'
  <2>1. \A b : Starts(e, b) => Playing(b)' BY <1>9 DEF Starts, Playing
  <2> QED BY <1>4, <1>10, <2>1 DEF BattlesKept
<1>13. \A f \in Events' : \A b, p : Joins(f, b, p) => InTeam(b, p, f.body.team)'
  <2>1. \A b, p : Joins(e, b, p) => InTeam(b, p, e.body.team)'
    BY <1>9 DEF Joins, InTeam
  <2>2. \A f \in Events : \A b, p : Joins(f, b, p) => InTeam(b, p, f.body.team)
    BY DEF BattlesKept
  <2>3. \A f \in Events : \A b, p : Joins(f, b, p) => InTeam(b, p, f.body.team)'
    BY <1>11, <2>2 DEF BattlesGoOn
  <2> QED BY <1>4, <2>1, <2>3
<1>14. \A b : Playing(b)' => \E f \in Events' : Starts(f, b)
  <2> SUFFICES ASSUME NEW b, Playing(b)' PROVE \E f \in Events' : Starts(f, b) OBVIOUS
  <2>1. CASE Playing(b) BY <1>4, <2>1 DEF BattlesKept
  <2>2. CASE ~Playing(b)
    <3>1. b = e.stream BY <1>8, <2>2 DEF Playing
    <3>2. e.body.type = "battle_started" BY <1>9, <2>2, <3>1 DEF Playing
    <3> QED BY <1>4, <3>1, <3>2 DEF Starts
  <2> QED BY <2>1, <2>2
<1>15. \A b : \A p \in DOMAIN Battle(b)'.players : \E f \in Events' : Joins(f, b, p)
  <2> SUFFICES ASSUME NEW b, NEW p \in DOMAIN Battle(b)'.players
               PROVE  \E f \in Events' : Joins(f, b, p)
    OBVIOUS
  <2>1. CASE p \in DOMAIN Battle(b).players BY <1>4, <2>1 DEF BattlesKept
  <2>2. CASE p \notin DOMAIN Battle(b).players
    <3>1. b = e.stream BY <1>8, <2>2
    <3>2. e.body.type = "player_joined" /\ e.body.player = p BY <1>9, <2>2, <3>1
    <3> QED BY <1>4, <3>1, <3>2 DEF Joins
  <2> QED BY <2>1, <2>2
<1>16. (\A b \in DOMAIN battleMemory.streams : BattleFields(Battle(b)))'
  <2>1. \A b \in DOMAIN n.streams : BattleFields(Battle(b)')
    BY <1>2, <1>8, <1>9 DEF BattlesKept
  <2> QED BY <1>1, <2>1
<1>17. BattlesKept'
  BY <1>1, <1>2, <1>5, <1>6, <1>12, <1>13, <1>14, <1>15, <1>16 DEF BattlesKept
<1> QED BY <1>4, <1>10, <1>11, <1>17

\* An envelope submitted with success is an accepted event.
LEMMA Submitted ==
    ASSUME BattlesKept, NEW e, e.seq \in Int, SubmitOk(e)
    PROVE  /\ BattlesKept' /\ BattlesGoOn /\ Events' = Events \cup {e}
           /\ \A b : Playing(b) => Playing(b)'
<1>1. CASE ApRuntime!Verdict(battleMemory, e) = "duplicate" /\ UNCHANGED battleMemory
  <2>1. e \in Events BY <1>1 DEF ApRuntime!Verdict, ApRuntime!Known, Events
  <2>2. /\ BattlesKept' /\ Events' = Events /\ \A b : Playing(b) => Playing(b)'
        /\ \A b, p, team : InTeam(b, p, team) => InTeam(b, p, team)'
    BY <1>1, BattlesStand
  <2> QED BY <2>1, <2>2 DEF BattlesGoOn
<1>2. CASE /\ ApRuntime!Verdict(battleMemory, e) = "accepted"
           /\ battleMemory' = ApRuntime!Commit(battleMemory, e)
  BY <1>2, BattleCommitted
<1> QED BY <1>1, <1>2 DEF SubmitOk

\* What a battle step leaves to the rooms.
LEMMA RoomsStand ==
    ASSUME Inv, UNCHANGED <<roomMemory, told>>
    PROVE  RoomsKept' /\ ToldIsDone' /\ RoomsGoOn
BY DEF Inv, RoomsKept, Rooms, Room, ToldIsDone, RoomsGoOn

\* The next player_joined of the thread that sets the battle of room r up.
LEMMA JoinSubmitted ==
    ASSUME Inv, NEW w \in Workers, SubmitJoin(w) PROVE Inv'
<1>1. PICK r, todo, sequence :
        workers[w] = [at |-> "setup", room |-> r, battle |-> Room(r).battle,
                      players |-> Room(r).players, todo |-> todo, sequence |-> sequence]
  BY DEF Inv, Handlers, Handler, SubmitJoin
<1>2. /\ r \in Rooms /\ Room(r).phase = "active" /\ Setting(w)
      /\ Listed(todo) /\ Range(todo) \subseteq DOMAIN Room(r).players /\ todo # <<>>
  BY <1>1 DEF Inv, Handlers, Handler, SubmitJoin, Setting
<1>3. PICK b, players : b = Room(r).battle /\ players = Room(r).players OBVIOUS
<1>4. /\ sequence \in Nat \ {0} /\ (sequence > 1 => Opened(r))
      /\ \A p \in DOMAIN players \ Range(todo) : InTeam(b, p, players[p].team)
  BY <1>1, <1>2, <1>3 DEF Inv, Setups, Progress
<1>5. PICK p : p = Head(todo) OBVIOUS
<1>6. PICK e : e = JoinEnvelope(workers[w]) OBVIOUS
<1>7. e = [id |-> <<r, "join", p>>, source |-> "ap-room-start", seq |-> sequence,
           stream |-> b,
           body |-> [type |-> "player_joined", player |-> p,
                     team |-> players[p].team, module |-> players[p].module]]
  BY <1>1, <1>3, <1>5, <1>6 DEF JoinEnvelope
<1>8. /\ Listed(Tail(todo)) /\ p \in Range(todo)
      /\ Range(todo) = Range(Tail(todo)) \cup {p}
  BY <1>2, <1>5, HeadAndTail
<1>9. /\ workers'[w] = [at |-> "setup", room |-> r, battle |-> b, players |-> players,
                        todo |-> Tail(todo), sequence |-> sequence + 1]
      /\ DOMAIN workers' = Workers /\ \A v \in Workers \ {w} : workers'[v] = workers[v]
  <2>1. DOMAIN workers = Workers BY DEF Inv, Handlers
  <2>2. PICK x, k : x = workers[w] /\ k = OnePlayerOn(x) OBVIOUS
  <2>3. k = [at |-> "setup", room |-> r, battle |-> b, players |-> players,
             todo |-> Tail(todo), sequence |-> sequence + 1]
    BY <1>1, <1>3, <2>2 DEF OnePlayerOn
  <2> QED BY <2>1, <2>2, <2>3 DEF SubmitJoin
<1>10. UNCHANGED <<roomMemory, answered, told>> /\ SubmitOk(e)
  BY <1>6 DEF SubmitJoin, histories
<1>11. /\ BattlesKept' /\ BattlesGoOn /\ Events' = Events \cup {e}
       /\ \A c : Playing(c) => Playing(c)'
  BY <1>4, <1>7, <1>10, Submitted DEF Inv
<1>12. RoomsKept' /\ ToldIsDone' /\ RoomsGoOn BY <1>10, RoomsStand
<1>13. Room(r)' = Room(r) /\ Rooms' = Rooms BY <1>10 DEF Room, Rooms
<1>14. InTeam(b, p, players[p].team)'
  <2>1. PICK team : team = players[p].team OBVIOUS
  <2>2. e \in Events' /\ Joins(e, b, p) /\ e.body.team = team
    BY <1>7, <1>11, <2>1 DEF Joins
  <2>3. InTeam(b, p, team)' BY <1>11, <2>2 DEF BattlesKept
  <2> QED BY <2>1, <2>3
<1>15. Opened(r)'
  <2>1. CASE sequence = 1
    <3>1. e \in Events' /\ e.source = "ap-room-start" /\ e.seq = 1
          /\ e.id = <<r, "join", e.body.player>>
      BY <1>7, <1>11, <2>1
    <3> QED BY <3>1 DEF Opened
  <2>2. CASE sequence > 1 BY <1>4, <1>11, <2>2, OpenedStays
  <2> QED BY <1>4, <2>1, <2>2
<1>16. Handler(w)' BY <1>2, <1>3, <1>8, <1>9, <1>13 DEF Handler
<1>17. Progress(w)'
  <2>1. \A q \in DOMAIN players \ Range(Tail(todo)) : InTeam(b, q, players[q].team)'
    BY <1>4, <1>8, <1>11, <1>14 DEF BattlesGoOn
  <2> QED BY <1>4, <1>9, <1>15, <2>1 DEF Progress
<1>18. \A v \in Workers : Handler(v)' /\ (Setting(v)' => Progress(v)')
  <2>1. \A v \in Workers \ {w} : Handler(v)' /\ (Setting(v)' => Progress(v)')
    BY <1>9, <1>11, <1>12, HandlerStays
  <2> QED BY <1>16, <1>17, <2>1
<1>19. Origins'
  <2>1. SetUpBy(r, e)'
    BY <1>2, <1>3, <1>7, <1>8, <1>13, <1>15 DEF SetUpBy
  <2>2. Origin(e)' BY <1>2, <1>13, <2>1 DEF Origin
  <2>3. \A f \in Events : Origin(f)' BY <1>11, <1>12, OriginStays DEF Inv, Origins
  <2> QED BY <1>11, <2>2, <2>3 DEF Origins
<1>20. AnsweredStartIsPlaying' BY <1>10, <1>11 DEF Inv, AnsweredStartIsPlaying
<1> QED BY <1>9, <1>11, <1>12, <1>18, <1>19, <1>20 DEF Inv, Handlers, Setups

\* battle_started, accepted or known already.
LEMMA StartSubmitted ==
    ASSUME Inv, NEW w \in Workers, SubmitStarted(w) PROVE Inv'
<1>1. PICK r, sequence :
        workers[w] = [at |-> "setup", room |-> r, battle |-> Room(r).battle,
                      players |-> Room(r).players, todo |-> <<>>, sequence |-> sequence]
  BY DEF Inv, Handlers, Handler, SubmitStarted
<1>2. r \in Rooms /\ Room(r).phase = "active" /\ Setting(w)
  BY <1>1 DEF Inv, Handlers, Handler, SubmitStarted, Setting
<1>3. PICK b, players : b = Room(r).battle /\ players = Room(r).players OBVIOUS
<1>4. /\ sequence \in Nat \ {0} /\ Opened(r)
      /\ \A p \in DOMAIN players : InTeam(b, p, players[p].team)
  <2>1. Progress(w) BY <1>2 DEF Inv, Setups
  <2>2. Range(workers[w].todo) = {} BY <1>1 DEF Range
  <2>3. sequence \in Nat \ {0} /\ sequence # 1 BY <1>1, <2>1 DEF Progress
  <2> QED BY <1>1, <1>3, <2>1, <2>2, <2>3 DEF Progress
<1>5. PICK e : e = StartEnvelope(workers[w]) OBVIOUS
<1>6. e = [id |-> <<r, "started">>, source |-> "ap-room-start", seq |-> sequence,
           stream |-> b, body |-> [type |-> "battle_started"]]
  BY <1>1, <1>3, <1>5 DEF StartEnvelope
<1>7. /\ workers'[w] = Idle /\ DOMAIN workers' = Workers
      /\ \A v \in Workers \ {w} : workers'[v] = workers[v]
  BY DEF SubmitStarted, Inv, Handlers
<1>8. /\ UNCHANGED <<roomMemory, told>> /\ SubmitOk(e)
      /\ answered' = answered \cup {b}
  BY <1>1, <1>3, <1>5 DEF SubmitStarted
<1>9. /\ BattlesKept' /\ BattlesGoOn /\ Events' = Events \cup {e}
      /\ \A c : Playing(c) => Playing(c)'
  BY <1>4, <1>6, <1>8, Submitted DEF Inv
<1>10. RoomsKept' /\ ToldIsDone' /\ RoomsGoOn BY <1>8, RoomsStand
<1>11. Room(r)' = Room(r) /\ Rooms' = Rooms BY <1>8 DEF Room, Rooms
<1>12. Playing(b)'
  <2>1. e \in Events' /\ Starts(e, b) BY <1>6, <1>9 DEF Starts
  <2> QED BY <1>9, <2>1 DEF BattlesKept
<1>13. \A v \in Workers : Handler(v)' /\ (Setting(v)' => Progress(v)')
  <2>1. \A v \in Workers \ {w} : Handler(v)' /\ (Setting(v)' => Progress(v)')
    BY <1>7, <1>9, <1>10, HandlerStays
  <2>2. Handler(w)' /\ ~Setting(w)' BY <1>7 DEF Handler, Setting, Idle
  <2> QED BY <2>1, <2>2
<1>14. Origins'
  <2>1. Opened(r)' BY <1>4, <1>9, OpenedStays
  <2>2. \A p \in DOMAIN players : InTeam(b, p, players[p].team)'
    BY <1>4, <1>9 DEF BattlesGoOn
  <2>3. e.body.type = "battle_started" /\ e.stream = b BY <1>6
  <2>4. \A p \in DOMAIN Room(r)'.players : InTeam(e.stream, p, Room(r).players[p].team)'
    BY <1>3, <1>11, <2>2, <2>3
  <2>5. SetUpBy(r, e)' BY <1>2, <1>3, <1>11, <2>1, <2>3, <2>4 DEF SetUpBy
  <2>6. Origin(e)' BY <1>2, <1>11, <2>5 DEF Origin
  <2>7. \A f \in Events : Origin(f)' BY <1>9, <1>10, OriginStays DEF Inv, Origins
  <2> QED BY <1>9, <2>6, <2>7 DEF Origins
<1>15. AnsweredStartIsPlaying' BY <1>8, <1>9, <1>12 DEF Inv, AnsweredStartIsPlaying
<1> QED BY <1>7, <1>9, <1>10, <1>13, <1>14, <1>15 DEF Inv, Handlers, Setups

\* A client's own battle event, whatever it is.
LEMMA PostAccepted ==
    ASSUME Inv, NEW e \in Posts, PostEvent(e) PROVE Inv'
<1>1. /\ ApRuntime!Verdict(battleMemory, e) = "accepted"
      /\ battleMemory' = ApRuntime!Commit(battleMemory, e)
      /\ UNCHANGED <<roomMemory, workers, answered, told>>
  BY DEF PostEvent, histories
<1>2. e.seq \in Int BY PostsAssumption DEF PostsAssumption
<1>3. /\ BattlesKept' /\ BattlesGoOn /\ Events' = Events \cup {e}
      /\ \A c : Playing(c) => Playing(c)'
  BY <1>1, <1>2, BattleCommitted DEF Inv
<1>4. RoomsKept' /\ ToldIsDone' /\ RoomsGoOn BY <1>1, RoomsStand
<1>5. \A v \in Workers : Handler(v)' /\ (Setting(v)' => Progress(v)')
  BY <1>1, <1>3, <1>4, HandlerStays
<1>6. Origins'
  <2>1. Origin(e)' BY DEF Origin
  <2>2. \A f \in Events : Origin(f)' BY <1>3, <1>4, OriginStays DEF Inv, Origins
  <2> QED BY <1>3, <2>1, <2>2 DEF Origins
<1>7. AnsweredStartIsPlaying' BY <1>1, <1>3 DEF Inv, AnsweredStartIsPlaying
<1>8. DOMAIN workers' = Workers BY <1>1 DEF Inv, Handlers
<1> QED BY <1>3, <1>4, <1>5, <1>6, <1>7, <1>8 DEF Inv, Handlers, Setups

-----------------------------------------------------------------------------
THEOREM InvAlways == Spec => []Inv
<1>1. Inv /\ [Next]_vars => Inv'
  <2> SUFFICES ASSUME Inv, [Next]_vars PROVE Inv' OBVIOUS
  <2>1. CASE UNCHANGED vars
    <3>1. \A w \in Workers : workers'[w] = workers[w] BY <2>1 DEF vars
    <3> QED BY <2>1, <3>1, WorkersOnly DEF vars, histories, Inv, Handlers
  <2>2. CASE Next
    BY <2>2, RoomRequested, StartComposed, RequestStamped, StartStamped, StampedSubmitted,
       JoinSubmitted, SetupGivenUp, StartSubmitted, PostAccepted, Restarted, Ticked DEF Next
  <2> QED BY <2>1, <2>2
<1> QED BY <1>1, InitInv, PTL DEF Spec

\* No client is told that its command is done unless the room did it, for any
\* two commands that get their event ids from one millisecond.
THEOREM ToldCorrect == Spec => []ToldIsDone
BY InvAlways, PTL DEF Inv

\* A client told that its start succeeded finds the battle started.
THEOREM AnsweredCorrect == Spec => []AnsweredStartIsPlaying
BY InvAlways, PTL DEF Inv

\* One room at most has the first number of the source.
LEMMA OneOpened ==
    ASSUME BattlesKept, NEW q, NEW r, Opened(q), Opened(r) PROVE q = r
<1>1. PICK e \in Events : /\ e.source = "ap-room-start" /\ e.seq = 1
                          /\ e.id = <<q, "join", e.body.player>>
  BY DEF Opened
<1>2. PICK f \in Events : /\ f.source = "ap-room-start" /\ f.seq = 1
                          /\ f.id = <<r, "join", f.body.player>>
  BY DEF Opened
<1>3. e = f BY <1>1, <1>2 DEF BattlesKept, NumbersOnce
<1> QED BY <1>1, <1>2, <1>3

LEMMA PostedEvent ==
    ASSUME BattlesKept, NEW e \in Events, e \in Posts PROVE e \in Posted(e.stream)
BY DEF BattlesKept, Events, Posted

\* A player a client did not put into a battle was put there by a room's set-up.
LEMMA UnaskedJoin ==
    ASSUME Inv, NEW b, NEW p \in DOMAIN Battle(b).players, ~JoinedByClient(b, p)
    PROVE  \E r \in Rooms : Opened(r) /\ CarriedOver(b, r, {p})
<1>1. PICK e \in Events : Joins(e, b, p) BY DEF Inv, BattlesKept
<1>2. e.stream = b /\ e.body.type = "player_joined" /\ e.body.player = p
  BY <1>1 DEF Joins
<1>3. e \notin Posts BY <1>2, PostedEvent DEF Inv, JoinedByClient
<1>4. PICK r \in Rooms : SetUpBy(r, e) BY <1>3 DEF Inv, Origins, Origin
<1>5. /\ Room(r).phase = "active" /\ Room(r).battle = b /\ Opened(r)
      /\ p \in DOMAIN Room(r).players /\ e.body.team = Room(r).players[p].team
  BY <1>2, <1>4 DEF SetUpBy
<1>6. Battle(b).players[p].team = e.body.team
  BY <1>1 DEF Inv, BattlesKept, InTeam
<1> QED BY <1>5, <1>6 DEF CarriedOver

\* A battle that has left the lobby was started by a client's own event, or for
\* one room, and then all its members play, in their teams, and nobody else but
\* whom a client's own event put in: whatever clients post to the battles.
THEOREM RostersWhole == Spec => []RosterCarriedOver
<1>1. Inv => RosterCarriedOver
  <2> SUFFICES ASSUME Inv, NEW b \in DOMAIN battleMemory.streams, Playing(b),
                      ~StartedByClient(b)
               PROVE  \E r \in Rooms :
                        /\ CarriedOver(b, r, DOMAIN Room(r).players)
                        /\ \A p \in DOMAIN Battle(b).players \ DOMAIN Room(r).players :
                               JoinedByClient(b, p)
    BY DEF RosterCarriedOver
  <2>1. PICK e \in Events : Starts(e, b) BY DEF Inv, BattlesKept
  <2>2. e.stream = b /\ e.body.type = "battle_started" BY <2>1 DEF Starts
  <2>3. e \notin Posts BY <2>2, PostedEvent DEF Inv, StartedByClient
  <2>4. PICK r \in Rooms : SetUpBy(r, e) BY <2>3 DEF Inv, Origins, Origin
  <2>5. /\ Room(r).phase = "active" /\ Room(r).battle = b /\ Opened(r)
        /\ \A p \in DOMAIN Room(r).players : InTeam(b, p, Room(r).players[p].team)
    BY <2>2, <2>4 DEF SetUpBy
  <2>6. CarriedOver(b, r, DOMAIN Room(r).players) BY <2>5 DEF CarriedOver, InTeam
  <2>7. ASSUME NEW p \in DOMAIN Battle(b).players, p \notin DOMAIN Room(r).players,
               ~JoinedByClient(b, p)
        PROVE  FALSE
    <3>1. PICK q \in Rooms : Opened(q) /\ CarriedOver(b, q, {p}) BY <2>7, UnaskedJoin
    <3>2. q = r BY <2>5, <3>1, OneOpened DEF Inv
    <3> QED BY <2>7, <3>1, <3>2 DEF CarriedOver
  <2> QED BY <2>6, <2>7
<1> QED BY <1>1, InvAlways, PTL

\* All whom no client's own event put into a battle were members of one room
\* started on it, in their teams there: the envelopes of another room, which
\* have the same numbers of the same source, never get in.
THEOREM NobodyUnasked == Spec => []NobodyJoinsUnasked
<1>1. Inv => NobodyJoinsUnasked
  <2> DEFINE unasked(b) == {p \in DOMAIN Battle(b).players : ~JoinedByClient(b, p)}
  <2> SUFFICES ASSUME Inv, NEW b \in DOMAIN battleMemory.streams,
                      NEW first \in unasked(b)
               PROVE  \E r \in Rooms : CarriedOver(b, r, unasked(b))
    BY DEF NobodyJoinsUnasked
  <2>1. PICK r \in Rooms : Opened(r) /\ CarriedOver(b, r, {first}) BY UnaskedJoin
  <2>2. \A p \in unasked(b) : CarriedOver(b, r, {p})
    <3> SUFFICES ASSUME NEW p \in unasked(b) PROVE CarriedOver(b, r, {p}) OBVIOUS
    <3>1. PICK q \in Rooms : Opened(q) /\ CarriedOver(b, q, {p}) BY UnaskedJoin
    <3> QED BY <2>1, <3>1, OneOpened DEF Inv
  <2>3. CarriedOver(b, r, unasked(b)) BY <2>1, <2>2 DEF CarriedOver
  <2> QED BY <2>3
<1> QED BY <1>1, InvAlways, PTL

=============================================================================
