----------------------------- MODULE LiveServer -----------------------------
(***************************************************************************)
(* One room and its battle behind the two runtimes, the connection threads *)
(* that post to them, and the WebSocket broadcaster both runtimes call     *)
(* while they hold their mutex (src/src/server/server.cpp).                *)
(*                                                                         *)
(* Events that a runtime refuses change nothing and publish nothing, and   *)
(* are left out; storage and duplicates are the business of EventRuntime.  *)
(* The messages other than player_status_updated are copies of the event   *)
(* and of the snapshot made under the mutex, and are left out too.         *)
(***************************************************************************)
EXTENDS RoomRules, SequencesExt

CONSTANTS
    FullHealth,        \* see BattleRules
    Threads, Free,     \* the connection threads; the owner of a free mutex
    Players,           \* the players whose status is watched
    TheBattle,         \* the id of the battle
    RoomCommands,      \* room events the clients post
    BattleCommands,    \* battle events the clients post
    InitialRoom,       \* the room when the watched page was loaded
    Null,              \* JSON null
    MaxRoomEvents, MaxBattleEvents   \* bounds on the accepted events

Rules == INSTANCE BattleRules

\* RoomState, and a map of devices in it.
RoomShape(r) ==
    /\ r = [phase |-> r.phase, max |-> r.max, caps |-> r.caps, players |-> r.players,
            devices |-> r.devices, positions |-> r.positions, battle |-> r.battle]
    /\ IsFiniteSet(DOMAIN r.players)
    /\ \A d \in DOMAIN r.devices :
           r.devices[d] = [online |-> r.devices[d].online, bound |-> r.devices[d].bound]

\* The fields of a payload that name a player, which parsing requires.
NamesOf(type) ==
    CASE type = "hit" -> {"attacker", "target"}
      [] type \in {"player_joined", "shot", "player_state", "room_player_joined",
                   "room_player_left", "room_player_team_changed",
                   "room_player_ready_changed", "room_player_position_updated",
                   "room_device_bound"} -> {"player"}
      [] OTHER -> {}

\* The page was loaded before the room was started, and the room's battle is
\* the one looked at.
ASSUME LiveAssumption ==
    /\ Free \notin Threads /\ Nobody \notin Players /\ TheBattle # NoBattle
    /\ RoomShape(InitialRoom) /\ Open(InitialRoom) /\ InitialRoom.battle = NoBattle
    /\ \A e \in RoomCommands \cup BattleCommands : NamesOf(e.type) \subseteq DOMAIN e
    /\ \A e \in RoomCommands : e.type = "room_started" => e.battle = TheBattle

VARIABLES
    room, battle,      \* the snapshots the runtimes hold
    roomVersion, battleVersion,   \* history: how many events each accepted
    roomMutex, apMutex,           \* the owner of RoomRuntime's, ApRuntime's mutex
    threads,           \* what each thread is doing
    shown              \* what a page connected all along shows of each player

vars == <<room, battle, roomVersion, battleVersion, roomMutex, apMutex, threads, shown>>

Idle == [at |-> "idle"]

-----------------------------------------------------------------------------
\* find_bound_device
BoundDevices(r, p) == {d \in DOMAIN r.devices : r.devices[d].bound = p}

\* make_player_status_json, r the room snapshot and b the battle snapshot, an
\* empty one if there is none to look in.  A status without a member is no
\* status.
Status(r, p, b) ==
    LET device == CHOOSE d \in BoundDevices(r, p) : TRUE
        bound == BoundDevices(r, p) # {}
        fighting == p \in DOMAIN b.players
    IN  [phase |-> r.phase, battle |-> r.battle, team |-> r.players[p].team,
         ready |-> r.players[p].ready,
         device |-> IF bound THEN device ELSE Null,
         online |-> IF bound THEN r.devices[device].online ELSE Null,
         position |-> IF p \in DOMAIN r.positions THEN r.positions[p] ELSE Null,
         alive |-> IF fighting THEN b.players[p].alive ELSE Null,
         health |-> IF fighting THEN b.players[p].health ELSE Null]

\* The players a payload names.
Named(e, fields) == {e[f] : f \in fields \cap DOMAIN e}

DeviceEvents == {"room_device_registered", "room_device_heartbeat_updated",
                 "room_device_bound", "room_device_unbound"}

RoomAffectedNamedOnly(e, r) ==
    Named(e, {"player"})
    \cup (IF e.type \in {"room_started", "room_ended", "room_closed"}
          THEN DOMAIN r.players ELSE {})

\* room_player_ids_for_event: whom the payload names, whom the device is bound
\* to after the event, or everybody.
RoomAffected(e, r) ==
    Named(e, {"player"})
    \cup (IF e.type \in DeviceEvents /\ Device(r, e.device)
          THEN {r.devices[e.device].bound} \ {Nobody} ELSE {})
    \cup (IF e.type \in {"room_started", "room_ended", "room_closed"}
          THEN DOMAIN r.players ELSE {})

\* battle_player_ids_for_event
BattleAffected(e, b) ==
    Named(e, {"player", "attacker", "target"})
    \cup (IF e.type \in {"battle_started", "battle_paused",
                         "battle_resumed", "battle_ended"}
          THEN DOMAIN b.players ELSE {})

NoFight == Rules!NewBattle

\* A player_status_updated message, with the versions it was made from.
Message(p, status, rv, bv) == [player |-> p, status |-> status, rv |-> rv, bv |-> bv]

\* publish_room_updated in progress: the snapshot it was given and the players
\* whose status is still to be made.
RoomPublication(r, version, todo) ==
    [at |-> "room", room |-> r, version |-> version, todo |-> todo]

-----------------------------------------------------------------------------
Init ==
    /\ room = InitialRoom /\ battle = Rules!NewBattle
    /\ roomVersion = 0 /\ battleVersion = 0
    /\ roomMutex = Free /\ apMutex = Free
    /\ threads = [t \in Threads |-> Idle]
    /\ shown = [p \in Players |->
                   Message(p, IF Member(room, p) THEN Status(room, p, NoFight) ELSE Null, 0, 0)]

-----------------------------------------------------------------------------
(* Faulty variants of actions below, one slip each.                        *)

\* The mutex released before the publication: the cure of the deadlock that
\* comes to mind first.
SubmitRoomUnlocked(t, e) ==
    /\ threads[t] = Idle /\ roomMutex = Free
    /\ roomVersion < MaxRoomEvents
    /\ RoomAccepts(room, e)
    /\ room' = RoomApply(room, e)
    /\ roomVersion' = roomVersion + 1
    /\ threads' = [threads EXCEPT ![t] =
           RoomPublication(room', roomVersion', SetToSeq(RoomAffected(e, room')))]
    /\ UNCHANGED <<battle, battleVersion, roomMutex, apMutex, shown>>

BattleDoneStillLocked(t) ==
    /\ threads[t].at = "battle" /\ threads[t].todo = <<>>
    /\ threads' = [threads EXCEPT ![t] = Idle]
    /\ UNCHANGED <<room, battle, roomVersion, battleVersion, roomMutex, apMutex, shown>>

-----------------------------------------------------------------------------
\* RoomRuntime::submit_event takes its mutex, commits an accepted event and
\* calls publish_room_updated.
SubmitRoom(t, e) ==
    /\ threads[t] = Idle /\ roomMutex = Free
    /\ roomVersion < MaxRoomEvents
    /\ RoomAccepts(room, e)
    /\ room' = RoomApply(room, e)
    /\ roomVersion' = roomVersion + 1
    /\ roomMutex' = t
    /\ threads' = [threads EXCEPT ![t] =
           RoomPublication(room', roomVersion', SetToSeq(RoomAffected(e, room')))]
    /\ UNCHANGED <<battle, battleVersion, apMutex, shown>>

\* The next player's status.  The battle is looked up, under ApRuntime's
\* mutex, if the player is a member and the room has a battle.
MakeRoomStatus(t) ==
    /\ threads[t].at = "room" /\ threads[t].todo # <<>>
    /\ LET k == threads[t]
           p == Head(k.todo)
           Send(status, bv) ==
               threads' = [threads EXCEPT ![t] =
                   [at |-> "sending", room |-> k.room, version |-> k.version,
                    todo |-> Tail(k.todo), message |-> Message(p, status, k.version, bv)]]
       IN  \/ ~Member(k.room, p) /\ Send(Null, 0)
           \/ /\ Member(k.room, p) /\ k.room.battle = NoBattle
              /\ Send(Status(k.room, p, NoFight), 0)
           \/ /\ Member(k.room, p) /\ k.room.battle # NoBattle
              /\ apMutex = Free
              /\ Send(Status(k.room, p, battle), battleVersion)
    /\ UNCHANGED <<room, battle, roomVersion, battleVersion, roomMutex, apMutex, shown>>

SendRoomStatus(t) ==
    /\ threads[t].at = "sending"
    /\ LET k == threads[t]
       IN  /\ shown' = [shown EXCEPT ![k.message.player] = k.message]
           /\ threads' = [threads EXCEPT ![t] = RoomPublication(k.room, k.version, k.todo)]
    /\ UNCHANGED <<room, battle, roomVersion, battleVersion, roomMutex, apMutex>>

RoomDone(t) ==
    /\ threads[t].at = "room" /\ threads[t].todo = <<>>
    /\ roomMutex' = Free
    /\ threads' = [threads EXCEPT ![t] = Idle]
    /\ UNCHANGED <<room, battle, roomVersion, battleVersion, apMutex, shown>>

-----------------------------------------------------------------------------
\* ApRuntime::submit_event takes its mutex, commits an accepted event and
\* calls publish_accepted_event.
SubmitBattle(t, e) ==
    /\ threads[t] = Idle /\ apMutex = Free
    /\ battleVersion < MaxBattleEvents
    /\ Rules!BattleAccepts(battle, e)
    /\ battle' = Rules!BattleApply(battle, e)
    /\ battleVersion' = battleVersion + 1
    /\ apMutex' = t
    /\ threads' = [threads EXCEPT ![t] =
           [at |-> "find", battle |-> battle', version |-> battleVersion',
            affected |-> BattleAffected(e, battle')]]
    /\ UNCHANGED <<room, roomVersion, roomMutex, shown>>

\* find_room_by_battle_id copies the rooms under RoomRuntime's mutex; the
\* statuses of the affected members are made from the copy.
FindRoom(t) ==
    /\ threads[t].at = "find"
    /\ roomMutex = Free
    /\ LET members == IF room.battle = TheBattle
                      THEN threads[t].affected \cap DOMAIN room.players ELSE {}
           message(p) == Message(p, Status(room, p, threads[t].battle),
                                 roomVersion, threads[t].version)
       IN  threads' = [threads EXCEPT ![t] =
               [at |-> "battle", todo |-> SetToSeq({message(p) : p \in members})]]
    /\ UNCHANGED <<room, battle, roomVersion, battleVersion, roomMutex, apMutex, shown>>

SendBattleStatus(t) ==
    /\ threads[t].at = "battle" /\ threads[t].todo # <<>>
    /\ LET m == Head(threads[t].todo)
       IN  shown' = [shown EXCEPT ![m.player] = m]
    /\ threads' = [threads EXCEPT ![t].todo = Tail(@)]
    /\ UNCHANGED <<room, battle, roomVersion, battleVersion, roomMutex, apMutex>>

BattleDone(t) ==
    /\ threads[t].at = "battle" /\ threads[t].todo = <<>>
    /\ apMutex' = Free
    /\ threads' = [threads EXCEPT ![t] = Idle]
    /\ UNCHANGED <<room, battle, roomVersion, battleVersion, roomMutex, shown>>

-----------------------------------------------------------------------------
Next ==
    \/ \E t \in Threads : \E e \in RoomCommands : SubmitRoom(t, e)
    \/ \E t \in Threads : MakeRoomStatus(t)
    \/ \E t \in Threads : SendRoomStatus(t)
    \/ \E t \in Threads : RoomDone(t)
    \/ \E t \in Threads : \E e \in BattleCommands : SubmitBattle(t, e)
    \/ \E t \in Threads : FindRoom(t)
    \/ \E t \in Threads : SendBattleStatus(t)
    \/ \E t \in Threads : BattleDone(t)

\* Inside submit_event a thread runs on, and gets a mutex that is free again
\* and again.
Spec ==
    /\ Init /\ [][Next]_vars
    /\ \A t \in Threads :
        /\ WF_vars(SendRoomStatus(t)) /\ WF_vars(RoomDone(t))
        /\ WF_vars(SendBattleStatus(t)) /\ WF_vars(BattleDone(t))
        /\ SF_vars(MakeRoomStatus(t)) /\ SF_vars(FindRoom(t))

-----------------------------------------------------------------------------
Busy(t) == threads[t] # Idle

\* Whenever no command is in progress the page shows of every player what a
\* fresh query would answer: the last of the statuses published from the two
\* runtimes is one made from the last state of both.
PageIsCurrent ==
    (\A t \in Threads : ~Busy(t)) =>
        \A p \in Players :
            shown[p].status =
                IF ~Member(room, p) THEN Null
                ELSE Status(room, p, IF room.battle = NoBattle THEN NoFight ELSE battle)

\* The page never goes back: a player's status is never replaced by one made
\* from an older state of the room or of the battle.
PageOnlyMovesForward ==
    [][\A p \in Players : shown'[p].rv >= shown[p].rv /\ shown'[p].bv >= shown[p].bv]_vars

\* A thread in either submit_event waits for the other runtime's mutex.
Embrace ==
    \E t, u \in Threads :
        /\ roomMutex = t /\ threads[t].at = "room" /\ threads[t].todo # <<>>
        /\ apMutex = u /\ threads[u].at = "find"

\* A command in progress is answered, unless a room command and a battle
\* command have come to wait for each other's mutex.
OnlyTheEmbraceHangs == \A t \in Threads : Busy(t) ~> (~Busy(t) \/ Embrace)

\* apps/rfd/0002: after the emission to live subscribers "Server returns an
\* accepted response".
CommandsAreAnswered == \A t \in Threads : Busy(t) ~> ~Busy(t)

=============================================================================
