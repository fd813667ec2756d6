------------------------------ MODULE RoomStart ------------------------------
(***************************************************************************)
(* Starting a battle from a room: the room command handlers of             *)
(* src/src/server/server.cpp and start_battle_from_room, run by one thread *)
(* per connection over the two runtimes.  Each submit_event is one step,   *)
(* as its mutex makes it; between two of them other threads run, the store *)
(* may start to fail and the process may be killed.                        *)
(*                                                                         *)
(* A command may leave each of its ids, its number, its time and the       *)
(* battle's id to the server, which makes them from the clock in           *)
(* milliseconds.  Clients also post to the battles past the rooms, whatever *)
(* they like.  A room event the store fails to append changes nothing here *)
(* and is left out.                                                        *)
(*                                                                         *)
(* The two memories survive a crash: EventRuntime checks that a restart    *)
(* rebuilds them from the log.  What a crash loses is the threads.         *)
(***************************************************************************)
EXTENDS RoomRules, SequencesExt

CONSTANTS
    FullHealth,      \* see BattleRules
    Workers,         \* the connection threads
    Requests,        \* the room commands clients post: envelopes, see RuntimeRules,
                     \* with their occurred_at_ms, in which a field may be Unset
    Unset,           \* what the client leaves to the server
    Posts,           \* battle events the clients post to the battles directly
    InitialRooms,    \* the rooms to begin with, as their events left them
    MaxClock, MaxFaults   \* bounds on the milliseconds that pass, and on crashes
                          \* and failed appends together

Envelope(e) == e = [id |-> e.id, source |-> e.source, seq |-> e.seq, time |-> e.time,
                    stream |-> e.stream, body |-> e.body]

\* generated_id
Generated(prefix, t) == <<prefix, t>>

\* A client's battle event may be any: parse_event_json wants a number.
ASSUME PostsAssumption ==
    /\ \A e \in Posts : e.seq \in Int
    /\ MaxClock \in Nat \ {0} /\ MaxFaults \in Nat

\* No handler builds a room_ended.
ASSUME RequestsAssumption ==
    \A c \in Requests :
        /\ Envelope(c) /\ "type" \in DOMAIN c.body /\ c.body.type # "room_ended"
        /\ c.body.type = "room_started" => "battle" \in DOMAIN c.body

ASSUME RoomsAssumption ==
    \A rooms \in InitialRooms : \A r \in DOMAIN rooms : RoomFields(rooms[r])

Rules == INSTANCE BattleRules

\* player_joined of event.cpp wants a module id; a room does without.
AcceptsBody(b, body) ==
    /\ body.type = "player_joined" => body.module # NoModule
    /\ Rules!BattleAccepts(b, body)

RoomRuntime == INSTANCE RuntimeRules
    WITH NewStream <- NewRoom, Accepts <- RoomAccepts, Apply <- RoomApply
ApRuntime == INSTANCE RuntimeRules
    WITH NewStream <- Rules!NewBattle, Accepts <- AcceptsBody,
         Apply <- Rules!BattleApply

VARIABLES
    roomMemory, battleMemory,   \* the maps of the two runtimes
    workers,     \* what each connection thread is doing
    clock,       \* system_clock, in milliseconds
    answered,    \* history: battles whose start a client was told succeeded
    told,        \* history: other commands a client was told are done
    crashes, failures   \* history: crashes and failed appends so far

histories == <<answered, told, crashes, failures>>
vars == <<roomMemory, battleMemory, workers, clock, histories>>

Idle == [at |-> "idle"]

Room(r) == roomMemory.streams[r]
Rooms == DOMAIN roomMemory.streams
Battle(b) == ApRuntime!StreamState(battleMemory, b)

Init ==
    /\ \E rooms \in InitialRooms :
           roomMemory = [RoomRuntime!NoMemory EXCEPT !.streams = rooms]
    /\ battleMemory = ApRuntime!NoMemory
    /\ workers = [w \in Workers |-> Idle]
    /\ clock = 1
    /\ answered = {} /\ told = {}
    /\ crashes = 0 /\ failures = 0

-----------------------------------------------------------------------------
\* start_battle_from_room, entered with the snapshot of the room just started:
\* the players still to join and the sequence number of the next envelope.
Setup(r, room) ==
    [at |-> "setup", room |-> r, battle |-> room.battle,
     players |-> room.players, todo |-> SetToSeq(DOMAIN room.players), sequence |-> 1]

\* ... and after another envelope.
OnePlayerOn(k) ==
    [at |-> "setup", room |-> k.room, battle |-> k.battle,
     players |-> k.players, todo |-> Tail(k.todo), sequence |-> k.sequence + 1]


\* make_battle_envelope: ids are "<room>-battle-join-<player>" and
\* "<room>-battle-started".
JoinEnvelope(k) ==
    LET p == Head(k.todo)
    IN  [id |-> <<k.room, "join", p>>, source |-> "ap-room-start",
         seq |-> k.sequence, stream |-> k.battle,
         body |-> [type |-> "player_joined", player |-> p,
                   team |-> k.players[p].team, module |-> k.players[p].module]]
StartEnvelope(k) ==
    [id |-> <<k.room, "started">>, source |-> "ap-room-start",
     seq |-> k.sequence, stream |-> k.battle, body |-> [type |-> "battle_started"]]

\* ApRuntime::submit_event succeeds with Accepted or Duplicate.
SubmitOk(e) ==
    \/ /\ ApRuntime!Verdict(battleMemory, e) = "accepted"
       /\ battleMemory' = ApRuntime!Commit(battleMemory, e)
    \/ /\ ApRuntime!Verdict(battleMemory, e) = "duplicate"
       /\ UNCHANGED battleMemory

\* ... or fails: the event is rejected, or accepted and not stored.
SubmitFails(e) ==
    /\ UNCHANGED battleMemory
    /\ \/ ApRuntime!Verdict(battleMemory, e) = "rejected" /\ UNCHANGED failures
       \/ /\ ApRuntime!Verdict(battleMemory, e) = "accepted"
          /\ crashes + failures < MaxFaults /\ failures' = failures + 1

-----------------------------------------------------------------------------
(* Faulty variants of actions below, one slip each.                        *)

StartFailsUnnoticed(w) ==
    /\ workers[w].at = "setup" /\ workers[w].todo = <<>>
    /\ SubmitFails(StartEnvelope(workers[w]))
    /\ workers' = [workers EXCEPT ![w] = Idle]
    /\ answered' = answered \cup {workers[w].battle}
    /\ UNCHANGED <<roomMemory, clock, told, crashes>>

JoinFailsUnnoticed(w) ==
    /\ workers[w].at = "setup" /\ workers[w].todo # <<>>
    /\ SubmitFails(JoinEnvelope(workers[w]))
    /\ workers' = [workers EXCEPT ![w] = OnePlayerOn(@)]
    /\ UNCHANGED <<roomMemory, clock, answered, told, crashes>>

SubmitRoomBeforeCommit(w, c, e) ==
    LET verdict == RoomRuntime!Verdict(roomMemory, e)
        start == verdict = "accepted" /\ e.body.type = "room_started"
    IN  /\ roomMemory' = IF verdict = "accepted" /\ ~start
                         THEN RoomRuntime!Commit(roomMemory, e) ELSE roomMemory
        /\ workers' = [workers EXCEPT ![w] =
               IF start THEN Setup(e.stream, [Room(e.stream) EXCEPT !.battle = e.body.battle])
               ELSE Idle]
        /\ told' = IF verdict = "rejected" \/ start THEN told ELSE told \cup {c}
        /\ UNCHANGED <<battleMemory, clock, answered, crashes, failures>>

-----------------------------------------------------------------------------
(* A room command: handle_room_request and its /api/v1 counterpart.        *)

\* json_string_or, json_u64_or, json_i64_or
Given(value, default) == IF value = Unset THEN default ELSE value

\* make_room_envelope
Stamped(c, now) ==
    LET time == Given(c.time, now)
    IN  [c EXCEPT !.id = Given(@, Generated("room-evt", time)),
                  !.source = Given(@, "ap-http"),
                  !.seq = Given(@, time), !.time = time]

\* The handler of a start has nothing to make a battle id for.
NamesBattle(c) == c.body.type = "room_started" => c.body.battle # Unset

\* The event e made of the command c is submitted; if it started the room,
\* this thread goes on to set the battle up.  A retry is answered as a
\* duplicate, and sets nothing up.
SubmitRoom(w, c, e) ==
    LET verdict == RoomRuntime!Verdict(roomMemory, e)
        start == verdict = "accepted" /\ e.body.type = "room_started"
    IN  /\ roomMemory' = IF verdict = "accepted"
                         THEN RoomRuntime!Commit(roomMemory, e) ELSE roomMemory
        /\ workers' = [workers EXCEPT ![w] =
               IF start THEN Setup(e.stream, roomMemory'.streams[e.stream]) ELSE Idle]
        /\ told' = IF verdict = "rejected" \/ start THEN told ELSE told \cup {c}
        /\ UNCHANGED <<battleMemory, clock, answered, crashes, failures>>

\* A command that leaves nothing to the clock.
RoomRequest(w, c) ==
    /\ workers[w] = Idle /\ NamesBattle(c) /\ c.time # Unset
    /\ SubmitRoom(w, c, Stamped(c, clock))

\* The handler takes a start's battle id from the clock, ...
ComposeStart(w, c) ==
    /\ workers[w] = Idle /\ ~NamesBattle(c)
    /\ workers' = [workers EXCEPT ![w] =
           [at |-> "composing", command |-> c,
            event |-> [c EXCEPT !.body.battle = Generated("battle", clock)]]]
    /\ UNCHANGED <<roomMemory, battleMemory, clock, histories>>

\* ... make_room_envelope reads the clock again ...
StampStart(w) ==
    /\ workers[w].at = "composing"
    /\ workers' = [workers EXCEPT ![w] =
           [at |-> "stamped", command |-> @.command, event |-> Stamped(@.event, clock)]]
    /\ UNCHANGED <<roomMemory, battleMemory, clock, histories>>

\* (for other commands, once) ...
StampRoomRequest(w, c) ==
    /\ workers[w] = Idle /\ NamesBattle(c) /\ c.time = Unset
    /\ workers' = [workers EXCEPT ![w] =
           [at |-> "stamped", command |-> c, event |-> Stamped(c, clock)]]
    /\ UNCHANGED <<roomMemory, battleMemory, clock, histories>>

\* ... and the event is submitted when the runtime's mutex is free.
SubmitStamped(w) ==
    /\ workers[w].at = "stamped"
    /\ SubmitRoom(w, workers[w].command, workers[w].event)

-----------------------------------------------------------------------------
\* start_battle_from_room: one player_joined for each player of the snapshot ...
SubmitJoin(w) ==
    /\ workers[w].at = "setup" /\ workers[w].todo # <<>>
    /\ SubmitOk(JoinEnvelope(workers[w]))
    /\ workers' = [workers EXCEPT ![w] = OnePlayerOn(@)]
    /\ UNCHANGED <<roomMemory, clock, histories>>

\* ... which gives up, with an error for an answer, on the first that fails ...
JoinFails(w) ==
    /\ workers[w].at = "setup" /\ workers[w].todo # <<>>
    /\ SubmitFails(JoinEnvelope(workers[w]))
    /\ workers' = [workers EXCEPT ![w] = Idle]
    /\ UNCHANGED <<roomMemory, clock, answered, told, crashes>>

\* ... and then battle_started.
SubmitStarted(w) ==
    /\ workers[w].at = "setup" /\ workers[w].todo = <<>>
    /\ SubmitOk(StartEnvelope(workers[w]))
    /\ workers' = [workers EXCEPT ![w] = Idle]
    /\ answered' = answered \cup {workers[w].battle}
    /\ UNCHANGED <<roomMemory, clock, told, crashes, failures>>

StartedFails(w) ==
    /\ workers[w].at = "setup" /\ workers[w].todo = <<>>
    /\ SubmitFails(StartEnvelope(workers[w]))
    /\ workers' = [workers EXCEPT ![w] = Idle]
    /\ UNCHANGED <<roomMemory, clock, answered, told, crashes>>

\* POST /api/v0/events: a client's own battle event, of whatever type.  That of
\* /api/v1/battles/... is one whose ids the server may have made.
PostEvent(e) ==
    /\ ApRuntime!Verdict(battleMemory, e) = "accepted"
    /\ battleMemory' = ApRuntime!Commit(battleMemory, e)
    /\ UNCHANGED <<roomMemory, workers, clock, histories>>

\* The process is killed and started again.
CrashAndRestart ==
    /\ crashes + failures < MaxFaults
    /\ crashes' = crashes + 1
    /\ workers' = [w \in Workers |-> Idle]
    /\ UNCHANGED <<roomMemory, battleMemory, clock, answered, told, failures>>

Tick ==
    /\ clock < MaxClock
    /\ clock' = clock + 1
    /\ UNCHANGED <<roomMemory, battleMemory, workers, histories>>

SetupStep(w) == SubmitJoin(w) \/ JoinFails(w) \/ SubmitStarted(w) \/ StartedFails(w)

Next ==
    \/ \E w \in Workers : \E c \in Requests :
           RoomRequest(w, c) \/ ComposeStart(w, c) \/ StampRoomRequest(w, c)
    \/ \E w \in Workers : StampStart(w) \/ SubmitStamped(w)
    \/ \E w \in Workers : SubmitJoin(w)
    \/ \E w \in Workers : JoinFails(w)
    \/ \E w \in Workers : SubmitStarted(w)
    \/ \E w \in Workers : StartedFails(w)
    \/ \E e \in Posts : PostEvent(e)
    \/ CrashAndRestart
    \/ Tick

\* A thread that has begun to set a battle up is scheduled until it is done.
Spec == Init /\ [][Next]_vars /\ \A w \in Workers : WF_vars(SetupStep(w))

-----------------------------------------------------------------------------
\* What was asked of the room is what the event did.
DoneBy(c, e) ==
    /\ e.stream = c.stream
    /\ e.id = Given(c.id, e.id) /\ e.source = Given(c.source, e.source)
    /\ e.seq = Given(c.seq, e.seq) /\ e.time = Given(c.time, e.time)
    /\ IF NamesBattle(c) THEN e.body = c.body
       ELSE /\ e.body.type = "room_started"
            /\ e.body = [c.body EXCEPT !.battle = e.body.battle]

\* No client is told that its command is done unless it was: two commands that
\* get one event id from one millisecond are not taken for each other
\* (handle_room_request over the runtime's duplicate check).
ToldIsDone ==
    \A c \in told : \E id \in DOMAIN roomMemory.accepted : DoneBy(c, roomMemory.accepted[id])

Playing(b) == Battle(b).phase # "lobby"

\* Clients' own events the battle b has accepted.
Posted(b) == {e \in Posts : /\ e.id \in DOMAIN battleMemory.accepted
                            /\ battleMemory.accepted[e.id] = e /\ e.stream = b}

StartedByClient(b) == \E e \in Posted(b) : e.body.type = "battle_started"
JoinedByClient(b, p) ==
    \E e \in Posted(b) : e.body.type = "player_joined" /\ e.body.player = p

\* The players were members, in the same teams, of the room r when it was
\* started on the battle b.
CarriedOver(b, r, players) ==
    /\ Room(r).phase = "active" /\ Room(r).battle = b
    /\ players \subseteq DOMAIN Room(r).players \cap DOMAIN Battle(b).players
    /\ \A p \in players : Battle(b).players[p].team = Room(r).players[p].team

\* A battle that has left the lobby was started by a client's own event, or it
\* was started for one room and is played by all who were in it, each in the
\* team it had there, and by nobody else but those a client's own event put in:
\* no part of a roster is started by the server, whatever failed, and whatever
\* clients posted to the rooms and to the battle in between.
RosterCarriedOver ==
    \A b \in DOMAIN battleMemory.streams : Playing(b) =>
        \/ StartedByClient(b)
        \/ \E r \in Rooms :
            /\ CarriedOver(b, r, DOMAIN Room(r).players)
            /\ \A p \in DOMAIN Battle(b).players \ DOMAIN Room(r).players :
                   JoinedByClient(b, p)

\* A client told that its start succeeded finds the battle started.
AnsweredStartIsPlaying == \A b \in answered : Playing(b)

\* Whoever is in a battle without a client's own event having joined them was
\* a member of a room started on it, and of one and the same room, though
\* several rooms may be started on one battle.
NobodyJoinsUnasked ==
    \A b \in DOMAIN battleMemory.streams :
        LET unasked == {p \in DOMAIN Battle(b).players : ~JoinedByClient(b, p)}
        IN  unasked # {} => \E r \in Rooms : CarriedOver(b, r, unasked)

\* apps/rfd/0004: "`active` means the battle has started".  Once no thread is
\* at work, and without a crash or a failed append, a started room is playing.
ActiveMeansPlaying ==
    /\ crashes = 0 /\ failures = 0
    /\ \A w \in Workers : workers[w] = Idle
    => \A r \in Rooms : Room(r).phase = "active" => Playing(Room(r).battle)

\* A client has used what the set-up of the room r needs: the server's source
\* id, one of its event ids, or a member's place in the battle.
InTheWay(r) ==
    \E e \in UNION {Posted(b) : b \in DOMAIN battleMemory.streams} :
        \/ e.source = "ap-room-start"
        \/ e.id \in {<<r, "started">>} \cup {<<r, "join", p>> : p \in DOMAIN Room(r).players}
        \/ /\ e.stream = Room(r).battle /\ e.body.type = "player_joined"
           /\ e.body.player \in DOMAIN Room(r).players


=============================================================================
