----------------------------- MODULE MCRoomStart -----------------------------
(***************************************************************************)
(* Two rooms of two players: p1 and p2 in r1, where p2 has no module in    *)
(* the contended case and keeps r1 from being played until it leaves, and  *)
(* p1 and p3 in r2.  r1 is started by a client that names the battle and   *)
(* all ids, and by one that leaves them all to the server; r2 by one that  *)
(* brings its own event id, source and number and leaves the time and the  *)
(* battle's id to the server, so that all three may be after one battle.   *)
(* A referee joins p3 to it, in another team than r2 has it in, and starts *)
(* it, past the rooms.                                                     *)
(***************************************************************************)
EXTENDS RoomStart

Ready(p, team) == [team |-> team, module |-> p, ready |-> TRUE]

ReadyRoom(p, q) ==
    [NewRoom EXCEPT !.phase = "open", !.max = 2,
                    !.caps = [t \in {"red", "blue"} |-> 1],
                    !.players = [x \in {p, q} |-> Ready(x, IF x = p THEN "red" ELSE "blue")]]

TwoReadyRooms == ("r1" :> ReadyRoom("p1", "p2")) @@ ("r2" :> ReadyRoom("p1", "p3"))
TwoRooms == {TwoReadyRooms}

\* In the contended case p2 has no module, and keeps the first room from being
\* played until it leaves.
ContendedRooms == {[TwoReadyRooms EXCEPT !["r1"].players["p2"].module = NoModule]}

Command(id, source, seq, time, r, body) ==
    [id |-> id, source |-> source, seq |-> seq, time |-> time, stream |-> r, body |-> body]
StartOf(r, b, seq) ==
    Command(<<"start", seq>>, "console", seq, 1, r, [type |-> "room_started", battle |-> b])
Bare(r, body) == Command(Unset, Unset, Unset, Unset, r, body)
Post(seq, b, body) ==
    [id |-> <<"post", body>>, source |-> "referee", seq |-> seq, stream |-> b, body |-> body]
Join(p, team) == [type |-> "player_joined", player |-> p, team |-> team, module |-> p]

ContendedRequests == {
    StartOf("r1", <<"battle", 1>>, 1),
    Command(<<"go">>, "phone", 1, Unset, "r2", [type |-> "room_started", battle |-> Unset]),
    Bare("r1", [type |-> "room_started", battle |-> Unset]),
    Bare("r1", [type |-> "room_player_left", player |-> "p2"]) }
TwoRoomRequests == {
    StartOf("r1", <<"b", 1>>, 1),
    StartOf("r2", <<"b", 2>>, 2) }

RefereePosts == {
    Post(1, <<"battle", 1>>, Join("p3", "red")),
    Post(2, <<"battle", 1>>, [type |-> "battle_started"]) }
NoPosts == {}
=============================================================================
