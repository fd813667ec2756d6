---------------------------- MODULE MCLiveServer ----------------------------
(***************************************************************************)
(* A room of two ready players and one device, from before the start of    *)
(* its battle into play, with two or three commands at a time.             *)
(***************************************************************************)
EXTENDS LiveServer

ReadyRoom ==
    [NewRoom EXCEPT !.phase = "open", !.max = 2,
                    !.caps = [t \in {"red"} |-> 2],
                    !.players = [p \in Players |->
                        [team |-> "red", module |-> p, ready |-> TRUE]],
                    !.devices = [d \in {"d1"} |-> [online |-> TRUE, bound |-> Nobody]]]

Bind(p) == [type |-> "room_device_bound", device |-> "d1", player |-> p]
Heartbeat == [type |-> "room_device_heartbeat_updated", device |-> "d1", online |-> FALSE]
Position(p) == [type |-> "room_player_position_updated", player |-> p, device |-> "d1"]
Leave(p) == [type |-> "room_player_left", player |-> p]
Start == [type |-> "room_started", battle |-> TheBattle]
Unbind == [type |-> "room_device_unbound", device |-> "d1"]

LiveRoomCommands == {Bind("p1"), Heartbeat, Position("p1"), Leave("p2"), Start}
WithUnbind == {Bind("p1"), Unbind}

Join(p) == [type |-> "player_joined", player |-> p, team |-> "red"]
Started == [type |-> "battle_started"]
Hit == [type |-> "hit", attacker |-> "p2", target |-> "p1", damage |-> 1]

LiveBattleCommands == {Join("p1"), Join("p2"), Started, Hit}
NoCommands == {}
=============================================================================
