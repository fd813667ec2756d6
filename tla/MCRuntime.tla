------------------------------ MODULE MCRuntime ------------------------------
(***************************************************************************)
(* The battle runtime on two battles and two event sources.  The events    *)
(* are such that every verdict occurs: a retry, one event_id with two      *)
(* contents, one sequence number used twice, one id used by two sources,   *)
(* and events the battle refuses in its phase.                             *)
(***************************************************************************)
EXTENDS EventRuntime

CONSTANT FullHealth
Rules == INSTANCE BattleRules

NewBattle == Rules!NewBattle
BattleAccepts(b, e) == Rules!BattleAccepts(b, e)
BattleApply(b, e) == Rules!BattleApply(b, e)

Join(p) == [type |-> "player_joined", player |-> p, team |-> "red"]
Start == [type |-> "battle_started"]
Shot(p) == [type |-> "shot", player |-> p, ammo |-> 1]

Event(id, source, seq, stream, body) ==
    [id |-> id, source |-> source, seq |-> seq, stream |-> stream, body |-> body]

PostedEvents == {
    Event("e1", "s1", 1, "b1", Join("p1")),
    Event("e2", "s1", 2, "b1", Start),
    Event("e2", "s1", 3, "b1", Join("p2")),
    Event("e3", "s1", 2, "b2", Join("p1")),
    Event("e4", "s2", 1, "b1", Shot("p1")),
    Event("e1", "s2", 2, "b2", Join("p2")),
    Event("e5", "s2", 3, "b1", Start) }

Battles == {"b1", "b2"}
=============================================================================
