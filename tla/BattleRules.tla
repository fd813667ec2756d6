----------------------------- MODULE BattleRules -----------------------------
(***************************************************************************)
(* The battle reducer of src/src/core/battle.cpp: which events a battle    *)
(* accepts and what each of them does to it.  apply_event works on a copy  *)
(* the runtime throws away on an error, so a refused event is simply one   *)
(* that BattleAccepts does not hold of.                                    *)
(*                                                                         *)
(* A battle is a record of its phase, its players and its team scores.     *)
(* Names, module ids, the mode and the timestamps are never read by the    *)
(* reducer and are left out.                                               *)
(***************************************************************************)
EXTENDS Integers, Maps

CONSTANT FullHealth   \* the health a player joins with (100 in the code)

ASSUME FullHealthAssumption == FullHealth \in Nat \ {0}

BattlePhases == {"lobby", "active", "paused", "ended"}

\* BattleState{}: a battle exists from the first event that names it.
NewBattle == [phase |-> "lobby", players |-> EmptyMap, score |-> EmptyMap]

NewPlayer(team) ==
    [team |-> team, health |-> FullHealth, ammo |-> 0, alive |-> TRUE,
     shots |-> 0, hits |-> 0]

\* std::max(0, h)
NotBelowZero(h) == IF h > 0 THEN h ELSE 0

-----------------------------------------------------------------------------
(* Faulty variants of definitions below, one slip each: with the variant   *)
(* in place of the definition, the property it is listed with must fail.   *)

InPlayUnlessLobby(b) == b.phase # "lobby"

JoinAcceptedUntilEnded(b, e) ==
    b.phase # "ended" /\ e.player \notin DOMAIN b.players

AfterHitUnclamped(b, e) ==
    [b EXCEPT !.players[e.target].health = @ - e.damage,
              !.players[e.target].alive = b.players[e.target].health > e.damage,
              !.players[e.attacker].hits = @ + 1,
              !.score[b.players[e.attacker].team] = @ + 1]

AfterHitCreditsTarget(b, e) ==
    LET left == NotBelowZero(b.players[e.target].health - e.damage)
    IN  [b EXCEPT !.players[e.target].health = left,
                  !.players[e.target].alive = left > 0,
                  !.players[e.attacker].hits = @ + 1,
                  !.score[b.players[e.target].team] = @ + 1]

AfterPlayerStateBelievesAlive(b, e) ==
    [b EXCEPT !.players[e.player].health = NotBelowZero(e.health),
              !.players[e.player].ammo = e.ammo,
              !.players[e.player].alive = e.alive]

AfterPlayerStateOnlyLowers(b, e) ==
    [b EXCEPT !.players[e.player].health = IF e.health < @ THEN e.health ELSE @,
              !.players[e.player].ammo = e.ammo,
              !.players[e.player].alive = e.alive /\ e.health > 0]

-----------------------------------------------------------------------------
\* require_active
InPlay(b) == b.phase = "active"

Registered(b, p) == p \in DOMAIN b.players

\* The conditions under which each apply_* function returns ok.
PlayerJoinedAccepted(b, e) == b.phase = "lobby" /\ ~Registered(b, e.player)
BattleStartedAccepted(b, e) == b.phase = "lobby"
ShotAccepted(b, e) == InPlay(b) /\ Registered(b, e.player)
HitAccepted(b, e) ==
    InPlay(b) /\ Registered(b, e.attacker) /\ Registered(b, e.target)
PlayerStateAccepted(b, e) == InPlay(b) /\ Registered(b, e.player)
BattleEndedAccepted(b, e) == b.phase \in {"active", "paused"}
BattlePausedAccepted(b, e) == b.phase = "active"
BattleResumedAccepted(b, e) == b.phase = "paused"

\* apply_player_joined
AfterPlayerJoined(b, e) ==
    [b EXCEPT !.players = Put(@, e.player, NewPlayer(e.team)),
              !.score = PutNew(@, e.team, 0)]

\* apply_shot
AfterShot(b, e) ==
    [b EXCEPT !.players[e.player].shots = @ + 1,
              !.players[e.player].ammo = e.ammo]

\* apply_hit: attacker and target may be one player, of one team, and dead.
AfterHit(b, e) ==
    LET left == NotBelowZero(b.players[e.target].health - e.damage)
        hurt == [b.players EXCEPT ![e.target].health = left,
                                  ![e.target].alive = left > 0]
        team == b.players[e.attacker].team
        scored == PutNew(b.score, team, 0)
    IN  [b EXCEPT !.players = [hurt EXCEPT ![e.attacker].hits = @ + 1],
                  !.score = Put(scored, team, scored[team] + 1)]

\* apply_player_state: the module's report replaces health, ammo and alive.
AfterPlayerState(b, e) ==
    LET health == NotBelowZero(e.health)
    IN  [b EXCEPT !.players[e.player].health = health,
                  !.players[e.player].ammo = e.ammo,
                  !.players[e.player].alive = e.alive /\ health > 0]

\* The one assignment of apply_battle_started, _ended, _paused and _resumed that
\* is kept here.
AfterPhase(b, phase) == [b EXCEPT !.phase = phase]

\* core::apply_event, split into whether it succeeds ...
BattleAccepts(b, e) ==
    \/ e.type = "player_joined" /\ PlayerJoinedAccepted(b, e)
    \/ e.type = "battle_started" /\ BattleStartedAccepted(b, e)
    \/ e.type = "shot" /\ ShotAccepted(b, e)
    \/ e.type = "hit" /\ HitAccepted(b, e)
    \/ e.type = "player_state" /\ PlayerStateAccepted(b, e)
    \/ e.type = "battle_ended" /\ BattleEndedAccepted(b, e)
    \/ e.type = "battle_paused" /\ BattlePausedAccepted(b, e)
    \/ e.type = "battle_resumed" /\ BattleResumedAccepted(b, e)

\* ... and the state it leaves.
BattleApply(b, e) ==
    CASE e.type = "player_joined" -> AfterPlayerJoined(b, e)
      [] e.type = "battle_started" -> AfterPhase(b, "active")
      [] e.type = "shot" -> AfterShot(b, e)
      [] e.type = "hit" -> AfterHit(b, e)
      [] e.type = "player_state" -> AfterPlayerState(b, e)
      [] e.type = "battle_ended" -> AfterPhase(b, "ended")
      [] e.type = "battle_paused" -> AfterPhase(b, "paused")
      [] e.type = "battle_resumed" -> AfterPhase(b, "active")

=============================================================================
