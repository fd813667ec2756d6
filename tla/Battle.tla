------------------------------- MODULE Battle -------------------------------
(***************************************************************************)
(* One battle as the clients of apd see it: a state machine that takes any *)
(* accepted battle event next.  The reducer is BattleRules; log is a       *)
(* history of the accepted events, in acceptance order, which the code     *)
(* keeps as the lines of <battle_id>.jsonl.                                *)
(***************************************************************************)
EXTENDS BattleRules, Sequences, FiniteSets

CONSTANTS
    Players, Teams,      \* the ids a player_joined event may name
    Damages,             \* the damage a hit may carry: damage > 0, event.cpp
    Healths, Ammos,      \* what a module may report: not negative, event.cpp
    MaxEvents            \* bound on the events of one behaviour

ASSUME BattleInputsAssumption ==
    /\ Damages \subseteq Nat \ {0}
    /\ Healths \subseteq Nat /\ Ammos \subseteq Nat
    /\ MaxEvents \in Nat

VARIABLES
    battle,   \* the snapshot of the battle in ApRuntime::battles_
    log       \* history: the accepted events

vars == <<battle, log>>

\* The payloads parse_event_json lets through, one record set per event type.
Joins == [type : {"player_joined"}, player : Players, team : Teams]
Shots == [type : {"shot"}, player : Players, ammo : Ammos]
Hits == [type : {"hit"}, attacker : Players, target : Players, damage : Damages]
Reports == [type : {"player_state"}, player : Players, health : Healths,
            ammo : Ammos, alive : BOOLEAN]
Controls == [type : {"battle_started", "battle_ended",
                     "battle_paused", "battle_resumed"}]
Events == Joins \cup Shots \cup Hits \cup Reports \cup Controls

PlayerState == [team : Teams, health : Nat, ammo : Nat, alive : BOOLEAN,
                shots : Nat, hits : Nat]

-----------------------------------------------------------------------------
Init == battle = NewBattle /\ log = <<>>

\* An event the reducer accepts becomes the state and the next log line.
Accept(e) ==
    /\ Len(log) < MaxEvents
    /\ BattleAccepts(battle, e)
    /\ battle' = BattleApply(battle, e)
    /\ log' = Append(log, e)

PlayerJoined == \E e \in Joins : Accept(e)
Shot == \E e \in Shots : Accept(e)
Hit == \E e \in Hits : Accept(e)
PlayerStateUpdated == \E e \in Reports : Accept(e)
Control(type) == \E e \in Controls : e.type = type /\ Accept(e)
BattleStarted == Control("battle_started")
BattleEnded == Control("battle_ended")
BattlePaused == Control("battle_paused")
BattleResumed == Control("battle_resumed")

Next ==
    \/ PlayerJoined \/ BattleStarted \/ Shot \/ Hit \/ PlayerStateUpdated
    \/ BattlePaused \/ BattleResumed \/ BattleEnded

Spec == Init /\ [][Next]_vars

-----------------------------------------------------------------------------
BattleShape(b) ==
    /\ b = [phase |-> b.phase, players |-> b.players, score |-> b.score]
    /\ b.phase \in BattlePhases
    /\ IsMap(b.players, Players, PlayerState)
    /\ IsMap(b.score, Teams, Nat)
    /\ DOMAIN b.score = {b.players[p].team : p \in DOMAIN b.players}

\* A battle is a record of its phase, of its registered players with
\* non-negative counters, and of one score for each team a player is in: the
\* second try_emplace of apply_hit never finds its team missing.
TypeOK == BattleShape(battle) /\ log \in Seq(Events)

\* The positions in the log of the hits scored by players of a team.
HitsScoredFor(t) ==
    {i \in DOMAIN log : /\ log[i].type = "hit"
                        /\ battle.players[log[i].attacker].team = t}

\* A team's score is the number of accepted hits its members landed, over the
\* whole battle: through pauses, self hits, friendly fire and hits by or on
\* players who are down.
ScoreIsTheHits ==
    \A t \in DOMAIN battle.score : battle.score[t] = Cardinality(HitsScoredFor(t))

\* A player who is shown alive has health left, whichever of a hit or a
\* module's own report came last.
AliveNeedsHealth ==
    \A p \in DOMAIN battle.players :
        battle.players[p].alive => battle.players[p].health > 0

\* The sum of the numbers in s from position i on.
SumSince(s, i) ==
    LET sum[n \in 0 .. Len(s)] == IF n < i THEN 0 ELSE sum[n - 1] + s[n]
    IN  sum[Len(s)]

\* The damage the event e deals to p.
Dealt(e, p) == IF e.type = "hit" /\ e.target = p THEN e.damage ELSE 0

ReportsOn(p) ==
    {i \in DOMAIN log : log[i].type = "player_state" /\ log[i].player = p}
LastReportOn(p) ==
    IF ReportsOn(p) = {} THEN 0
    ELSE CHOOSE i \in ReportsOn(p) : \A j \in ReportsOn(p) : j <= i

HealthByLog(p) ==
    LET last == LastReportOn(p)
        base == IF last = 0 THEN FullHealth ELSE log[last].health
    IN  NotBelowZero(base - SumSince([i \in DOMAIN log |-> Dealt(log[i], p)], last + 1))

\* A player's health is what the module last reported, or the full health
\* before any report, less all the damage since, and never below zero: the
\* step by step clamping of apply_hit loses and invents nothing.
HealthAddsUp ==
    \A p \in DOMAIN battle.players : battle.players[p].health = HealthByLog(p)

Gameplay == {"shot", "hit", "player_state"}

\* Every gameplay event of the log happened in play: the nearest event before
\* it that is not gameplay started or resumed the battle.  So nothing is
\* counted in the lobby, during a pause or after the end, whatever the order
\* in which the clients' commands were accepted.
GameplayInPlay ==
    \A i \in DOMAIN log : log[i].type \in Gameplay =>
        \E j \in 1 .. i - 1 :
            /\ log[j].type \in {"battle_started", "battle_resumed"}
            /\ \A k \in j + 1 .. i - 1 : log[k].type \in Gameplay

\* Once the battle has left the lobby its roster is settled: no player comes,
\* also into a battle that was started with nobody in it, goes or changes side,
\* and no counter of a player runs backwards.
RosterSettled ==
    [][/\ battle.phase # "lobby" => DOMAIN battle'.players = DOMAIN battle.players
       /\ \A p \in DOMAIN battle.players :
            /\ p \in DOMAIN battle'.players
            /\ battle'.players[p].team = battle.players[p].team
            /\ battle'.players[p].shots >= battle.players[p].shots
            /\ battle'.players[p].hits >= battle.players[p].hits]_vars

=============================================================================
