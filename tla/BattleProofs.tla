---------------------------- MODULE BattleProofs ----------------------------
(***************************************************************************)
(* Theorems about Battle, for every set of players, teams and inputs and   *)
(* for logs of any length.                                                 *)
(***************************************************************************)
EXTENDS Battle, DataLemmas

USE FullHealthAssumption, BattleInputsAssumption

LEMMA ClampIsNat ==
    ASSUME NEW h \in Int
    PROVE  NotBelowZero(h) \in Nat
BY DEF NotBelowZero

LEMMA JoinShape ==
    ASSUME NEW b, BattleShape(b), NEW e \in Joins, PlayerJoinedAccepted(b, e),
           NEW c, c = AfterPlayerJoined(b, e)
    PROVE  BattleShape(c)
<1>1. /\ c = [phase |-> c.phase, players |-> c.players, score |-> c.score]
      /\ c.phase = b.phase
      /\ c.players = Put(b.players, e.player, NewPlayer(e.team))
      /\ c.score = PutNew(b.score, e.team, 0)
  BY DEF AfterPlayerJoined, BattleShape
<1>2. NewPlayer(e.team) \in PlayerState
  BY DEF NewPlayer, PlayerState, Joins
<1>3. IsMap(c.players, Players, PlayerState)
  BY <1>1, <1>2 DEF IsMap, Put, BattleShape, Joins
<1>4. IsMap(c.score, Teams, Nat)
  BY <1>1 DEF IsMap, Put, PutNew, BattleShape, Joins
<1>5. DOMAIN c.score = {c.players[p].team : p \in DOMAIN c.players}
  <2>1. DOMAIN c.score = DOMAIN b.score \cup {e.team}
    BY <1>1 DEF Put, PutNew
  <2>2. /\ DOMAIN c.players = DOMAIN b.players \cup {e.player}
        /\ e.player \notin DOMAIN b.players
        /\ \A p \in DOMAIN b.players : c.players[p] = b.players[p]
        /\ c.players[e.player].team = e.team
    BY <1>1 DEF Put, NewPlayer, PlayerJoinedAccepted, Registered
  <2> QED
    BY <2>1, <2>2 DEF BattleShape
<1> QED
  BY <1>1, <1>3, <1>4, <1>5 DEF BattleShape

\* An update that keeps the players, their teams and the scored teams keeps
\* the shape.
LEMMA SameTeamsShape ==
    ASSUME NEW b, BattleShape(b),
           NEW c, c = [phase |-> c.phase, players |-> c.players, score |-> c.score],
           c.phase \in BattlePhases,
           c.players \in [DOMAIN b.players -> PlayerState],
           \A p \in DOMAIN b.players : c.players[p].team = b.players[p].team,
           c.score \in [DOMAIN b.score -> Nat]
    PROVE  BattleShape(c)
<1>1. DOMAIN c.players = DOMAIN b.players /\ DOMAIN c.score = DOMAIN b.score
  OBVIOUS
<1>2. {c.players[p].team : p \in DOMAIN c.players}
        = {b.players[p].team : p \in DOMAIN b.players}
  BY <1>1
<1> QED
  BY <1>1, <1>2 DEF BattleShape, IsMap

LEMMA ShotShape ==
    ASSUME NEW b, BattleShape(b), NEW e \in Shots, ShotAccepted(b, e),
           NEW c, c = AfterShot(b, e)
    PROVE  BattleShape(c)
<1>1. /\ c = [phase |-> c.phase, players |-> c.players, score |-> c.score]
      /\ c.phase = b.phase
      /\ c.players = [b.players EXCEPT ![e.player].shots = @ + 1,
                                       ![e.player].ammo = e.ammo]
      /\ c.score = b.score
  BY DEF AfterShot, BattleShape
<1>2. e.player \in DOMAIN b.players /\ b.players[e.player] \in PlayerState
  BY DEF ShotAccepted, Registered, BattleShape, IsMap
<1>3. c.players \in [DOMAIN b.players -> PlayerState]
  BY <1>1, <1>2 DEF BattleShape, IsMap, PlayerState, Shots
<1>4. \A p \in DOMAIN b.players : c.players[p].team = b.players[p].team
  BY <1>1, <1>2 DEF BattleShape, IsMap, PlayerState
<1> QED
  BY <1>1, <1>3, <1>4, SameTeamsShape DEF BattleShape, IsMap

LEMMA HitLeavesNat ==
    ASSUME NEW b, BattleShape(b), NEW e \in Hits, HitAccepted(b, e)
    PROVE  NotBelowZero(b.players[e.target].health - e.damage) \in Nat
<1>1. b.players[e.target].health \in Nat
  BY DEF HitAccepted, Registered, BattleShape, IsMap, PlayerState
<1>2. e.damage \in Nat
  BY DEF Hits
<1> QED
  BY <1>1, <1>2, ClampIsNat

LEMMA HurtIsTyped ==
    ASSUME NEW b, BattleShape(b), NEW e \in Hits, HitAccepted(b, e),
           NEW left \in Nat, NEW up \in BOOLEAN
    PROVE  [b.players EXCEPT ![e.target].health = left, ![e.target].alive = up]
               \in [DOMAIN b.players -> PlayerState]
BY DEF HitAccepted, Registered, BattleShape, IsMap, PlayerState

\* apply_hit: of the players only health, alive and the hit count change.
LEMMA HitPlayers ==
    ASSUME NEW b, BattleShape(b), NEW e \in Hits, HitAccepted(b, e),
           NEW c, c = AfterHit(b, e)
    PROVE  /\ c.players \in [DOMAIN b.players -> PlayerState]
           /\ \A p \in DOMAIN b.players : c.players[p].team = b.players[p].team
<1> DEFINE left == NotBelowZero(b.players[e.target].health - e.damage)
           up == left > 0
           hurt == [b.players EXCEPT ![e.target].health = left,
                                     ![e.target].alive = up]
<1>1. c.players = [hurt EXCEPT ![e.attacker].hits = @ + 1]
  BY DEF AfterHit, BattleShape
<1>2. /\ e.attacker \in DOMAIN b.players /\ b.players[e.attacker] \in PlayerState
      /\ e.target \in DOMAIN b.players /\ b.players[e.target] \in PlayerState
  BY DEF HitAccepted, Registered, BattleShape, IsMap
<1>3. left \in Nat /\ up \in BOOLEAN
  BY HitLeavesNat
<1>4. c.players \in [DOMAIN b.players -> PlayerState]
  <2> HIDE DEF left, up
  <2>1. hurt \in [DOMAIN b.players -> PlayerState]
    BY <1>3, HurtIsTyped
  <2> HIDE DEF hurt
  <2> QED
    BY <1>1, <1>2, <2>1 DEF PlayerState
<1>5. \A p \in DOMAIN b.players : c.players[p].team = b.players[p].team
  <2> HIDE DEF left, up
  <2> QED
    BY <1>1, <1>2 DEF BattleShape, IsMap, PlayerState
<1> QED
  BY <1>4, <1>5

\* apply_hit: the team of the attacker is scored already, so its try_emplace
\* adds nothing and the score of that team alone goes up by one.
LEMMA HitShape ==
    ASSUME NEW b, BattleShape(b), NEW e \in Hits, HitAccepted(b, e),
           NEW c, c = AfterHit(b, e)
    PROVE  /\ BattleShape(c)
           /\ b.players[e.attacker].team \in DOMAIN b.score
           /\ c.score = [b.score EXCEPT ![b.players[e.attacker].team] = @ + 1]
<1> DEFINE team == b.players[e.attacker].team
           scored == PutNew(b.score, team, 0)
<1>1. /\ c = [phase |-> c.phase, players |-> c.players, score |-> c.score]
      /\ c.phase = b.phase
      /\ c.score = Put(scored, team, scored[team] + 1)
  BY DEF AfterHit, BattleShape
<1>2. team \in DOMAIN b.score
  BY DEF HitAccepted, Registered, BattleShape
<1>3. c.score = [b.score EXCEPT ![team] = @ + 1]
  <2>1. scored = b.score
    BY <1>2 DEF PutNew
  <2>2. DOMAIN b.score \cup {team} = DOMAIN b.score
    BY <1>2
  <2> HIDE DEF team, scored
  <2> QED
    BY <1>1, <1>2, <2>1, <2>2 DEF Put, BattleShape, IsMap
<1>4. BattleShape(c)
  <2>1. c.phase \in BattlePhases
    BY <1>1 DEF BattleShape
  <2>2. c.score \in [DOMAIN b.score -> Nat]
    BY <1>2, <1>3 DEF BattleShape, IsMap
  <2>3. /\ c.players \in [DOMAIN b.players -> PlayerState]
        /\ \A p \in DOMAIN b.players : c.players[p].team = b.players[p].team
    BY HitPlayers
  <2> QED
    BY <1>1, <2>1, <2>2, <2>3, SameTeamsShape
<1> QED
  BY <1>2, <1>3, <1>4

LEMMA PlayerStateShape ==
    ASSUME NEW b, BattleShape(b), NEW e \in Reports, PlayerStateAccepted(b, e),
           NEW c, c = AfterPlayerState(b, e)
    PROVE  /\ BattleShape(c)
           /\ DOMAIN c.players = DOMAIN b.players
           /\ \A p \in DOMAIN b.players : c.players[p].team = b.players[p].team
           /\ c.score = b.score
<1> DEFINE health == NotBelowZero(e.health)
           up == e.alive /\ health > 0
<1>1. /\ c = [phase |-> c.phase, players |-> c.players, score |-> c.score]
      /\ c.phase = b.phase
      /\ c.players = [b.players EXCEPT ![e.player].health = health,
                                       ![e.player].ammo = e.ammo,
                                       ![e.player].alive = up]
      /\ c.score = b.score
  BY DEF AfterPlayerState, BattleShape
<1>2. e.player \in DOMAIN b.players /\ b.players[e.player] \in PlayerState
  BY DEF PlayerStateAccepted, Registered, BattleShape, IsMap
<1>3. health \in Nat
  <2>1. e.health \in Nat
    BY DEF Reports
  <2> QED
    BY <2>1, ClampIsNat
<1>4. c.players \in [DOMAIN b.players -> PlayerState]
  <2>1. up \in BOOLEAN
    BY DEF Reports
  <2> HIDE DEF health, up
  <2> QED
    BY <1>1, <1>2, <1>3, <2>1 DEF BattleShape, IsMap, PlayerState, Reports
<1>5. \A p \in DOMAIN b.players : c.players[p].team = b.players[p].team
  <2> HIDE DEF health, up
  <2> QED
    BY <1>1, <1>2 DEF BattleShape, IsMap, PlayerState
<1> QED
  BY <1>1, <1>4, <1>5, SameTeamsShape DEF BattleShape, IsMap

LEMMA PhaseShape ==
    ASSUME NEW b, BattleShape(b), NEW phase \in BattlePhases,
           NEW c, c = AfterPhase(b, phase)
    PROVE  /\ BattleShape(c)
           /\ c.phase = phase
           /\ c.players = b.players
           /\ c.score = b.score
BY DEF AfterPhase, BattleShape

-----------------------------------------------------------------------------
(* What each action does, in terms of the reducer's operators.             *)

LEMMA JoinStep ==
    ASSUME NEW e \in Joins, Accept(e)
    PROVE  /\ PlayerJoinedAccepted(battle, e)
           /\ battle' = AfterPlayerJoined(battle, e)
           /\ log' = Append(log, e)
<1>1. e.type = "player_joined"
  BY DEF Joins
<1> QED
  BY <1>1 DEF Accept, BattleAccepts, BattleApply

LEMMA ShotStep ==
    ASSUME NEW e \in Shots, Accept(e)
    PROVE  /\ ShotAccepted(battle, e)
           /\ battle' = AfterShot(battle, e)
           /\ log' = Append(log, e)
<1>1. e.type = "shot"
  BY DEF Shots
<1> QED
  BY <1>1 DEF Accept, BattleAccepts, BattleApply

LEMMA HitStep ==
    ASSUME NEW e \in Hits, Accept(e)
    PROVE  /\ HitAccepted(battle, e)
           /\ battle' = AfterHit(battle, e)
           /\ log' = Append(log, e)
<1>1. e.type = "hit"
  BY DEF Hits
<1> QED
  BY <1>1 DEF Accept, BattleAccepts, BattleApply

LEMMA ReportStep ==
    ASSUME NEW e \in Reports, Accept(e)
    PROVE  /\ PlayerStateAccepted(battle, e)
           /\ battle' = AfterPlayerState(battle, e)
           /\ log' = Append(log, e)
<1>1. e.type = "player_state"
  BY DEF Reports
<1> QED
  BY <1>1 DEF Accept, BattleAccepts, BattleApply

LEMMA ControlStep ==
    ASSUME NEW e \in Controls, Accept(e)
    PROVE  /\ \E phase \in {"active", "paused", "ended"} :
                  /\ battle' = AfterPhase(battle, phase)
                  /\ phase = "active" => e.type \in {"battle_started", "battle_resumed"}
           /\ log' = Append(log, e)
<1>1. e.type \in {"battle_started", "battle_ended", "battle_paused", "battle_resumed"}
  BY DEF Controls
<1>2. CASE e.type = "battle_started"
  BY <1>2 DEF Accept, BattleAccepts, BattleApply
<1>3. CASE e.type = "battle_ended"
  BY <1>3 DEF Accept, BattleAccepts, BattleApply
<1>4. CASE e.type = "battle_paused"
  BY <1>4 DEF Accept, BattleAccepts, BattleApply
<1>5. CASE e.type = "battle_resumed"
  BY <1>5 DEF Accept, BattleAccepts, BattleApply
<1> QED
  BY <1>1, <1>2, <1>3, <1>4, <1>5

\* Every action is an accepted event of one of the five payload shapes.
LEMMA NextIsAccept ==
    ASSUME Next
    PROVE  \/ \E e \in Joins : Accept(e)
           \/ \E e \in Shots : Accept(e)
           \/ \E e \in Hits : Accept(e)
           \/ \E e \in Reports : Accept(e)
           \/ \E e \in Controls : Accept(e)
BY DEF Next, PlayerJoined, BattleStarted, Shot, Hit, PlayerStateUpdated,
       BattlePaused, BattleResumed, BattleEnded, Control

-----------------------------------------------------------------------------
\* The snapshot and the log are well formed in every reachable state; in
\* particular exactly the teams of registered players carry a score.
THEOREM TypeCorrect == Spec => []TypeOK
<1>1. Init => TypeOK
  BY DEF Init, TypeOK, NewBattle, BattleShape, BattlePhases, IsMap, EmptyMap
<1>2. TypeOK /\ [Next]_vars => TypeOK'
  <2> SUFFICES ASSUME TypeOK, [Next]_vars
               PROVE  TypeOK'
    OBVIOUS
  <2> USE DEF TypeOK
  <2>1. CASE \E e \in Joins : Accept(e)
    <3>1. PICK e \in Joins : Accept(e)
      BY <2>1
    <3> QED
      BY <3>1, JoinStep, JoinShape, AppendProperties DEF Events
  <2>2. CASE \E e \in Shots : Accept(e)
    <3>1. PICK e \in Shots : Accept(e)
      BY <2>2
    <3> QED
      BY <3>1, ShotStep, ShotShape, AppendProperties DEF Events
  <2>3. CASE \E e \in Hits : Accept(e)
    <3>1. PICK e \in Hits : Accept(e)
      BY <2>3
    <3>2. HitAccepted(battle, e) /\ battle' = AfterHit(battle, e) /\ log' = Append(log, e)
      BY <3>1, HitStep
    <3>3. BattleShape(battle')
      BY <3>2, HitShape
    <3>4. log' \in Seq(Events)
      BY <3>2, AppendProperties DEF Events
    <3> QED
      BY <3>3, <3>4
  <2>4. CASE \E e \in Reports : Accept(e)
    <3>1. PICK e \in Reports : Accept(e)
      BY <2>4
    <3> QED
      BY <3>1, ReportStep, PlayerStateShape, AppendProperties DEF Events
  <2>5. CASE \E e \in Controls : Accept(e)
    <3>1. PICK e \in Controls : Accept(e)
      BY <2>5
    <3> QED
      BY <3>1, ControlStep, PhaseShape, AppendProperties DEF Events, BattlePhases
  <2>6. CASE UNCHANGED vars
    BY <2>6 DEF vars
  <2> QED
    BY <2>1, <2>2, <2>3, <2>4, <2>5, <2>6, NextIsAccept
<1> QED
  BY <1>1, <1>2, PTL DEF Spec

-----------------------------------------------------------------------------
(* Alive.                                                                  *)

\* A player who is shown alive has health left, in every reachable state.
THEOREM AliveCorrect == Spec => []AliveNeedsHealth
<1>1. Init => AliveNeedsHealth
  BY DEF Init, AliveNeedsHealth, NewBattle, EmptyMap
<1>2. TypeOK /\ AliveNeedsHealth /\ [Next]_vars => AliveNeedsHealth'
  <2> SUFFICES ASSUME TypeOK, AliveNeedsHealth, [Next]_vars,
                      NEW p \in DOMAIN battle'.players, battle'.players[p].alive
               PROVE  battle'.players[p].health > 0
    BY DEF AliveNeedsHealth
  <2> USE DEF AliveNeedsHealth
  <2>1. CASE \E e \in Joins : Accept(e)
    <3>1. PICK e \in Joins : PlayerJoinedAccepted(battle, e) /\ battle' = AfterPlayerJoined(battle, e)
      BY <2>1, JoinStep
    <3>2. battle'.players = Put(battle.players, e.player, NewPlayer(e.team))
      BY <3>1 DEF AfterPlayerJoined, TypeOK, BattleShape
    <3> QED
      BY <3>2 DEF Put, NewPlayer
  <2>2. CASE \E e \in Shots : Accept(e)
    <3>1. PICK e \in Shots : ShotAccepted(battle, e) /\ battle' = AfterShot(battle, e)
      BY <2>2, ShotStep
    <3>2. battle'.players = [battle.players EXCEPT ![e.player].shots = @ + 1,
                                                   ![e.player].ammo = e.ammo]
      BY <3>1 DEF AfterShot, TypeOK, BattleShape
    <3> QED
      BY <3>2 DEF TypeOK, BattleShape, IsMap, PlayerState
  <2>3. CASE \E e \in Hits : Accept(e)
    <3>1. PICK e \in Hits : HitAccepted(battle, e) /\ battle' = AfterHit(battle, e)
      BY <2>3, HitStep
    <3> DEFINE left == NotBelowZero(battle.players[e.target].health - e.damage)
               up == left > 0
               hurt == [battle.players EXCEPT ![e.target].health = left,
                                              ![e.target].alive = up]
    <3>2. battle'.players = [hurt EXCEPT ![e.attacker].hits = @ + 1]
      BY <3>1 DEF AfterHit, TypeOK, BattleShape
    <3>3. p \in DOMAIN battle.players
      BY <3>2
    <3>4. /\ battle.players[p] \in PlayerState
          /\ p # e.target => hurt[p] = battle.players[p]
          /\ p = e.target => hurt[p].health = left /\ hurt[p].alive = up
      BY <3>3 DEF TypeOK, BattleShape, IsMap, PlayerState
    <3>5. hurt \in [DOMAIN battle.players -> PlayerState]
      <4>1. left \in Nat
        BY <3>1, HitLeavesNat DEF TypeOK
      <4>2. up \in BOOLEAN
        OBVIOUS
      <4> HIDE DEF left, up
      <4> QED
        BY <3>1, <4>1, <4>2, HurtIsTyped DEF TypeOK
    <3>6. battle'.players[p].alive = hurt[p].alive /\ battle'.players[p].health = hurt[p].health
      <4> HIDE DEF hurt
      <4>1. hurt[p] \in PlayerState
        BY <3>3, <3>5
      <4>2. battle'.players[p] = IF p = e.attacker THEN [hurt[p] EXCEPT !.hits = @ + 1]
                                                   ELSE hurt[p]
        BY <3>2, <3>3, <3>5
      <4> QED
        BY <4>1, <4>2 DEF PlayerState
    <3> QED
      BY <3>3, <3>4, <3>6
  <2>4. CASE \E e \in Reports : Accept(e)
    <3>1. PICK e \in Reports : PlayerStateAccepted(battle, e) /\ battle' = AfterPlayerState(battle, e)
      BY <2>4, ReportStep
    <3> DEFINE health == NotBelowZero(e.health)
               up == e.alive /\ health > 0
    <3>2. battle'.players = [battle.players EXCEPT ![e.player].health = health,
                                                   ![e.player].ammo = e.ammo,
                                                   ![e.player].alive = up]
      BY <3>1 DEF AfterPlayerState, TypeOK, BattleShape
    <3>3. p \in DOMAIN battle.players
      BY <3>2
    <3>4. CASE p = e.player
      <4>1. battle'.players[p].health = health /\ battle'.players[p].alive = up
        <5> HIDE DEF health, up
        <5> QED
          BY <3>2, <3>3, <3>4 DEF TypeOK, BattleShape, IsMap, PlayerState
      <4> QED
        BY <4>1
    <3>5. CASE p # e.player
      <4>1. battle'.players[p] = battle.players[p]
        BY <3>2, <3>3, <3>5 DEF TypeOK, BattleShape, IsMap
      <4> QED
        BY <3>3, <4>1
    <3> QED
      BY <3>4, <3>5
  <2>5. CASE \E e \in Controls : Accept(e)
    <3>1. PICK phase \in {"active", "paused", "ended"} : battle' = AfterPhase(battle, phase)
      BY <2>5, ControlStep
    <3>2. battle'.players = battle.players
      BY <3>1, PhaseShape DEF TypeOK, BattlePhases
    <3> QED
      BY <3>2
  <2>6. CASE UNCHANGED vars
    BY <2>6 DEF vars
  <2> QED
    BY <2>1, <2>2, <2>3, <2>4, <2>5, <2>6, NextIsAccept
<1> QED
  BY <1>1, <1>2, TypeCorrect, PTL DEF Spec

-----------------------------------------------------------------------------
(* Scores.                                                                 *)

\* ScoreIsTheHits is not inductive alone: the attackers of old hits must still
\* be on the roster, or a join could give an old hit a new team.
HittersRegistered ==
    \A i \in DOMAIN log : log[i].type = "hit" => log[i].attacker \in DOMAIN battle.players

LEMMA LogGrows ==
    ASSUME TypeOK, NEW e \in Events, log' = Append(log, e)
    PROVE  /\ DOMAIN log = 1 .. Len(log) /\ Len(log) \in Nat
           /\ DOMAIN log' = 1 .. Len(log) + 1
           /\ \A i \in DOMAIN log : log'[i] = log[i]
           /\ log'[Len(log) + 1] = e
<1>1. log \in Seq(Events) /\ Len(log) \in Nat /\ DOMAIN log = 1 .. Len(log)
  BY LenProperties DEF TypeOK
<1>2. log' \in Seq(Events) /\ Len(log') = Len(log) + 1
  BY <1>1, AppendProperties
<1>3. DOMAIN log' = 1 .. Len(log')
  BY <1>2, LenProperties
<1> QED
  BY <1>1, <1>2, <1>3, AppendProperties

LEMMA HitsAreFinite ==
    ASSUME TypeOK, NEW t
    PROVE  /\ IsFiniteSet(HitsScoredFor(t))
           /\ Len(log) + 1 \notin HitsScoredFor(t)
<1>1. Len(log) \in Nat /\ DOMAIN log = 1 .. Len(log)
  BY LenProperties DEF TypeOK
<1>2. IsFiniteSet(1 .. Len(log))
  BY <1>1, FS_Interval
<1>3. HitsScoredFor(t) \subseteq 1 .. Len(log)
  BY <1>1 DEF HitsScoredFor
<1> QED
  BY <1>1, <1>2, <1>3, FS_Subset

\* An event that is not a hit, and moves nobody to another team, leaves the
\* hits of every team alone.
LEMMA QuietEvent ==
    ASSUME TypeOK, HittersRegistered,
           NEW e \in Events, e.type # "hit", log' = Append(log, e),
           DOMAIN battle.players \subseteq DOMAIN battle'.players,
           \A p \in DOMAIN battle.players :
               battle'.players[p].team = battle.players[p].team
    PROVE  /\ HittersRegistered'
           /\ \A t : HitsScoredFor(t)' = HitsScoredFor(t)
<1>1. HittersRegistered'
  BY LogGrows DEF HittersRegistered
<1>2. ASSUME NEW t PROVE HitsScoredFor(t)' = HitsScoredFor(t)
  <2>1. ASSUME NEW i \in HitsScoredFor(t) PROVE i \in HitsScoredFor(t)'
    BY <2>1, LogGrows DEF HitsScoredFor, HittersRegistered
  <2>2. ASSUME NEW i \in HitsScoredFor(t)' PROVE i \in HitsScoredFor(t)
    BY <2>2, LogGrows DEF HitsScoredFor, HittersRegistered
  <2> QED
    BY <2>1, <2>2
<1> QED
  BY <1>1, <1>2

\* A team's score is the number of hits its members landed.
THEOREM ScoreCorrect == Spec => []ScoreIsTheHits
<1> DEFINE Inv == HittersRegistered /\ ScoreIsTheHits
<1>1. Init => Inv
  BY DEF Init, HittersRegistered, ScoreIsTheHits, NewBattle, EmptyMap
<1>2. TypeOK /\ Inv /\ [Next]_vars => Inv'
  <2> SUFFICES ASSUME TypeOK, HittersRegistered, ScoreIsTheHits, [Next]_vars
               PROVE  Inv'
    OBVIOUS
  <2>1. CASE \E e \in Joins : Accept(e)
    <3>1. PICK e \in Joins : /\ PlayerJoinedAccepted(battle, e)
                             /\ battle' = AfterPlayerJoined(battle, e)
                             /\ log' = Append(log, e)
      BY <2>1, JoinStep
    <3>2. /\ battle'.players = Put(battle.players, e.player, NewPlayer(e.team))
          /\ battle'.score = PutNew(battle.score, e.team, 0)
      BY <3>1 DEF AfterPlayerJoined, TypeOK, BattleShape
    <3>3. /\ DOMAIN battle.players \subseteq DOMAIN battle'.players
          /\ \A p \in DOMAIN battle.players :
                 battle'.players[p].team = battle.players[p].team
      BY <3>1, <3>2 DEF Put, PlayerJoinedAccepted, Registered
    <3>4. e \in Events /\ e.type # "hit"
      BY DEF Joins, Events
    <3>5. HittersRegistered' /\ \A t : HitsScoredFor(t)' = HitsScoredFor(t)
      BY <3>1, <3>3, <3>4, QuietEvent
    <3>6. ASSUME NEW t \in DOMAIN battle'.score
          PROVE  battle'.score[t] = Cardinality(HitsScoredFor(t))
      <4>1. CASE t \in DOMAIN battle.score
        BY <3>2, <4>1 DEF ScoreIsTheHits, Put, PutNew
      <4>2. CASE t \notin DOMAIN battle.score
        <5>1. battle'.score[t] = 0
          BY <3>2, <3>6, <4>2 DEF Put, PutNew
        <5>2. HitsScoredFor(t) = {}
          BY <4>2 DEF HitsScoredFor, HittersRegistered, TypeOK, BattleShape
        <5> QED
          BY <5>1, <5>2, FS_EmptySet
      <4> QED
        BY <4>1, <4>2
    <3> QED
      BY <3>5, <3>6 DEF ScoreIsTheHits
  <2>2. CASE \E e \in Shots : Accept(e)
    <3>1. PICK e \in Shots : /\ ShotAccepted(battle, e)
                             /\ battle' = AfterShot(battle, e)
                             /\ log' = Append(log, e)
      BY <2>2, ShotStep
    <3>2. /\ battle'.players = [battle.players EXCEPT ![e.player].shots = @ + 1,
                                                      ![e.player].ammo = e.ammo]
          /\ battle'.score = battle.score
      BY <3>1 DEF AfterShot, TypeOK, BattleShape
    <3>3. /\ DOMAIN battle.players \subseteq DOMAIN battle'.players
          /\ \A p \in DOMAIN battle.players :
                 battle'.players[p].team = battle.players[p].team
      BY <3>2 DEF TypeOK, BattleShape, IsMap, PlayerState
    <3>4. e \in Events /\ e.type # "hit"
      BY DEF Shots, Events
    <3> QED
      BY <3>1, <3>2, <3>3, <3>4, QuietEvent DEF ScoreIsTheHits
  <2>3. CASE \E e \in Hits : Accept(e)
    <3>1. PICK e \in Hits : /\ HitAccepted(battle, e)
                            /\ battle' = AfterHit(battle, e)
                            /\ log' = Append(log, e)
      BY <2>3, HitStep
    <3>0. PICK team : team = battle.players[e.attacker].team
      OBVIOUS
    <3>2. /\ team \in DOMAIN battle.score
          /\ battle'.score = [battle.score EXCEPT ![team] = @ + 1]
      BY <3>0, <3>1, HitShape DEF TypeOK
    <3>3. /\ DOMAIN battle'.players = DOMAIN battle.players
          /\ \A p \in DOMAIN battle.players :
                 battle'.players[p].team = battle.players[p].team
      <4>1. BattleShape(battle)
        BY DEF TypeOK
      <4> QED
        BY <3>1, <4>1, HitPlayers
    <3>4. e \in Events /\ e.type = "hit" /\ e.attacker \in DOMAIN battle.players
      BY <3>1 DEF Hits, Events, HitAccepted, Registered
    <3>5. HittersRegistered'
      BY <3>1, <3>3, <3>4, LogGrows DEF HittersRegistered
    <3>6. ASSUME NEW t, t # team PROVE HitsScoredFor(t)' = HitsScoredFor(t)
      <4>1. ASSUME NEW i \in HitsScoredFor(t) PROVE i \in HitsScoredFor(t)'
        BY <3>0, <3>1, <3>3, <3>4, <4>1, LogGrows DEF HitsScoredFor, HittersRegistered
      <4>2. ASSUME NEW i \in HitsScoredFor(t)' PROVE i \in HitsScoredFor(t)
        BY <3>0, <3>1, <3>3, <3>4, <3>6, <4>2, LogGrows DEF HitsScoredFor, HittersRegistered
      <4> QED
        BY <4>1, <4>2
    <3>7. HitsScoredFor(team)' = HitsScoredFor(team) \cup {Len(log) + 1}
      <4>1. ASSUME NEW i \in HitsScoredFor(team) PROVE i \in HitsScoredFor(team)'
        BY <3>0, <3>1, <3>3, <3>4, <4>1, LogGrows DEF HitsScoredFor, HittersRegistered
      <4>2. Len(log) + 1 \in HitsScoredFor(team)'
        BY <3>0, <3>1, <3>3, <3>4, LogGrows DEF HitsScoredFor
      <4>3. ASSUME NEW i \in HitsScoredFor(team)', i # Len(log) + 1
            PROVE  i \in HitsScoredFor(team)
        BY <3>0, <3>1, <3>3, <3>4, <4>3, LogGrows DEF HitsScoredFor, HittersRegistered
      <4> QED
        BY <4>1, <4>2, <4>3
    <3>8. ScoreIsTheHits'
      <4> SUFFICES ASSUME NEW t \in DOMAIN battle'.score
                   PROVE  battle'.score[t] = Cardinality(HitsScoredFor(t)')
        BY DEF ScoreIsTheHits
      <4>1. t \in DOMAIN battle.score /\ battle.score[t] = Cardinality(HitsScoredFor(t))
        BY <3>2 DEF ScoreIsTheHits
      <4>2. CASE t # team
        BY <3>2, <3>6, <4>1, <4>2
      <4>3. CASE t = team
        <5>1. Cardinality(HitsScoredFor(t)') = Cardinality(HitsScoredFor(t)) + 1
          <6>1. IsFiniteSet(HitsScoredFor(t)) /\ Len(log) + 1 \notin HitsScoredFor(t)
            BY HitsAreFinite
          <6>2. Cardinality(HitsScoredFor(t) \cup {Len(log) + 1})
                  = Cardinality(HitsScoredFor(t)) + 1
            BY <6>1, FS_AddElement
          <6> QED
            BY <3>7, <4>3, <6>2
        <5> QED
          BY <3>2, <4>1, <4>3, <5>1
      <4> QED
        BY <4>2, <4>3
    <3> QED
      BY <3>5, <3>8
  <2>4. CASE \E e \in Reports : Accept(e)
    <3>1. PICK e \in Reports : /\ PlayerStateAccepted(battle, e)
                               /\ battle' = AfterPlayerState(battle, e)
                               /\ log' = Append(log, e)
      BY <2>4, ReportStep
    <3>2. /\ DOMAIN battle.players \subseteq DOMAIN battle'.players
          /\ \A p \in DOMAIN battle.players :
                 battle'.players[p].team = battle.players[p].team
          /\ battle'.score = battle.score
      BY <3>1, PlayerStateShape DEF TypeOK
    <3>3. e \in Events /\ e.type # "hit"
      BY DEF Reports, Events
    <3> QED
      BY <3>1, <3>2, <3>3, QuietEvent DEF ScoreIsTheHits
  <2>5. CASE \E e \in Controls : Accept(e)
    <3>1. PICK e \in Controls : /\ log' = Append(log, e)
                                /\ \E phase \in {"active", "paused", "ended"} :
                                       battle' = AfterPhase(battle, phase)
      BY <2>5, ControlStep
    <3>2. battle'.players = battle.players /\ battle'.score = battle.score
      BY <3>1, PhaseShape DEF TypeOK, BattlePhases
    <3>3. e \in Events /\ e.type # "hit"
      BY DEF Controls, Events
    <3> QED
      BY <3>1, <3>2, <3>3, QuietEvent DEF ScoreIsTheHits
  <2>6. CASE UNCHANGED vars
    BY <2>6 DEF vars, HittersRegistered, ScoreIsTheHits, HitsScoredFor
  <2> QED
    BY <2>1, <2>2, <2>3, <2>4, <2>5, <2>6, NextIsAccept
<1> QED
  BY <1>1, <1>2, TypeCorrect, PTL DEF Spec

-----------------------------------------------------------------------------
(* Play.                                                                   *)

\* From position i of the log on, back to its start, the first event that is
\* not gameplay put the battle in play.
InPlayAfter(i) ==
    \E j \in 1 .. i : /\ log[j].type \in {"battle_started", "battle_resumed"}
                      /\ \A k \in j + 1 .. i : log[k].type \in Gameplay

\* What makes GameplayInPlay inductive: the phase agrees with the log.
ActiveIsLogged == battle.phase = "active" => InPlayAfter(Len(log))

LEMMA EventKeepsPast ==
    ASSUME TypeOK, NEW e \in Events, log' = Append(log, e), GameplayInPlay,
           e.type \in Gameplay => InPlayAfter(Len(log))
    PROVE  GameplayInPlay'
<1> SUFFICES ASSUME NEW i \in DOMAIN log', log'[i].type \in Gameplay
             PROVE  \E j \in 1 .. i - 1 :
                        /\ log'[j].type \in {"battle_started", "battle_resumed"}
                        /\ \A k \in j + 1 .. i - 1 : log'[k].type \in Gameplay
  BY DEF GameplayInPlay
<1>1. CASE i \in DOMAIN log
  <2>1. PICK j \in 1 .. i - 1 :
            /\ log[j].type \in {"battle_started", "battle_resumed"}
            /\ \A k \in j + 1 .. i - 1 : log[k].type \in Gameplay
    BY <1>1, LogGrows DEF GameplayInPlay
  <2> QED
    BY <1>1, <2>1, LogGrows
<1>2. CASE i = Len(log) + 1
  <2>1. PICK j \in 1 .. Len(log) :
            /\ log[j].type \in {"battle_started", "battle_resumed"}
            /\ \A k \in j + 1 .. Len(log) : log[k].type \in Gameplay
    BY <1>2, LogGrows DEF InPlayAfter
  <2> QED
    BY <1>2, <2>1, LogGrows
<1> QED
  BY <1>1, <1>2, LogGrows

LEMMA GameplayStaysInPlay ==
    ASSUME TypeOK, NEW e \in Events, log' = Append(log, e),
           e.type \in Gameplay, InPlayAfter(Len(log))
    PROVE  InPlayAfter(Len(log))'
<1>1. PICK j \in 1 .. Len(log) :
          /\ log[j].type \in {"battle_started", "battle_resumed"}
          /\ \A k \in j + 1 .. Len(log) : log[k].type \in Gameplay
  BY DEF InPlayAfter
<1>2. Len(log') = Len(log) + 1 /\ Len(log) \in Nat
  BY AppendProperties, LenProperties DEF TypeOK
<1> QED
  BY <1>1, <1>2, LogGrows DEF InPlayAfter

\* No shot, hit or report is ever counted outside play.
THEOREM GameplayCorrect == Spec => []GameplayInPlay
<1> DEFINE Inv == GameplayInPlay /\ ActiveIsLogged
<1>1. Init => Inv
  BY DEF Init, GameplayInPlay, ActiveIsLogged, NewBattle
<1>2. TypeOK /\ Inv /\ [Next]_vars => Inv'
  <2> SUFFICES ASSUME TypeOK, GameplayInPlay, ActiveIsLogged, [Next]_vars
               PROVE  Inv'
    OBVIOUS
  <2> USE DEF Gameplay
  <2>1. CASE \E e \in Joins : Accept(e)
    <3>1. PICK e \in Joins : /\ PlayerJoinedAccepted(battle, e)
                             /\ battle' = AfterPlayerJoined(battle, e)
                             /\ log' = Append(log, e)
      BY <2>1, JoinStep
    <3>2. battle'.phase = "lobby"
      BY <3>1 DEF AfterPlayerJoined, PlayerJoinedAccepted, TypeOK, BattleShape
    <3>3. e \in Events /\ e.type \notin Gameplay
      BY DEF Joins, Events
    <3> QED
      BY <3>1, <3>2, <3>3, EventKeepsPast DEF ActiveIsLogged
  <2>2. CASE \E e \in Shots : Accept(e)
    <3>1. PICK e \in Shots : ShotAccepted(battle, e) /\ log' = Append(log, e)
      BY <2>2, ShotStep
    <3>2. e \in Events /\ e.type \in Gameplay
      BY DEF Shots, Events
    <3>3. InPlayAfter(Len(log))
      BY <3>1 DEF ActiveIsLogged, ShotAccepted, InPlay
    <3> QED
      BY <3>1, <3>2, <3>3, EventKeepsPast, GameplayStaysInPlay DEF ActiveIsLogged
  <2>3. CASE \E e \in Hits : Accept(e)
    <3>1. PICK e \in Hits : HitAccepted(battle, e) /\ log' = Append(log, e)
      BY <2>3, HitStep
    <3>2. e \in Events /\ e.type \in Gameplay
      BY DEF Hits, Events
    <3>3. InPlayAfter(Len(log))
      BY <3>1 DEF ActiveIsLogged, HitAccepted, InPlay
    <3> QED
      BY <3>1, <3>2, <3>3, EventKeepsPast, GameplayStaysInPlay DEF ActiveIsLogged
  <2>4. CASE \E e \in Reports : Accept(e)
    <3>1. PICK e \in Reports : PlayerStateAccepted(battle, e) /\ log' = Append(log, e)
      BY <2>4, ReportStep
    <3>2. e \in Events /\ e.type \in Gameplay
      BY DEF Reports, Events
    <3>3. InPlayAfter(Len(log))
      BY <3>1 DEF ActiveIsLogged, PlayerStateAccepted, InPlay
    <3> QED
      BY <3>1, <3>2, <3>3, EventKeepsPast, GameplayStaysInPlay DEF ActiveIsLogged
  <2>5. CASE \E e \in Controls : Accept(e)
    <3>1. PICK e \in Controls :
              /\ log' = Append(log, e)
              /\ \E phase \in {"active", "paused", "ended"} :
                     /\ battle' = AfterPhase(battle, phase)
                     /\ phase = "active" => e.type \in {"battle_started", "battle_resumed"}
      BY <2>5, ControlStep
    <3>2. e \in Events /\ e.type \notin Gameplay
      BY DEF Controls, Events
    <3>3. battle'.phase = "active" => e.type \in {"battle_started", "battle_resumed"}
      BY <3>1, PhaseShape DEF TypeOK, BattlePhases
    <3>4. ActiveIsLogged'
      <4>1. Len(log') = Len(log) + 1 /\ Len(log) \in Nat
        BY <3>1, <3>2, AppendProperties, LenProperties DEF TypeOK
      <4>2. log'[Len(log) + 1] = e
        BY <3>1, <3>2, LogGrows
      <4> QED
        BY <3>3, <4>1, <4>2 DEF ActiveIsLogged, InPlayAfter
    <3> QED
      BY <3>1, <3>2, <3>4, EventKeepsPast
  <2>6. CASE UNCHANGED vars
    BY <2>6 DEF vars, GameplayInPlay, ActiveIsLogged, InPlayAfter
  <2> QED
    BY <2>1, <2>2, <2>3, <2>4, <2>5, <2>6, NextIsAccept
<1> QED
  BY <1>1, <1>2, TypeCorrect, PTL DEF Spec

-----------------------------------------------------------------------------
(* What an event changes about each player.                                *)

LEMMA ShotFields ==
    ASSUME NEW b, BattleShape(b), NEW e \in Shots, ShotAccepted(b, e),
           NEW c, c = AfterShot(b, e)
    PROVE  /\ DOMAIN c.players = DOMAIN b.players /\ c.phase = b.phase
           /\ \A p \in DOMAIN b.players :
                /\ c.players[p].team = b.players[p].team
                /\ c.players[p].health = b.players[p].health
                /\ c.players[p].shots >= b.players[p].shots
                /\ c.players[p].hits = b.players[p].hits
<1>1. /\ c.players = [b.players EXCEPT ![e.player].shots = @ + 1, ![e.player].ammo = e.ammo]
      /\ c.phase = b.phase
  BY DEF AfterShot, BattleShape
<1>2. \A p \in DOMAIN b.players : b.players[p] \in PlayerState BY DEF BattleShape, IsMap
<1>3. \A p \in DOMAIN b.players : p # e.player => c.players[p] = b.players[p] BY <1>1
<1>4. e.player \in DOMAIN b.players =>
        c.players[e.player] =
            [[b.players[e.player] EXCEPT !.shots = @ + 1] EXCEPT !.ammo = e.ammo]
  BY <1>1
<1>5. ASSUME NEW p \in DOMAIN b.players
      PROVE  /\ c.players[p].team = b.players[p].team
             /\ c.players[p].health = b.players[p].health
             /\ c.players[p].shots >= b.players[p].shots
             /\ c.players[p].hits = b.players[p].hits
  <2>1. b.players[p] \in PlayerState BY <1>2
  <2>2. CASE p = e.player
    <3> DEFINE old == b.players[p]
               mid == [old EXCEPT !.shots = @ + 1]
               new == [mid EXCEPT !.ammo = e.ammo]
    <3>1. c.players[p] = new BY <1>4, <2>2
    <3>2. old \in PlayerState BY <2>1
    <3> HIDE DEF old
    <3>3. /\ mid.team = old.team /\ mid.health = old.health /\ mid.hits = old.hits
          /\ mid.shots >= old.shots /\ mid \in PlayerState
      BY <3>2 DEF PlayerState
    <3> HIDE DEF mid
    <3>4. /\ new.team = mid.team /\ new.health = mid.health
          /\ new.shots = mid.shots /\ new.hits = mid.hits
      BY <3>3 DEF PlayerState
    <3> HIDE DEF new
    <3> QED BY <3>1, <3>3, <3>4 DEF old
  <2>3. CASE p # e.player BY <1>3, <2>1, <2>3 DEF PlayerState
  <2> QED BY <2>2, <2>3
<1> QED BY <1>1, <1>5

LEMMA HitFields ==
    ASSUME NEW b, BattleShape(b), NEW e \in Hits, HitAccepted(b, e),
           NEW c, c = AfterHit(b, e)
    PROVE  /\ DOMAIN c.players = DOMAIN b.players /\ c.phase = b.phase
           /\ \A p \in DOMAIN b.players :
                /\ c.players[p].team = b.players[p].team
                /\ c.players[p].health =
                       IF p = e.target THEN NotBelowZero(b.players[p].health - e.damage)
                       ELSE b.players[p].health
                /\ c.players[p].shots = b.players[p].shots
                /\ c.players[p].hits >= b.players[p].hits
<1> DEFINE left == NotBelowZero(b.players[e.target].health - e.damage)
           up == left > 0
           hurt == [b.players EXCEPT ![e.target].health = left, ![e.target].alive = up]
<1>1. /\ c.players = [hurt EXCEPT ![e.attacker].hits = @ + 1] /\ c.phase = b.phase
  BY DEF AfterHit, BattleShape
<1>2. \A p \in DOMAIN b.players : b.players[p] \in PlayerState BY DEF BattleShape, IsMap
<1>3. left \in Nat BY HitLeavesNat
<1>4. e.target \in DOMAIN b.players BY DEF HitAccepted, Registered
<1>5. ASSUME NEW p \in DOMAIN b.players
      PROVE  /\ c.players[p].team = b.players[p].team
             /\ c.players[p].health = IF p = e.target THEN left ELSE b.players[p].health
             /\ c.players[p].shots = b.players[p].shots
             /\ c.players[p].hits >= b.players[p].hits
  <2> HIDE DEF left, up
  <2>1. b.players[p] \in PlayerState BY <1>2
  <2>2. /\ hurt[p].team = b.players[p].team
        /\ hurt[p].health = IF p = e.target THEN left ELSE b.players[p].health
        /\ hurt[p].shots = b.players[p].shots
        /\ hurt[p].hits = b.players[p].hits
        /\ hurt[p] \in PlayerState
    <3>1. CASE p = e.target
      <4>1. hurt[p] = [[b.players[p] EXCEPT !.health = left] EXCEPT !.alive = up] BY <3>1
      <4>2. up \in BOOLEAN BY DEF up
      <4> QED BY <1>3, <2>1, <3>1, <4>1, <4>2 DEF PlayerState
    <3>2. CASE p # e.target
      <4>1. hurt[p] = b.players[p] BY <3>2
      <4> QED BY <2>1, <3>2, <4>1 DEF PlayerState
    <3> QED BY <3>1, <3>2
  <2>3. DOMAIN hurt = DOMAIN b.players OBVIOUS
  <2> HIDE DEF hurt
  <2>4. c.players[p] = IF p = e.attacker THEN [hurt[p] EXCEPT !.hits = @ + 1] ELSE hurt[p]
    BY <1>1, <2>3
  <2>5. CASE p = e.attacker BY <2>1, <2>2, <2>4, <2>5 DEF PlayerState
  <2>6. CASE p # e.attacker BY <2>1, <2>2, <2>4, <2>6 DEF PlayerState
  <2> QED BY <2>5, <2>6
<1>6. DOMAIN c.players = DOMAIN b.players BY <1>1
<1> QED BY <1>1, <1>5, <1>6

LEMMA ReportFields ==
    ASSUME NEW b, BattleShape(b), NEW e \in Reports, PlayerStateAccepted(b, e),
           NEW c, c = AfterPlayerState(b, e)
    PROVE  /\ DOMAIN c.players = DOMAIN b.players /\ c.phase = b.phase
           /\ \A p \in DOMAIN b.players :
                /\ c.players[p].team = b.players[p].team
                /\ c.players[p].health = IF p = e.player THEN e.health ELSE b.players[p].health
                /\ c.players[p].shots = b.players[p].shots
                /\ c.players[p].hits = b.players[p].hits
<1> DEFINE health == NotBelowZero(e.health)
           up == e.alive /\ health > 0
<1>1. /\ c.players = [b.players EXCEPT ![e.player].health = health,
                                       ![e.player].ammo = e.ammo,
                                       ![e.player].alive = up]
      /\ c.phase = b.phase
  BY DEF AfterPlayerState, BattleShape
<1>2. health = e.health
  <2>1. e.health \in Nat BY DEF Reports
  <2> QED BY <2>1 DEF NotBelowZero
<1> HIDE DEF health, up
<1>3. \A p \in DOMAIN b.players : b.players[p] \in PlayerState BY DEF BattleShape, IsMap
<1>4. ASSUME NEW p \in DOMAIN b.players
      PROVE  /\ c.players[p].team = b.players[p].team
             /\ c.players[p].health = IF p = e.player THEN health ELSE b.players[p].health
             /\ c.players[p].shots = b.players[p].shots
             /\ c.players[p].hits = b.players[p].hits
  <2>1. b.players[p] \in PlayerState BY <1>3
  <2>2. CASE p = e.player BY <1>1, <2>1, <2>2 DEF PlayerState
  <2>3. CASE p # e.player BY <1>1, <2>1, <2>3 DEF PlayerState
  <2> QED BY <2>2, <2>3
<1>5. DOMAIN c.players = DOMAIN b.players BY <1>1
<1> QED BY <1>1, <1>2, <1>4, <1>5

LEMMA JoinFields ==
    ASSUME NEW b, BattleShape(b), NEW e \in Joins, PlayerJoinedAccepted(b, e),
           NEW c, c = AfterPlayerJoined(b, e)
    PROVE  /\ DOMAIN c.players = DOMAIN b.players \cup {e.player}
           /\ b.phase = "lobby" /\ c.phase = "lobby" /\ e.player \notin DOMAIN b.players
           /\ \A p \in DOMAIN b.players : c.players[p] = b.players[p]
           /\ c.players[e.player].health = FullHealth
<1>1. c.players = Put(b.players, e.player, NewPlayer(e.team)) /\ c.phase = b.phase
  BY DEF AfterPlayerJoined, BattleShape
<1> QED BY <1>1 DEF Put, NewPlayer, PlayerJoinedAccepted, Registered

-----------------------------------------------------------------------------
(* The roster.                                                             *)

\* What the roster keeps over a step that leads to the battle c.
RosterKept(b, c) ==
    /\ b.phase # "lobby" => DOMAIN c.players = DOMAIN b.players
    /\ \A p \in DOMAIN b.players :
         /\ p \in DOMAIN c.players
         /\ c.players[p].team = b.players[p].team
         /\ c.players[p].shots >= b.players[p].shots
         /\ c.players[p].hits >= b.players[p].hits

\* Once the battle has left the lobby nobody joins, be it a battle that was
\* started without players, and nobody leaves or changes side; at no time does
\* the shot or hit count of a player run backwards
\* (apply_player_joined, apply_shot, apply_hit, apply_player_state).
THEOREM RosterCorrect == Spec => RosterSettled
<1>1. TypeOK /\ [Next]_vars => [RosterKept(battle, battle')]_vars
  <2> SUFFICES ASSUME TypeOK, Next PROVE RosterKept(battle, battle')
    OBVIOUS
  <2>1. /\ BattleShape(battle)
        /\ \A p \in DOMAIN battle.players :
               battle.players[p].shots \in Nat /\ battle.players[p].hits \in Nat
    BY DEF TypeOK, BattleShape, IsMap, PlayerState
  <2>2. CASE \E e \in Joins : Accept(e)
    <3>1. PICK e \in Joins :
            PlayerJoinedAccepted(battle, e) /\ battle' = AfterPlayerJoined(battle, e)
      BY <2>2, JoinStep
    <3>2. /\ battle.phase = "lobby"
          /\ DOMAIN battle'.players = DOMAIN battle.players \cup {e.player}
          /\ \A p \in DOMAIN battle.players : battle'.players[p] = battle.players[p]
      BY <2>1, <3>1, JoinFields
    <3> QED BY <2>1, <3>2 DEF RosterKept
  <2>3. CASE \E e \in Shots : Accept(e)
    <3>1. PICK e \in Shots : ShotAccepted(battle, e) /\ battle' = AfterShot(battle, e)
      BY <2>3, ShotStep
    <3> QED BY <2>1, <3>1, ShotFields DEF RosterKept
  <2>4. CASE \E e \in Hits : Accept(e)
    <3>1. PICK e \in Hits : HitAccepted(battle, e) /\ battle' = AfterHit(battle, e)
      BY <2>4, HitStep
    <3> QED BY <2>1, <3>1, HitFields DEF RosterKept
  <2>5. CASE \E e \in Reports : Accept(e)
    <3>1. PICK e \in Reports :
            PlayerStateAccepted(battle, e) /\ battle' = AfterPlayerState(battle, e)
      BY <2>5, ReportStep
    <3> QED BY <2>1, <3>1, ReportFields DEF RosterKept
  <2>6. CASE \E e \in Controls : Accept(e)
    <3>1. PICK e \in Controls : \E phase \in {"active", "paused", "ended"} :
              battle' = AfterPhase(battle, phase)
      BY <2>6, ControlStep
    <3>2. battle'.players = battle.players
      BY <2>1, <3>1, PhaseShape DEF BattlePhases
    <3> QED BY <2>1, <3>2 DEF RosterKept
  <2> QED BY <2>2, <2>3, <2>4, <2>5, <2>6, NextIsAccept
<1>2. [RosterKept(battle, battle')]_vars =>
        [/\ battle.phase # "lobby" => DOMAIN battle'.players = DOMAIN battle.players
         /\ \A p \in DOMAIN battle.players :
              /\ p \in DOMAIN battle'.players
              /\ battle'.players[p].team = battle.players[p].team
              /\ battle'.players[p].shots >= battle.players[p].shots
              /\ battle'.players[p].hits >= battle.players[p].hits]_vars
  BY DEF RosterKept
<1> QED BY <1>1, <1>2, TypeCorrect, PTL DEF Spec, RosterSettled

-----------------------------------------------------------------------------
(* Sums.                                                                   *)

\* The sums are what the definition says, one from another.
LEMMA SumDefined ==
    ASSUME NEW s, Len(s) \in Nat, NEW i \in Nat \ {0}
    PROVE  \E f : /\ SumSince(s, i) = f[Len(s)] /\ f[0] = 0
                  /\ \A n \in 1 .. Len(s) : f[n] = IF n < i THEN 0 ELSE f[n - 1] + s[n]
<1> DEFINE Built == {m \in Nat : \E f :
                f = [n \in 0 .. m |-> IF n < i THEN 0 ELSE f[n - 1] + s[n]]}
<1>1. \A m \in Nat : m \in Built
  <2>1. 0 \in Built
    <3> DEFINE f == [n \in 0 .. 0 |-> 0]
    <3>1. f = [n \in 0 .. 0 |-> IF n < i THEN 0 ELSE f[n - 1] + s[n]] OBVIOUS
    <3> QED BY <3>1
  <2>2. ASSUME NEW m \in Nat, m \in Built PROVE m + 1 \in Built
    <3>1. PICK f : f = [n \in 0 .. m |-> IF n < i THEN 0 ELSE f[n - 1] + s[n]] BY <2>2
    <3> DEFINE g == [n \in 0 .. m + 1 |->
                        IF n <= m THEN f[n] ELSE IF n < i THEN 0 ELSE f[n - 1] + s[n]]
               h == [n \in 0 .. m + 1 |-> IF n < i THEN 0 ELSE g[n - 1] + s[n]]
    <3>2. ASSUME NEW n \in 0 .. m + 1 PROVE g[n] = h[n]
      <4>1. CASE n < i
        <5>1. h[n] = 0 BY <4>1
        <5>2. CASE n <= m
          <6>1. n \in 0 .. m BY <5>2
          <6>2. g[n] = f[n] BY <5>2
          <6>3. f[n] = 0 BY <3>1, <4>1, <6>1
          <6> QED BY <5>1, <6>2, <6>3
        <5>3. CASE n = m + 1 BY <4>1, <5>1, <5>3
        <5> QED BY <5>2, <5>3
      <4>2. CASE ~(n < i)
        <5>1. n - 1 \in 0 .. m /\ n - 1 \in 0 .. m + 1 BY <4>2
        <5>2. g[n - 1] = f[n - 1] BY <5>1
        <5>3. h[n] = g[n - 1] + s[n] BY <4>2
        <5>4. CASE n <= m
          <6>1. n \in 0 .. m BY <5>4
          <6>2. g[n] = f[n] BY <5>4
          <6>3. f[n] = f[n - 1] + s[n] BY <3>1, <4>2, <6>1
          <6> QED BY <5>2, <5>3, <6>2, <6>3
        <5>5. CASE n = m + 1
          <6>1. g[n] = f[n - 1] + s[n] BY <4>2, <5>5
          <6> QED BY <5>2, <5>3, <6>1
        <5> QED BY <5>4, <5>5
      <4> QED BY <4>1, <4>2
    <3>3. g = h
      <4>1. g = [n \in 0 .. m + 1 |-> g[n]] /\ h = [n \in 0 .. m + 1 |-> h[n]] OBVIOUS
      <4> HIDE DEF g, h
      <4> QED BY <3>2, <4>1
    <3> HIDE DEF g
    <3> QED BY <3>3
  <2> HIDE DEF Built
  <2> QED BY <2>1, <2>2, NatSetInduction
<1> DEFINE sum == CHOOSE f : f = [n \in 0 .. Len(s) |-> IF n < i THEN 0 ELSE f[n - 1] + s[n]]
<1>2. \E f : f = [n \in 0 .. Len(s) |-> IF n < i THEN 0 ELSE f[n - 1] + s[n]] BY <1>1
<1>3. SumSince(s, i) = sum[Len(s)] BY Zenon DEF SumSince
<1>4. sum = [n \in 0 .. Len(s) |-> IF n < i THEN 0 ELSE sum[n - 1] + s[n]] BY <1>2, Zenon
<1> HIDE DEF sum
<1> QED BY <1>3, <1>4

\* One more number adds itself, before it nothing is counted, and numbers that
\* are nothing add up to nothing.
LEMMA SumFacts ==
    ASSUME NEW s \in Seq(Nat), NEW i \in Nat \ {0}
    PROVE  /\ SumSince(s, i) \in Nat
           /\ i > Len(s) => SumSince(s, i) = 0
           /\ (\A n \in DOMAIN s : s[n] = 0) => SumSince(s, i) = 0
<1>1. Len(s) \in Nat /\ DOMAIN s = 1 .. Len(s) /\ \A n \in 1 .. Len(s) : s[n] \in Nat
  BY LenProperties
<1>2. PICK f : /\ SumSince(s, i) = f[Len(s)] /\ f[0] = 0
               /\ \A n \in 1 .. Len(s) : f[n] = IF n < i THEN 0 ELSE f[n - 1] + s[n]
  BY <1>1, SumDefined
<1> DEFINE Fine == {n \in Nat : n <= Len(s) =>
                        f[n] \in Nat /\ ((\A k \in DOMAIN s : s[k] = 0) => f[n] = 0)}
<1>3. \A n \in Nat : n \in Fine
  <2>1. 0 \in Fine BY <1>2
  <2>2. ASSUME NEW n \in Nat, n \in Fine PROVE n + 1 \in Fine
    <3> SUFFICES ASSUME n + 1 <= Len(s)
                 PROVE  f[n + 1] \in Nat /\ ((\A k \in DOMAIN s : s[k] = 0) => f[n + 1] = 0)
      OBVIOUS
    <3>1. f[n] \in Nat /\ ((\A k \in DOMAIN s : s[k] = 0) => f[n] = 0) BY <1>1, <2>2
    <3>2. n + 1 \in 1 .. Len(s) /\ n + 1 - 1 = n BY <1>1
    <3>3. f[n + 1] = IF n + 1 < i THEN 0 ELSE f[n] + s[n + 1] BY <1>2, <3>2
    <3>4. s[n + 1] \in Nat /\ n + 1 \in DOMAIN s BY <1>1, <3>2
    <3> QED BY <3>1, <3>3, <3>4
  <2> HIDE DEF Fine
  <2> QED BY <2>1, <2>2, NatSetInduction
<1>4. i > Len(s) => f[Len(s)] = 0 BY <1>1, <1>2
<1> QED BY <1>1, <1>2, <1>3, <1>4

LEMMA SumAppend ==
    ASSUME NEW s \in Seq(Nat), NEW d \in Nat, NEW t, t = Append(s, d),
           NEW i \in 1 .. Len(s) + 1
    PROVE  SumSince(t, i) = SumSince(s, i) + d
<1>1. /\ Len(s) \in Nat /\ Len(t) = Len(s) + 1 /\ t[Len(s) + 1] = d
      /\ \A n \in 1 .. Len(s) : t[n] = s[n]
      /\ Len(t) \in Nat /\ i \in Nat \ {0}
  <2>1. Len(s) \in Nat BY LenProperties
  <2>2. /\ Len(t) = Len(s) + 1 /\ t[Len(s) + 1] = d
        /\ \A n \in 1 .. Len(s) : t[n] = s[n]
    BY AppendProperties
  <2> QED BY <2>1, <2>2
<1>2. PICK f : /\ SumSince(s, i) = f[Len(s)] /\ f[0] = 0
               /\ \A n \in 1 .. Len(s) : f[n] = IF n < i THEN 0 ELSE f[n - 1] + s[n]
  BY <1>1, SumDefined
<1>3. PICK g : /\ SumSince(t, i) = g[Len(t)] /\ g[0] = 0
               /\ \A n \in 1 .. Len(t) : g[n] = IF n < i THEN 0 ELSE g[n - 1] + t[n]
  <2>1. Len(t) \in Nat /\ i \in Nat \ {0} BY <1>1
  <2> QED BY ONLY <2>1, SumDefined
<1> DEFINE Same == {n \in Nat : n <= Len(s) => g[n] = f[n]}
<1>4. \A n \in Nat : n \in Same
  <2>1. 0 \in Same BY <1>2, <1>3
  <2>2. ASSUME NEW n \in Nat, n \in Same PROVE n + 1 \in Same
    <3> SUFFICES ASSUME n + 1 <= Len(s) PROVE g[n + 1] = f[n + 1] OBVIOUS
    <3>1. g[n] = f[n] BY <1>1, <2>2
    <3>2. n + 1 \in 1 .. Len(s) /\ n + 1 \in 1 .. Len(t) /\ n + 1 - 1 = n BY <1>1
    <3>3. f[n + 1] = IF n + 1 < i THEN 0 ELSE f[n] + s[n + 1] BY <1>2, <3>2
    <3>4. g[n + 1] = IF n + 1 < i THEN 0 ELSE g[n] + t[n + 1] BY <1>3, <3>2
    <3> QED BY <1>1, <3>1, <3>2, <3>3, <3>4
  <2> HIDE DEF Same
  <2> QED BY <2>1, <2>2, NatSetInduction
<1>5. g[Len(s)] = f[Len(s)] BY <1>1, <1>4
<1>6. Len(t) \in 1 .. Len(t) /\ ~(Len(t) < i) /\ Len(t) - 1 = Len(s) BY <1>1
<1>7. g[Len(t)] = g[Len(s)] + t[Len(t)] BY <1>3, <1>6
<1> QED BY <1>1, <1>2, <1>3, <1>5, <1>7

-----------------------------------------------------------------------------
(* Health.                                                                 *)

\* apply_hit: of health only the target's changes.
LEMMA HitHealth ==
    ASSUME NEW b, BattleShape(b), NEW e \in Hits, HitAccepted(b, e),
           NEW c, c = AfterHit(b, e), NEW p \in DOMAIN b.players
    PROVE  c.players[p].health
               = IF p = e.target THEN NotBelowZero(b.players[p].health - e.damage)
                                 ELSE b.players[p].health
<1> DEFINE left == NotBelowZero(b.players[e.target].health - e.damage)
           up == left > 0
           hurt == [b.players EXCEPT ![e.target].health = left, ![e.target].alive = up]
<1>1. c.players = [hurt EXCEPT ![e.attacker].hits = @ + 1] BY DEF AfterHit, BattleShape
<1>2. left \in Nat /\ up \in BOOLEAN BY HitLeavesNat
<1>3. PICK n : n = left OBVIOUS
<1> HIDE DEF left, up
<1>4. hurt \in [DOMAIN b.players -> PlayerState] BY <1>2, HurtIsTyped
<1>5. hurt[p].health = IF p = e.target THEN n ELSE b.players[p].health
  BY <1>3 DEF BattleShape, IsMap, PlayerState
<1> HIDE DEF hurt
<1>6. c.players[p].health = hurt[p].health BY <1>1, <1>4 DEF PlayerState
<1> QED BY <1>3, <1>5, <1>6 DEF left

\* HealthAddsUp is not inductive alone: a player must not have been hit or
\* reported on before joining.
TargetsRegistered ==
    \A i \in DOMAIN log :
        /\ log[i].type = "hit" => log[i].target \in DOMAIN battle.players
        /\ log[i].type = "player_state" => log[i].player \in DOMAIN battle.players

Damage(p) == [i \in DOMAIN log |-> Dealt(log[i], p)]

LEMMA DealtIsNat == ASSUME NEW e \in Events, NEW p PROVE Dealt(e, p) \in Nat
<1>1. e.type = "hit" => e \in Hits
  BY DEF Events, Joins, Shots, Hits, Reports, Controls
<1> QED BY <1>1 DEF Dealt, Hits

\* The damage of the longer log is that of the shorter and of its new line.
LEMMA DamageGrows ==
    ASSUME TypeOK, NEW e \in Events, log' = Append(log, e), NEW p
    PROVE  /\ Damage(p) \in Seq(Nat) /\ Len(Damage(p)) = Len(log)
           /\ Damage(p)' = Append(Damage(p), Dealt(e, p))
           /\ Damage(p)' \in Seq(Nat) /\ Len(Damage(p)') = Len(log) + 1
<1>1. /\ Len(log) \in Nat /\ DOMAIN log = 1 .. Len(log) /\ log \in Seq(Events)
      /\ DOMAIN log' = 1 .. Len(log) + 1
      /\ \A i \in DOMAIN log : log'[i] = log[i] /\ log[i] \in Events
      /\ log'[Len(log) + 1] = e
  BY LogGrows, LenProperties, ElementOfSeq DEF TypeOK
<1>2. PICK s : s = Damage(p) OBVIOUS
<1>3. PICK d : d = Dealt(e, p) OBVIOUS
<1>4. PICK t : t = Damage(p)' OBVIOUS
<1>5. d \in Nat BY <1>3, DealtIsNat
<1>6. s = [i \in 1 .. Len(log) |-> Dealt(log[i], p)] BY <1>1, <1>2 DEF Damage
<1>7. t = [i \in 1 .. Len(log) + 1 |-> Dealt(log'[i], p)] BY <1>1, <1>4 DEF Damage
<1>8. \A i \in 1 .. Len(log) : s[i] \in Nat BY <1>1, <1>6, DealtIsNat
<1>9. s \in Seq(Nat) /\ Len(s) = Len(log)
  <2>1. s \in [1 .. Len(log) -> Nat] BY <1>6, <1>8
  <2> QED BY <1>1, <2>1, LenProperties
<1>10. t = Append(s, d)
  <2>1. \A i \in 1 .. Len(log) : t[i] = s[i] BY <1>1, <1>6, <1>7
  <2>2. t[Len(log) + 1] = d BY <1>1, <1>3, <1>7
  <2>3. /\ Append(s, d) \in Seq(Nat) /\ Len(Append(s, d)) = Len(log) + 1
        /\ \A i \in 1 .. Len(log) : Append(s, d)[i] = s[i]
        /\ Append(s, d)[Len(log) + 1] = d
    BY <1>5, <1>9, AppendProperties
  <2>4. Append(s, d) = [i \in 1 .. Len(log) + 1 |-> Append(s, d)[i]] BY <2>3, LenProperties
  <2>5. \A i \in 1 .. Len(log) + 1 : t[i] = Append(s, d)[i] BY <1>1, <2>1, <2>2, <2>3
  <2> QED BY <1>7, <2>4, <2>5
<1>11. t \in Seq(Nat) /\ Len(t) = Len(log) + 1 BY <1>5, <1>9, <1>10, AppendProperties
<1> QED BY <1>2, <1>3, <1>4, <1>9, <1>10, <1>11

\* The last report is a report, or there is none.
LEMMA LastReport ==
    ASSUME TypeOK, NEW p
    PROVE  /\ LastReportOn(p) \in 0 .. Len(log)
           /\ LastReportOn(p) # 0 => LastReportOn(p) \in ReportsOn(p)
<1>1. Len(log) \in Nat /\ DOMAIN log = 1 .. Len(log) BY LenProperties DEF TypeOK
<1>2. ReportsOn(p) \subseteq 1 .. Len(log) BY <1>1 DEF ReportsOn
<1>3. CASE ReportsOn(p) = {} BY <1>1, <1>3 DEF LastReportOn
<1>4. CASE ReportsOn(p) # {}
  <2>1. PICK n : n = LastReportOn(p) OBVIOUS
  <2>2. \E i \in ReportsOn(p) : \A j \in ReportsOn(p) : j <= i
    <3>1. PICK S : S = ReportsOn(p) OBVIOUS
    <3>2. \E x \in S : \A y \in S : x >= y BY <1>1, <1>2, <1>4, <3>1, GreatestNatural
    <3> QED BY <1>1, <1>2, <3>1, <3>2
  <2>3. n \in ReportsOn(p) BY <1>4, <2>1, <2>2, Zenon DEF LastReportOn
  <2> QED BY <1>1, <1>2, <2>1, <2>3
<1> QED BY <1>3, <1>4

\* An event that is no report on p changes its health by the damage it deals.
LEMMA HealthKept ==
    ASSUME TypeOK, NEW e \in Events, log' = Append(log, e), NEW p,
           ~(e.type = "player_state" /\ e.player = p)
    PROVE  HealthByLog(p)' = NotBelowZero(HealthByLog(p) - Dealt(e, p))
<1>1. /\ Len(log) \in Nat /\ DOMAIN log = 1 .. Len(log) /\ log \in Seq(Events)
      /\ DOMAIN log' = 1 .. Len(log) + 1
      /\ \A i \in DOMAIN log : log'[i] = log[i] /\ log[i] \in Events
      /\ log'[Len(log) + 1] = e
  BY LogGrows, LenProperties, ElementOfSeq DEF TypeOK
<1>2. ReportsOn(p)' = ReportsOn(p)
  <2>1. \A i : i \in ReportsOn(p)' <=> i \in ReportsOn(p) BY <1>1 DEF ReportsOn
  <2> QED BY <2>1
<1>3. LastReportOn(p)' = LastReportOn(p) BY <1>2 DEF LastReportOn
<1>4. PICK last : last = LastReportOn(p) OBVIOUS
<1>5. /\ last \in 0 .. Len(log)
      /\ last # 0 => last \in DOMAIN log /\ log[last].type = "player_state"
  BY <1>4, LastReport DEF ReportsOn
<1>6. PICK base : base = IF last = 0 THEN FullHealth ELSE log[last].health OBVIOUS
<1>7. base = IF last = 0 THEN FullHealth ELSE log'[last].health BY <1>1, <1>5, <1>6
<1>8. base \in Nat
  <2>1. last # 0 => log[last] \in Reports
    BY <1>1, <1>5 DEF Events, Joins, Shots, Hits, Reports, Controls
  <2> QED BY <1>6, <2>1 DEF Reports
<1>9. PICK s : s = Damage(p) OBVIOUS
<1>10. PICK t : t = Damage(p)' OBVIOUS
<1>11. PICK d : d = Dealt(e, p) OBVIOUS
<1>12. s \in Seq(Nat) /\ Len(s) = Len(log) /\ t = Append(s, d) /\ d \in Nat
  BY <1>9, <1>10, <1>11, DamageGrows, DealtIsNat
<1>13. last + 1 \in 1 .. Len(s) + 1 /\ last + 1 \in Nat \ {0} BY <1>1, <1>5, <1>12
<1>14. SumSince(t, last + 1) = SumSince(s, last + 1) + d BY <1>12, <1>13, SumAppend
<1>15. SumSince(s, last + 1) \in Nat BY <1>12, <1>13, SumFacts
<1>16. HealthByLog(p) = NotBelowZero(base - SumSince(s, last + 1))
  BY <1>4, <1>6, <1>9, Zenon DEF HealthByLog, Damage
<1>17. HealthByLog(p)' = NotBelowZero(base - SumSince(t, last + 1))
  BY <1>3, <1>4, <1>7, <1>10, Zenon DEF HealthByLog, Damage
<1> QED BY <1>8, <1>11, <1>12, <1>14, <1>15, <1>16, <1>17 DEF NotBelowZero

\* A report is the health by the log, whatever was before.
LEMMA HealthReported ==
    ASSUME TypeOK, NEW e \in Reports, log' = Append(log, e), NEW p, p = e.player
    PROVE  HealthByLog(p)' = NotBelowZero(e.health)
<1>1. e \in Events /\ e.type = "player_state" BY DEF Events, Reports
<1>2. /\ Len(log) \in Nat /\ DOMAIN log' = 1 .. Len(log) + 1
      /\ log'[Len(log) + 1] = e
  BY <1>1, LogGrows
<1>3. LastReportOn(p)' = Len(log) + 1
  <2>1. Len(log) + 1 \in ReportsOn(p)' /\ ReportsOn(p)' \subseteq 1 .. Len(log) + 1
    BY <1>1, <1>2 DEF ReportsOn
  <2>2. PICK S : S = ReportsOn(p)' OBVIOUS
  <2>3. /\ Len(log) + 1 \in S /\ \A j \in S : j <= Len(log) + 1
        /\ \A i \in S : (\A j \in S : j <= i) => i = Len(log) + 1
    BY <1>2, <2>1, <2>2
  <2>4. (CHOOSE i \in S : \A j \in S : j <= i) = Len(log) + 1 BY <2>3
  <2> QED BY <2>2, <2>3, <2>4 DEF LastReportOn
<1>4. PICK t : t = Damage(p)' OBVIOUS
<1>5. t \in Seq(Nat) /\ Len(t) = Len(log) + 1 BY <1>1, <1>4, DamageGrows
<1>6. SumSince(t, Len(log) + 1 + 1) = 0
  <2>1. Len(log) + 1 + 1 \in Nat \ {0} /\ Len(log) + 1 + 1 > Len(t) BY <1>2, <1>5
  <2> QED BY <1>5, <2>1, SumFacts
<1>7. Len(log) + 1 # 0 BY <1>2
<1>8. HealthByLog(p)' = NotBelowZero(e.health - SumSince(t, Len(log) + 1 + 1))
  BY <1>2, <1>3, <1>4, <1>7, Zenon DEF HealthByLog, Damage
<1>9. e.health \in Nat BY DEF Reports
<1> QED BY <1>6, <1>8, <1>9

\* A player no event was about has full health.
LEMMA HealthAtFirst ==
    ASSUME TypeOK, TargetsRegistered, NEW p, p \notin DOMAIN battle.players
    PROVE  HealthByLog(p) = FullHealth
<1>1. /\ Len(log) \in Nat /\ DOMAIN log = 1 .. Len(log) BY LenProperties DEF TypeOK
<1>2. ReportsOn(p) = {} BY DEF ReportsOn, TargetsRegistered
<1>3. LastReportOn(p) = 0 BY <1>2 DEF LastReportOn
<1>4. PICK s : s = Damage(p) OBVIOUS
<1>5. s = [i \in 1 .. Len(log) |-> 0]
  <2>1. \A i \in DOMAIN log : Dealt(log[i], p) = 0 BY DEF Dealt, TargetsRegistered
  <2> QED BY <1>1, <1>4, <2>1 DEF Damage
<1>6. s \in Seq(Nat)
  <2>1. s \in [1 .. Len(log) -> Nat] BY <1>5
  <2> QED BY <1>1, <2>1
<1>7. SumSince(s, 1) = 0 BY <1>5, <1>6, SumFacts
<1>8. HealthByLog(p) = NotBelowZero(FullHealth - SumSince(s, 0 + 1))
  BY <1>3, <1>4, Zenon DEF HealthByLog, Damage
<1> QED BY <1>7, <1>8 DEF NotBelowZero

\* The health the reducer keeps is the health the log gives.
THEOREM HealthCorrect == Spec => []HealthAddsUp
<1> DEFINE Inv == TargetsRegistered /\ HealthAddsUp
<1>1. Init => Inv
  BY DEF Init, TargetsRegistered, HealthAddsUp, NewBattle, EmptyMap
<1>2. TypeOK /\ Inv /\ [Next]_vars => Inv'
  <2> SUFFICES ASSUME TypeOK, TargetsRegistered, HealthAddsUp, [Next]_vars PROVE Inv'
    OBVIOUS
  \* An event that is no report changes health only by what it deals.
  <2>1. ASSUME NEW e \in Events, log' = Append(log, e), e.type # "player_state",
               DOMAIN battle'.players = DOMAIN battle.players,
               e.type = "hit" => e.target \in DOMAIN battle.players,
               \A p \in DOMAIN battle.players :
                   battle'.players[p].health
                       = NotBelowZero(battle.players[p].health - Dealt(e, p))
        PROVE  Inv'
    <3>1. TargetsRegistered' BY <2>1, LogGrows DEF TargetsRegistered
    <3>2. ASSUME NEW p \in DOMAIN battle'.players
          PROVE  battle'.players[p].health = HealthByLog(p)'
      <4>1. HealthByLog(p)' = NotBelowZero(HealthByLog(p) - Dealt(e, p))
        BY <2>1, HealthKept
      <4>2. battle.players[p].health = HealthByLog(p) BY <2>1, <3>2 DEF HealthAddsUp
      <4> QED BY <2>1, <3>2, <4>1, <4>2
    <3> QED BY <3>1, <3>2 DEF HealthAddsUp
  <2>2. \A p \in DOMAIN battle.players :
            /\ battle.players[p].health \in Nat
            /\ NotBelowZero(battle.players[p].health - 0) = battle.players[p].health
    BY DEF TypeOK, BattleShape, IsMap, PlayerState, NotBelowZero
  <2>3. CASE \E e \in Joins : Accept(e)
    <3>1. PICK e \in Joins : /\ PlayerJoinedAccepted(battle, e)
                             /\ battle' = AfterPlayerJoined(battle, e)
                             /\ log' = Append(log, e)
      BY <2>3, JoinStep
    <3>2. /\ e.player \notin DOMAIN battle.players
          /\ DOMAIN battle'.players = DOMAIN battle.players \cup {e.player}
          /\ \A p \in DOMAIN battle.players : battle'.players[p] = battle.players[p]
          /\ battle'.players[e.player].health = FullHealth
      BY <3>1 DEF AfterPlayerJoined, TypeOK, BattleShape, PlayerJoinedAccepted, Registered,
                  Put, NewPlayer
    <3>3. e \in Events /\ e.type = "player_joined" BY DEF Joins, Events
    <3>4. TargetsRegistered' BY <3>1, <3>2, <3>3, LogGrows DEF TargetsRegistered
    <3>5. ASSUME NEW p \in DOMAIN battle'.players
          PROVE  battle'.players[p].health = HealthByLog(p)'
      <4>1. PICK h : h = HealthByLog(p) OBVIOUS
      <4>2. HealthByLog(p)' = NotBelowZero(h - 0)
        <5>1. HealthByLog(p)' = NotBelowZero(h - Dealt(e, p))
          BY <3>1, <3>3, <4>1, HealthKept
        <5>2. Dealt(e, p) = 0 BY <3>3 DEF Dealt
        <5> QED BY <5>1, <5>2
      <4>3. CASE p \in DOMAIN battle.players
        <5>1. h = battle.players[p].health BY <4>1, <4>3 DEF HealthAddsUp
        <5> QED BY <2>2, <3>2, <4>2, <4>3, <5>1
      <4>4. CASE p \notin DOMAIN battle.players
        <5>1. h = FullHealth BY <4>1, <4>4, HealthAtFirst
        <5>2. p = e.player BY <3>2, <3>5, <4>4
        <5> QED BY <3>2, <4>2, <5>1, <5>2 DEF NotBelowZero
      <4> QED BY <4>3, <4>4
    <3> QED BY <3>4, <3>5 DEF HealthAddsUp
  <2>4. CASE \E e \in Shots : Accept(e)
    <3>1. PICK e \in Shots : ShotAccepted(battle, e) /\ battle' = AfterShot(battle, e)
                             /\ log' = Append(log, e)
      BY <2>4, ShotStep
    <3>2. battle'.players = [battle.players EXCEPT ![e.player].shots = @ + 1,
                                                   ![e.player].ammo = e.ammo]
      BY <3>1 DEF AfterShot, TypeOK, BattleShape
    <3>3. /\ DOMAIN battle'.players = DOMAIN battle.players
          /\ \A p \in DOMAIN battle.players :
                 battle'.players[p].health = battle.players[p].health
      BY <3>2 DEF TypeOK, BattleShape, IsMap, PlayerState
    <3>4. e \in Events /\ e.type = "shot" BY DEF Shots, Events
    <3>5. \A p : Dealt(e, p) = 0 BY <3>4 DEF Dealt
    <3> QED BY <2>1, <2>2, <3>1, <3>3, <3>4, <3>5
  <2>5. CASE \E e \in Hits : Accept(e)
    <3>1. PICK e \in Hits : HitAccepted(battle, e) /\ battle' = AfterHit(battle, e)
                            /\ log' = Append(log, e)
      BY <2>5, HitStep
    <3>2. e \in Events /\ e.type = "hit" /\ e.target \in DOMAIN battle.players
      BY <3>1 DEF Hits, Events, HitAccepted, Registered
    <3>3. DOMAIN battle'.players = DOMAIN battle.players
      <4>1. BattleShape(battle) BY DEF TypeOK
      <4> QED BY <3>1, <4>1, HitPlayers
    <3>4. ASSUME NEW p \in DOMAIN battle.players
          PROVE  battle'.players[p].health
                     = NotBelowZero(battle.players[p].health - Dealt(e, p))
      <4>1. battle'.players[p].health
                = IF p = e.target THEN NotBelowZero(battle.players[p].health - e.damage)
                                  ELSE battle.players[p].health
        BY <3>1, HitHealth DEF TypeOK
      <4> QED BY <2>2, <3>2, <4>1 DEF Dealt
    <3> QED BY <2>1, <3>1, <3>2, <3>3, <3>4
  <2>6. CASE \E e \in Reports : Accept(e)
    <3>1. PICK e \in Reports : PlayerStateAccepted(battle, e) /\ battle' = AfterPlayerState(battle, e)
                               /\ log' = Append(log, e)
      BY <2>6, ReportStep
    <3> DEFINE health == NotBelowZero(e.health)
               up == e.alive /\ health > 0
    <3>2. battle'.players = [battle.players EXCEPT ![e.player].health = health,
                                                   ![e.player].ammo = e.ammo,
                                                   ![e.player].alive = up]
      BY <3>1 DEF AfterPlayerState, TypeOK, BattleShape
    <3>3. /\ DOMAIN battle'.players = DOMAIN battle.players
          /\ \A p \in DOMAIN battle.players :
                 p # e.player => battle'.players[p].health = battle.players[p].health
          /\ e.player \in DOMAIN battle.players
          /\ battle'.players[e.player].health = health
      <4>1. e.player \in DOMAIN battle.players
        BY <3>1 DEF PlayerStateAccepted, Registered
      <4> HIDE DEF health, up
      <4> QED BY <3>2, <4>1 DEF TypeOK, BattleShape, IsMap, PlayerState
    <3>4. e \in Events /\ e.type = "player_state" BY DEF Reports, Events
    <3>5. TargetsRegistered' BY <3>1, <3>3, <3>4, LogGrows DEF TargetsRegistered
    <3>6. ASSUME NEW p \in DOMAIN battle'.players
          PROVE  battle'.players[p].health = HealthByLog(p)'
      <4>1. CASE p = e.player BY <3>1, <3>3, <4>1, HealthReported
      <4>2. CASE p # e.player
        <5>1. PICK h : h = HealthByLog(p) OBVIOUS
        <5>2. HealthByLog(p)' = NotBelowZero(h - Dealt(e, p))
          BY <3>1, <3>4, <4>2, <5>1, HealthKept
        <5>3. Dealt(e, p) = 0 BY <3>4 DEF Dealt
        <5>4. h = battle.players[p].health BY <3>3, <3>6, <5>1 DEF HealthAddsUp
        <5> QED BY <2>2, <3>3, <3>6, <4>2, <5>2, <5>3, <5>4
      <4> QED BY <4>1, <4>2
    <3> QED BY <3>5, <3>6 DEF HealthAddsUp
  <2>7. CASE \E e \in Controls : Accept(e)
    <3>1. PICK e \in Controls, phase \in {"active", "paused", "ended"} :
              battle' = AfterPhase(battle, phase) /\ log' = Append(log, e)
      BY <2>7, ControlStep
    <3>2. battle'.players = battle.players
      BY <3>1, PhaseShape DEF TypeOK, BattlePhases
    <3>3. e \in Events /\ e.type \notin {"hit", "player_state"} BY DEF Controls, Events
    <3>4. \A p : Dealt(e, p) = 0 BY <3>3 DEF Dealt
    <3> QED BY <2>1, <2>2, <3>1, <3>2, <3>3, <3>4
  <2>8. CASE UNCHANGED vars
    <3>1. battle' = battle /\ log' = log BY <2>8 DEF vars
    <3>2. ASSUME NEW p PROVE HealthByLog(p)' = HealthByLog(p)
      <4>1. ReportsOn(p)' = ReportsOn(p) BY <3>1 DEF ReportsOn
      <4>2. LastReportOn(p)' = LastReportOn(p) BY <4>1 DEF LastReportOn
      <4>3. Damage(p)' = Damage(p) BY <3>1 DEF Damage
      <4> QED BY <3>1, <4>2, <4>3, Zenon DEF HealthByLog, Damage
    <3> QED BY <3>1, <3>2 DEF TargetsRegistered, HealthAddsUp
  <2> QED
    BY <2>3, <2>4, <2>5, <2>6, <2>7, <2>8, NextIsAccept
<1> QED
  BY <1>1, <1>2, TypeCorrect, PTL DEF Spec

=============================================================================
