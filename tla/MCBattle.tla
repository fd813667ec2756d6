------------------------------ MODULE MCBattle ------------------------------
(***************************************************************************)
(* Two players, any teams, up to six events: enough for a join each, a     *)
(* start and three events of play or of pause, resume and end.             *)
(***************************************************************************)
EXTENDS Battle
=============================================================================
