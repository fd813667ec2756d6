------------------------------- MODULE MCRoom -------------------------------
(***************************************************************************)
(* Rooms of up to two teams and three seats a team.  Counts wrap at 4, so  *)
(* that two teams of three or of two seats overflow the total.             *)
(***************************************************************************)
EXTENDS Room, TLC

\* Players, teams and devices are only told apart by the events that name them.
Symmetric == Permutations(Players) \cup Permutations(Teams) \cup Permutations(Devices)
=============================================================================
