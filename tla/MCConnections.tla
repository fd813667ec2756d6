--------------------------- MODULE MCConnections ---------------------------
(***************************************************************************)
(* Who connects, in four casts: two pages and a command of two messages;   *)
(* a page and two commands for one runtime; a page and two commands for    *)
(* different runtimes, which ask each other; a page, a command and a       *)
(* client that says nothing.  One message fits in a page's buffer.         *)
(***************************************************************************)
EXTENDS Connections

TheCasts == {{"p1", "p2", "c1"}, {"p1", "c1", "c2"}, {"p1", "c1", "c3"},
             {"p1", "c1", "mute"}}
Runtimes == [c \in Commands |-> IF c = "c3" THEN "ap" ELSE "room"]
Asked == [c \in Commands |-> IF c = "c2" THEN {} ELSE {1}]
Lengths == [c \in Commands |-> IF c = "c1" THEN 2 ELSE 1]
=============================================================================
