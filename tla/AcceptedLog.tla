---------------------------- MODULE AcceptedLog ----------------------------
(***************************************************************************)
(* What a runtime promises, without memory, files, steps or crashes: one   *)
(* log that only grows, each event in it once, in its source's order and   *)
(* legal where it stands, and no event acknowledged that is not in it.     *)
(***************************************************************************)
EXTENDS Integers, SequencesExt

CONSTANTS Events, NewStream, Accepts(_, _), Apply(_, _)

VARIABLES
    log,     \* the accepted events, in acceptance order
    acked    \* the events a client was told are accepted

\* The state of a battle or room after the events of the log that name it.
StateIn(s) ==
    LET after[n \in 0 .. Len(log)] ==
            IF n = 0 THEN NewStream
            ELSE IF log[n].stream = s THEN Apply(after[n - 1], log[n].body)
            ELSE after[n - 1]
    IN  after[Len(log)]

Init == log = <<>> /\ acked = {}

Accept(e) ==
    /\ \A i \in DOMAIN log :
        /\ log[i].id # e.id
        /\ log[i].source = e.source => log[i].seq < e.seq
    /\ Accepts(StateIn(e.stream), e.body)
    /\ log' = Append(log, e)
    /\ UNCHANGED acked

Acknowledge(e) ==
    /\ \E i \in DOMAIN log : log[i] = e
    /\ acked' = acked \cup {e}
    /\ UNCHANGED log

Next == \E e \in Events : Accept(e) \/ Acknowledge(e)

Spec == Init /\ [][Next]_<<log, acked>>
=============================================================================
