-------------------------------- MODULE Feed --------------------------------
(***************************************************************************)
(* What the broadcaster promises its subscribers, without threads, locks,  *)
(* handshakes or buffers: one feed for all of them, of which each gets     *)
(* everything from its subscription on, in order, each message once, until *)
(* it is cut off for ever; and nobody left behind while the feed grows.    *)
(***************************************************************************)
EXTENDS Integers, SequencesExt

CONSTANTS Subscribers, Messages

VARIABLES
    feed,      \* the messages published
    standing,  \* a subscriber is "new", "served" or "cut"
    since,     \* how long the feed was when the subscriber came
    got        \* the messages the subscriber was given

vars == <<feed, standing, since, got>>

TypeOK ==
    /\ feed \in Seq(Messages)
    /\ standing \in [Subscribers -> {"new", "served", "cut"}]
    /\ since \in [Subscribers -> 0..Len(feed)]
    /\ got \in [Subscribers -> Seq(Messages)]

\* The feed holds nothing more for s.
Current(s) == since[s] + Len(got[s]) = Len(feed)

Init ==
    /\ feed = <<>>
    /\ standing = [s \in Subscribers |-> "new"]
    /\ since = [s \in Subscribers |-> 0]
    /\ got = [s \in Subscribers |-> <<>>]

Subscribe(s) ==
    /\ standing[s] = "new"
    /\ standing' = [standing EXCEPT ![s] = "served"]
    /\ since' = [since EXCEPT ![s] = Len(feed)]
    /\ UNCHANGED <<feed, got>>

Publish(m) ==
    /\ m \notin Range(feed)
    /\ \A s \in Subscribers : standing[s] = "served" => Current(s)
    /\ feed' = Append(feed, m)
    /\ UNCHANGED <<standing, since, got>>

Give(s) ==
    /\ standing[s] = "served" /\ ~Current(s)
    /\ got' = [got EXCEPT ![s] = Append(@, feed[since[s] + Len(@) + 1])]
    /\ UNCHANGED <<feed, standing, since>>

\* Any number of subscribers at once: the end of the feed cuts all.
Cut(S) ==
    /\ \A s \in S : standing[s] = "served"
    /\ standing' = [s \in Subscribers |-> IF s \in S THEN "cut" ELSE standing[s]]
    /\ UNCHANGED <<feed, since, got>>

Next ==
    \/ \E s \in Subscribers : Subscribe(s) \/ Give(s)
    \/ \E m \in Messages : Publish(m)
    \/ \E S \in SUBSET Subscribers : Cut(S)

Spec == Init /\ [][Next]_vars

\* A subscriber's messages are a piece of the feed without a gap: those from
\* its subscription to the point it has reached.
Gapless ==
    \A s \in Subscribers :
        /\ since[s] + Len(got[s]) <= Len(feed)
        /\ got[s] = SubSeq(feed, since[s] + 1, since[s] + Len(got[s]))

=============================================================================
