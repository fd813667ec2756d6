--------------------------- MODULE ConnectionsProofs ---------------------------
(***************************************************************************)
(* What Connections promises, for any number of pages, commands and silent *)
(* clients and buffers of any size: the broadcaster's feed, messages that  *)
(* stay together, pages that are served or closed.                         *)
(*                                                                         *)
(* The inductive invariant Inv says what the two mutexes protect.  Most    *)
(* steps are Quiet: they leave the feed, the list and whoever is inside a  *)
(* runtime alone.  The eight that are not have a lemma each.               *)
(***************************************************************************)
EXTENDS Connections, SequenceTheorems, TLAPS

Places == {"none", "reading", "adding", "starting", "submitting", "answering", "done"}

WorkerStates ==
    [at : Places]
    \cup [at : {"publishing", "consulting"}, part : Nat]
    \cup [at : {"sending"}, part : Nat, todo : Seq(Pages), live : Seq(Pages)]

IoStates ==
    [at : {"serving", "joining workers", "ended"}]
    \cup [at : {"stopping sessions", "joining session"}, todo : Seq(Pages)]

\* What TypeOK leaves open: the fields a thread carries from step to step, and
\* which steps are whose.
Shape ==
    /\ TypeOK
    /\ io \in IoStates
    /\ io.at = "joining session" => io.todo # <<>>
    /\ worker \in [Connections -> WorkerStates]
    /\ \A c \in Commands :
        /\ worker[c].at \notin {"adding", "starting"}
        /\ InRuntime(c) => worker[c].part \in 1..MessagesOf[c]
    /\ \A p \in Pages : worker[p].at \in {"none", "reading", "adding", "starting", "done"}
    /\ sessions \in Seq(Pages)
    /\ since \in [Pages -> Nat] /\ sent \in [Pages -> Seq(Messages)]

\* The broadcaster's mutex and those of the runtimes.
OneAtATime ==
    \A c, d \in Commands :
        /\ Sending(c) /\ Sending(d) => c = d
        /\ InRuntime(c) /\ InRuntime(d) /\ RuntimeOf[c] = RuntimeOf[d] => c = d

\* How a page's worker, session and client keep step.
Stages ==
    \A p \in Pages :
        /\ worker[p].at \in {"none", "reading", "adding"} => session[p] = "none"
        /\ worker[p].at = "starting" <=> session[p] = "unstarted"
        /\ session[p] \in {"none", "unstarted", "accepting"} => sent[p] = <<>>
        /\ client[p] = "open" => session[p] \in {"reading", "done"}
        /\ session[p] = "done" => Gone(p) \/ p \in shut

\* The list of sessions, and what a sender has made of it, hold no page twice.
ListsAreSets ==
    /\ IsInjective(sessions)
    /\ \A p \in Range(sessions) : Subscribed(p)
    /\ \A c \in Commands : Sending(c) =>
        /\ IsInjective(worker[c].todo) /\ IsInjective(worker[c].live)
        /\ Range(worker[c].todo) \cap Range(worker[c].live) = {}
        /\ Range(worker[c].todo) \cup Range(worker[c].live) \subseteq Range(sessions)

\* A page in the list has been sent all of the feed, but for the message under
\* way if the sender has not come to it.
UpToDate ==
    /\ BroadcasterFree => \A p \in Range(sessions) : since[p] + Len(sent[p]) = Len(feed)
    /\ \A c \in Commands : Sending(c) =>
        /\ feed # <<>> /\ Last(feed) = Message(c, worker[c].part)
        /\ \A p \in Range(worker[c].live) : since[p] + Len(sent[p]) = Len(feed)
        /\ \A p \in Range(worker[c].todo) : since[p] + Len(sent[p]) + 1 = Len(feed)

InFeed(c, k) == \E i \in DOMAIN feed : feed[i] = Message(c, k)

\* The first n messages of c, and no others of c, are in the feed.
TakenUp(c, n) == \A k \in 1..MessagesOf[c] : InFeed(c, k) <=> k <= n

FeedHolds ==
    \A c \in Commands :
        /\ worker[c].at \in {"none", "reading", "submitting"} => TakenUp(c, 0)
        /\ worker[c].at = "publishing" => TakenUp(c, worker[c].part - 1)
        /\ worker[c].at \in {"sending", "consulting"} => TakenUp(c, worker[c].part)
        /\ worker[c].at = "answering" \/ c \in answered => TakenUp(c, MessagesOf[c])
        /\ c \in answered => worker[c].at = "done"

\* Since a command that is in its runtime came in, no other of this runtime
\* has published.
WholeSoFar ==
    \A c \in Commands : InRuntime(c) =>
        \A i, j \in DOMAIN feed :
            i < j /\ feed[i][1] = c /\ RuntimeOf[feed[j][1]] = RuntimeOf[c]
            => feed[j][1] = c

\* A page that may be open is in the list, or was dropped before it was open;
\* once the list is taken, it is in what is left of it, or closed, or late.
Reached ==
    /\ io.at = "serving" =>
        /\ shut = {}
        /\ \A p \in Pages : Subscribed(p) /\ ~Gone(p) => Listed(p) \/ p \in dropped
    /\ io.at = "joining session" => Head(io.todo) \in shut
    /\ io.at # "serving" =>
        /\ Range(sessions) \subseteq late
        /\ \A p \in Pages : Subscribed(p) /\ ~Gone(p) /\ p \notin late =>
            \/ p \in dropped
            \/ io.at \in {"stopping sessions", "joining session"} /\ p \in Range(io.todo)
            \/ p \in shut /\ session[p] # "reading"

Inv ==
    /\ Shape /\ OneAtATime /\ Stages /\ ListsAreSets /\ UpToDate
    /\ FeedHolds /\ UpdatesComeWhole /\ WholeSoFar /\ Reached

-----------------------------------------------------------------------------
(* Sequences without repetition.                                           *)

LEMMA EmptyList == Range(<<>>) = {} /\ IsInjective(<<>>)
BY DEF Range, IsInjective

LEMMA AppendToList ==
    ASSUME NEW S, NEW s \in Seq(S), NEW x \in S
    PROVE  /\ Range(Append(s, x)) = Range(s) \cup {x}
           /\ IsInjective(s) /\ x \notin Range(s) => IsInjective(Append(s, x))
<1> DEFINE t == Append(s, x)
<1>1. /\ t \in Seq(S) /\ Len(s) \in Nat /\ Len(t) = Len(s) + 1
      /\ DOMAIN t = 1..Len(t) /\ DOMAIN s = 1..Len(s)
      /\ \A i \in 1..Len(s) : t[i] = s[i]
      /\ t[Len(s) + 1] = x
  BY AppendProperties, LenProperties
<1> HIDE DEF t
<1>2. \A i \in DOMAIN t : i \in DOMAIN s \/ i = Len(s) + 1 BY <1>1
<1>3. Range(t) = Range(s) \cup {x} BY <1>1, <1>2 DEF Range
<1>4. ASSUME IsInjective(s), x \notin Range(s) PROVE IsInjective(t)
  <2> SUFFICES ASSUME NEW i \in DOMAIN t, NEW j \in DOMAIN t, t[i] = t[j] PROVE i = j
    BY DEF IsInjective
  <2>1. CASE i \in DOMAIN s /\ j \in DOMAIN s BY <1>1, <1>4, <2>1 DEF IsInjective
  <2>2. CASE i = Len(s) + 1 /\ j = Len(s) + 1 BY <2>2
  <2>3. CASE i = Len(s) + 1 /\ j \in DOMAIN s BY <1>1, <1>4, <2>3 DEF Range
  <2>4. CASE j = Len(s) + 1 /\ i \in DOMAIN s BY <1>1, <1>4, <2>4 DEF Range
  <2> QED BY <1>2, <2>1, <2>2, <2>3, <2>4
<1> QED BY <1>3, <1>4 DEF t

LEMMA TailOfList ==
    ASSUME NEW S, NEW s \in Seq(S), s # <<>>
    PROVE  /\ Head(s) \in S /\ Tail(s) \in Seq(S)
           /\ Range(s) = Range(Tail(s)) \cup {Head(s)}
           /\ IsInjective(s) => IsInjective(Tail(s)) /\ Head(s) \notin Range(Tail(s))
<1> DEFINE t == Tail(s)
<1>1. /\ Head(s) \in S /\ t \in Seq(S) /\ Len(t) = Len(s) - 1 /\ Len(s) \in Nat \ {0}
      /\ DOMAIN t = 1..Len(t) /\ DOMAIN s = 1..Len(s)
      /\ \A i \in 1..Len(t) : t[i] = s[i + 1]
  BY HeadTailProperties, LenProperties, EmptySeq
<1>2. Head(s) = s[1] OBVIOUS
<1> HIDE DEF t
<1>3. \A i \in DOMAIN s : i = 1 \/ (i - 1 \in DOMAIN t /\ t[i - 1] = s[i]) BY <1>1
<1>4. \A i \in DOMAIN t : i + 1 \in DOMAIN s /\ t[i] = s[i + 1] BY <1>1
<1>5. 1 \in DOMAIN s BY <1>1
<1>6. Range(s) = Range(t) \cup {Head(s)}
  <2>1. Range(s) \subseteq Range(t) \cup {Head(s)} BY <1>2, <1>3 DEF Range
  <2>2. Range(t) \cup {Head(s)} \subseteq Range(s) BY <1>2, <1>4, <1>5 DEF Range
  <2> QED BY <2>1, <2>2
<1>7. ASSUME IsInjective(s) PROVE IsInjective(t) /\ Head(s) \notin Range(t)
  <2>1. ASSUME NEW i \in DOMAIN t, NEW j \in DOMAIN t, t[i] = t[j] PROVE i = j
    <3>1. s[i + 1] = s[j + 1] /\ i + 1 \in DOMAIN s /\ j + 1 \in DOMAIN s BY <1>4, <2>1
    <3>2. i + 1 = j + 1 BY <1>7, <3>1 DEF IsInjective
    <3> QED BY <1>1, <3>2
  <2>2. ASSUME NEW i \in DOMAIN t, t[i] = Head(s) PROVE FALSE
    <3>1. s[i + 1] = s[1] /\ i + 1 \in DOMAIN s BY <1>2, <1>4, <2>2
    <3>2. i + 1 = 1 BY <1>5, <1>7, <3>1 DEF IsInjective
    <3> QED BY <1>1, <3>2
  <2> QED BY <2>1, <2>2 DEF IsInjective, Range
<1> QED BY <1>1, <1>6, <1>7 DEF t

-----------------------------------------------------------------------------
LEMMA MessagesAre ==
    \A m : m \in Messages <=> \E c \in Commands : \E k \in 1..MessagesOf[c] : m = Message(c, k)
BY DEF Messages

LEMMA CommandsAreNoPages ==
    /\ Pages \subseteq Connections /\ Commands \subseteq Connections
    /\ Silent \subseteq Connections
    /\ Pages \cap Commands = {} /\ Silent \cap Pages = {} /\ Silent \cap Commands = {}
BY ConnectionsAssumption DEF ConnectionsAssumption, Connections

LEMMA MessageCounts == \A c \in Commands : MessagesOf[c] \in Nat /\ MessagesOf[c] >= 1
BY ConnectionsAssumption DEF ConnectionsAssumption

\* A worker's record, by the place it is at.
LEMMA WorkerFields ==
    ASSUME NEW w \in WorkerStates
    PROVE  /\ w.at \in Places \cup {"publishing", "sending", "consulting"}
           /\ w.at \in Places => w = At(w.at)
           /\ w.at \in {"publishing", "consulting"} =>
                w = [at |-> w.at, part |-> w.part] /\ w.part \in Nat
           /\ w.at = "sending" =>
                /\ w = [at |-> "sending", part |-> w.part, todo |-> w.todo, live |-> w.live]
                /\ w.part \in Nat /\ w.todo \in Seq(Pages) /\ w.live \in Seq(Pages)
<1>1. CASE w \in [at : Places] BY <1>1 DEF Places, At
<1>2. CASE w \in [at : {"publishing", "consulting"}, part : Nat] BY <1>2 DEF Places
<1>3. CASE w \in [at : {"sending"}, part : Nat, todo : Seq(Pages), live : Seq(Pages)]
  BY <1>3 DEF Places
<1> QED BY <1>1, <1>2, <1>3 DEF WorkerStates

\* The records the steps write.
LEMMA WorkerRecords ==
    /\ \A place \in Places : At(place) \in WorkerStates /\ At(place).at = place
    /\ \A place \in {"publishing", "consulting"} : \A part \in Nat :
        LET w == [at |-> place, part |-> part]
        IN  w \in WorkerStates /\ w.at = place /\ w.part = part
    /\ \A part \in Nat : \A todo, live \in Seq(Pages) :
        LET w == [at |-> "sending", part |-> part, todo |-> todo, live |-> live]
        IN  /\ w \in WorkerStates /\ w.at = "sending" /\ w.part = part
            /\ w.todo = todo /\ w.live = live
<1>1. \A place \in Places : At(place) \in WorkerStates /\ At(place).at = place
  BY DEF At, WorkerStates
<1>2. \A place \in {"publishing", "consulting"} : \A part \in Nat :
        [at |-> place, part |-> part] \in WorkerStates
  BY DEF WorkerStates
<1>3. \A part \in Nat : \A todo, live \in Seq(Pages) :
        [at |-> "sending", part |-> part, todo |-> todo, live |-> live] \in WorkerStates
  BY DEF WorkerStates
<1> QED BY <1>1, <1>2, <1>3

LEMMA WorkerMoves ==
    ASSUME worker \in [Connections -> WorkerStates],
           NEW c \in Connections, NEW w \in WorkerStates, worker' = [worker EXCEPT ![c] = w]
    PROVE  /\ worker' \in [Connections -> WorkerStates]
           /\ worker'[c] = w
           /\ \A d \in Connections : d # c => worker'[d] = worker[d]
OBVIOUS

LEMMA IoFields ==
    /\ \A at \in {"serving", "joining workers", "ended"} : At(at) \in IoStates /\ At(at).at = at
    /\ \A at \in {"stopping sessions", "joining session"} : \A todo \in Seq(Pages) :
        LET i == [at |-> at, todo |-> todo]
        IN  i \in IoStates /\ i.at = at /\ i.todo = todo
    /\ \A i \in IoStates :
        /\ i.at \in {"serving", "stopping sessions", "joining session", "joining workers", "ended"}
        /\ i.at \in {"stopping sessions", "joining session"} =>
               i = [at |-> i.at, todo |-> i.todo] /\ i.todo \in Seq(Pages)
<1>1. \A at \in {"serving", "joining workers", "ended"} : At(at) \in IoStates /\ At(at).at = at
  BY DEF At, IoStates
<1>2. \A at \in {"stopping sessions", "joining session"} : \A todo \in Seq(Pages) :
          [at |-> at, todo |-> todo] \in IoStates
  BY DEF IoStates
<1>3. ASSUME NEW i \in IoStates
      PROVE  /\ i.at \in {"serving", "stopping sessions", "joining session",
                          "joining workers", "ended"}
             /\ i.at \in {"stopping sessions", "joining session"} =>
                    i = [at |-> i.at, todo |-> i.todo] /\ i.todo \in Seq(Pages)
  <2>1. CASE i \in [at : {"serving", "joining workers", "ended"}] BY <2>1
  <2>2. CASE i \in [at : {"stopping sessions", "joining session"}, todo : Seq(Pages)] BY <2>2
  <2> QED BY <2>1, <2>2 DEF IoStates
<1> QED BY <1>1, <1>2, <1>3

LEMMA InitHasInv == Init => Inv
<1> SUFFICES ASSUME Init PROVE Inv OBVIOUS
<1>1. <<>> \in Seq(Messages) /\ <<>> \in Seq(Pages) /\ Len(<<>>) = 0 /\ DOMAIN <<>> = {}
  BY EmptySeq
<1>2. At("none") \in WorkerStates /\ At("none").at = "none"
  BY WorkerRecords DEF Places
<1>3. \A c \in Connections : worker[c] = At("none") BY DEF Init
<1>4. \A c \in Connections : worker[c].at = "none" BY <1>2, <1>3
<1>5. io \in IoStates /\ io.at = "serving" BY IoFields DEF Init
<1>6. \A c \in Commands : ~InRuntime(c) /\ ~Sending(c)
  BY <1>4, CommandsAreNoPages DEF InRuntime, Sending
<1>7. Shape
  <2>1. TypeOK
    <3>1. BufferSize \in Nat BY ConnectionsAssumption DEF ConnectionsAssumption
    <3>2. io.at = "serving" BY <1>5
    <3>3. \A c \in Connections : worker[c].at = "none" BY <1>4
    <3>4. Range(sessions) = {} BY EmptyList DEF Init
    <3>5. unread \in [Pages -> 0..BufferSize] BY <3>1 DEF Init
    <3> QED BY <1>1, <3>2, <3>3, <3>4, <3>5 DEF Init, TypeOK
  <2>2. worker \in [Connections -> WorkerStates] BY <1>2 DEF Init
  <2> QED BY <1>1, <1>4, <1>5, <1>6, <2>1, <2>2, CommandsAreNoPages DEF Init, Shape
<1>8. OneAtATime BY <1>6 DEF OneAtATime
<1>9. Stages BY <1>4, CommandsAreNoPages DEF Init, Stages, Gone
<1>10. ListsAreSets BY <1>6, EmptyList DEF Init, ListsAreSets
<1>11. UpToDate BY <1>6, EmptyList DEF Init, UpToDate
<1>12. FeedHolds
  <2>1. \A c \in Commands : TakenUp(c, 0) BY <1>1 DEF Init, TakenUp, InFeed
  <2> QED BY <1>4, <2>1, CommandsAreNoPages DEF Init, FeedHolds
<1>13. UpdatesComeWhole /\ WholeSoFar BY <1>1 DEF Init, UpdatesComeWhole, WholeSoFar
<1>14. Reached BY <1>5 DEF Init, Reached, Subscribed
<1> QED BY <1>7, <1>8, <1>9, <1>10, <1>11, <1>12, <1>13, <1>14 DEF Inv

-----------------------------------------------------------------------------
(* Quiet steps.                                                            *)

Quiet ==
    /\ UNCHANGED <<sessions, feed, since, sent, dropped>>
    /\ \A c \in Commands : InRuntime(c) \/ InRuntime(c)' => worker'[c] = worker[c]
    /\ \A p \in Pages : Subscribed(p)' <=> Subscribed(p)

LEMMA QuietViews ==
    ASSUME Quiet
    PROVE  /\ \A c \in Commands : (InRuntime(c)' <=> InRuntime(c)) /\ (Sending(c)' <=> Sending(c))
           /\ \A c \in Commands : InRuntime(c) => worker'[c] = worker[c]
           /\ \A c \in Commands : Sending(c) => worker'[c] = worker[c]
           /\ BroadcasterFree' <=> BroadcasterFree
           /\ \A p \in Pages : Listed(p)' <=> Listed(p)
           /\ \A p \in Pages : p \in dropped' <=> p \in dropped
<1>1. \A c \in Commands : InRuntime(c)' <=> InRuntime(c) BY DEF Quiet, InRuntime
<1>2. \A c \in Commands : InRuntime(c) => worker'[c] = worker[c] BY DEF Quiet
<1>3. \A c \in Commands : Sending(c)' <=> Sending(c)
  BY <1>1, <1>2 DEF InRuntime, Sending
<1>4. \A c \in Commands : Sending(c) => worker'[c] = worker[c]
  BY <1>2 DEF InRuntime, Sending
<1>5. BroadcasterFree' <=> BroadcasterFree BY <1>3 DEF BroadcasterFree
<1>6. ASSUME NEW p \in Pages PROVE Listed(p)' <=> Listed(p)
  <2>1. sessions' = sessions BY DEF Quiet
  <2> QED BY <1>3, <1>4, <1>5, <2>1 DEF Listed
<1>7. ASSUME NEW p \in Pages PROVE p \in dropped' <=> p \in dropped
  BY DEF Quiet
<1> QED BY <1>1, <1>2, <1>3, <1>4, <1>5, <1>6, <1>7

LEMMA QuietKeeps ==
    ASSUME Inv, Quiet
    PROVE  OneAtATime' /\ ListsAreSets' /\ UpToDate' /\ UpdatesComeWhole' /\ WholeSoFar'
<1> USE QuietViews
<1>1. OneAtATime' BY DEF Inv, OneAtATime
<1>2. ListsAreSets'
  <2>1. \A p \in Range(sessions) : p \in Pages BY DEF Inv, Shape, TypeOK
  <2> QED BY <2>1 DEF Inv, ListsAreSets, Quiet
<1>3. UpToDate' BY DEF Inv, UpToDate, Quiet
<1>4. UpdatesComeWhole' BY DEF Inv, UpdatesComeWhole, Quiet
<1>5. WholeSoFar' BY DEF Inv, WholeSoFar, Quiet
<1> QED BY <1>1, <1>2, <1>3, <1>4, <1>5

LEMMA FeedHoldsKept ==
    ASSUME Inv, feed' = feed, answered' = answered,
           \A c \in Commands :
               \/ worker'[c] = worker[c]
               \/ worker'[c].at = "done" /\ c \notin answered
               \/ {worker[c].at, worker'[c].at} \subseteq {"none", "reading", "submitting"}
    PROVE  FeedHolds'
<1>1. \A c \in Commands : \A n : TakenUp(c, n)' <=> TakenUp(c, n) BY DEF TakenUp, InFeed
<1> SUFFICES ASSUME NEW c \in Commands
    PROVE  /\ worker'[c].at \in {"none", "reading", "submitting"} => TakenUp(c, 0)
           /\ worker'[c].at = "publishing" => TakenUp(c, worker'[c].part - 1)
           /\ worker'[c].at \in {"sending", "consulting"} => TakenUp(c, worker'[c].part)
           /\ worker'[c].at = "answering" \/ c \in answered => TakenUp(c, MessagesOf[c])
           /\ c \in answered => worker'[c].at = "done"
  BY <1>1 DEF FeedHolds
<1> QED BY DEF Inv, FeedHolds

LEMMA ReachedKept ==
    ASSUME Inv, Quiet, UNCHANGED <<io, shut, late>>,
           \A p \in Pages : Gone(p) => Gone(p)',
           \A p \in Pages : session'[p] = "reading" => session[p] = "reading" \/ p \notin shut
    PROVE  Reached'
<1>1. sessions' = sessions /\ \A p \in Pages : Subscribed(p)' <=> Subscribed(p) BY DEF Quiet
<1> USE QuietViews
<1>2. io.at = "serving" =>
        /\ shut = {}
        /\ \A p \in Pages : Subscribed(p)' /\ ~Gone(p)' => Listed(p)' \/ p \in dropped'
  BY <1>1 DEF Inv, Reached
<1>3. io.at = "joining session" => Head(io.todo) \in shut BY DEF Inv, Reached
<1>4. io.at # "serving" =>
        /\ Range(sessions) \subseteq late
        /\ \A p \in Pages : Subscribed(p)' /\ ~Gone(p)' /\ p \notin late =>
            \/ p \in dropped'
            \/ io.at \in {"stopping sessions", "joining session"} /\ p \in Range(io.todo)
            \/ p \in shut /\ session'[p] # "reading"
  BY <1>1 DEF Inv, Reached
<1> QED BY <1>1, <1>2, <1>3, <1>4 DEF Reached

LEMMA QuietInv ==
    ASSUME Inv, Quiet, Shape', Stages', FeedHolds', Reached'
    PROVE  Inv'
BY QuietKeeps DEF Inv

LEMMA PlacesOfWorkers ==
    ASSUME NEW f \in [Connections -> WorkerStates]
    PROVE  \A c \in Connections :
               f[c].at \in {"none", "adding", "starting", "done"} \cup WithSocket
<1> SUFFICES ASSUME NEW c \in Connections
             PROVE  f[c].at \in {"none", "adding", "starting", "done"} \cup WithSocket
  OBVIOUS
<1>1. f[c].at \in Places \cup {"publishing", "sending", "consulting"} BY WorkerFields
<1> QED BY <1>1 DEF Places, WithSocket

\* The clients' steps touch their end only.
LEMMA ClientStep ==
    ASSUME Inv, UNCHANGED <<ioVars, worker, sessions, session, cast, histories>>,
           client' \in [Connections -> {"away", "silent", "asking", "open", "closed", "left"}],
           stalled' \subseteq Pages, unread' \in [Pages -> 0..BufferSize],
           \A c \in Connections : client'[c] = "open" => client[c] = "open",
           \A c \in Connections : Gone(c) => Gone(c)'
    PROVE  Inv' /\ Quiet
<1> USE DEF ioVars, histories
<1>1. Quiet BY DEF Quiet, Subscribed
<1>2. Shape' BY DEF Inv, Shape, TypeOK, InRuntime
<1>3. Stages' BY CommandsAreNoPages DEF Inv, Stages
<1>4. FeedHolds' BY FeedHoldsKept
<1>5. Reached' BY <1>1, ReachedKept, CommandsAreNoPages
<1> QED BY <1>1, <1>2, <1>3, <1>4, <1>5, QuietInv

LEMMA ConnectStep ==
    ASSUME Inv, NEW c \in Connections, Connect(c)
    PROVE  Inv' /\ Quiet
<1>1. client' \in [Connections -> {"away", "silent", "asking", "open", "closed", "left"}]
  BY DEF Connect, Inv, Shape, TypeOK
<1>2. client'[c] \in {"silent", "asking"} /\ \A d \in Connections : d # c => client'[d] = client[d]
  BY DEF Connect, Inv, Shape, TypeOK
<1>3. \A d \in Connections : client'[d] = "open" => client[d] = "open" BY <1>2
<1>4. \A d \in Connections : Gone(d) => Gone(d)' BY <1>2 DEF Connect, Gone
<1> QED BY <1>1, <1>3, <1>4, ClientStep DEF Connect, Inv, Shape, TypeOK

LEMMA CloseStep ==
    ASSUME Inv, NEW c \in Connections, Close(c)
    PROVE  Inv' /\ Quiet
<1>1. client' \in [Connections -> {"away", "silent", "asking", "open", "closed", "left"}]
  BY DEF Close, Inv, Shape, TypeOK
<1>2. client'[c] \in {"closed", "left"} /\ \A d \in Connections : d # c => client'[d] = client[d]
  BY DEF Close, Inv, Shape, TypeOK
<1>3. \A d \in Connections : client'[d] = "open" => client[d] = "open" BY <1>2
<1>4. \A d \in Connections : Gone(d) => Gone(d)' BY <1>2 DEF Gone
<1>5. unread' \in [Pages -> 0..BufferSize]
  <2>1. 0 \in 0..BufferSize BY ConnectionsAssumption DEF ConnectionsAssumption
  <2> QED BY <2>1 DEF Close, Inv, Shape, TypeOK
<1>6. stalled' \subseteq Pages BY DEF Close, Inv, Shape, TypeOK
<1> QED BY <1>1, <1>3, <1>4, <1>5, <1>6, ClientStep DEF Close

LEMMA StallStep ==
    ASSUME Inv, NEW p \in Pages, Stall(p)
    PROVE  Inv' /\ Quiet
BY ClientStep DEF Stall, Inv, Shape, TypeOK, Gone

LEMMA ReadMessageStep ==
    ASSUME Inv, NEW p \in Pages, ReadMessage(p)
    PROVE  Inv' /\ Quiet
<1>1. unread' \in [Pages -> 0..BufferSize]
  <2>1. BufferSize \in Nat BY ConnectionsAssumption DEF ConnectionsAssumption
  <2>2. unread[p] \in 0..BufferSize /\ unread[p] > 0 BY DEF ReadMessage, Inv, Shape, TypeOK
  <2>3. unread[p] - 1 \in 0..BufferSize BY <2>1, <2>2
  <2> QED BY <2>3 DEF ReadMessage, Inv, Shape, TypeOK
<1> QED BY <1>1, ClientStep DEF ReadMessage, Inv, Shape, TypeOK, Gone

-----------------------------------------------------------------------------
(* Quiet steps of the io thread.                                           *)

LEMMA FlagStep ==
    ASSUME Inv, UNCHANGED <<io, active, shut, worker, sessions, session, clientVars, histories>>,
           stopping' \in BOOLEAN, accepting' \in BOOLEAN
    PROVE  Inv' /\ Quiet
<1> USE DEF clientVars, histories
<1>1. Quiet BY DEF Quiet, Subscribed
<1>2. Shape' BY DEF Inv, Shape, TypeOK, InRuntime
<1>3. Stages' BY DEF Inv, Stages, Gone
<1>4. FeedHolds' BY FeedHoldsKept
<1>5. Reached' BY <1>1, ReachedKept DEF Gone
<1> QED BY <1>1, <1>2, <1>3, <1>4, <1>5, QuietInv

LEMMA AcceptFailsStep == Inv /\ AcceptFails => Inv' /\ Quiet
BY FlagStep DEF AcceptFails, Inv, Shape, TypeOK

LEMMA RequestStopStep == Inv /\ RequestStop => Inv' /\ Quiet
BY FlagStep DEF RequestStop, Inv, Shape, TypeOK

\* What stop does once it has the list: io and shut change.
LEMMA StopStep ==
    ASSUME Inv, UNCHANGED <<stopping, accepting, worker, sessions, session, clientVars, histories>>,
           active' \subseteq Connections, shut \subseteq shut', shut' \subseteq Connections,
           io' \in IoStates, io'.at = "joining session" => io'.todo # <<>>,
           Reached'
    PROVE  Inv' /\ Quiet
<1> USE DEF clientVars, histories
<1>1. Quiet BY DEF Quiet, Subscribed
<1>2. Shape'
  <2>1. io'.at \in {"serving", "stopping sessions", "joining session", "joining workers", "ended"}
    BY IoFields
  <2> QED BY <2>1 DEF Inv, Shape, TypeOK, InRuntime
<1>3. Stages' BY DEF Inv, Stages, Gone
<1>4. FeedHolds' BY FeedHoldsKept
<1> QED BY <1>1, <1>2, <1>3, <1>4, QuietInv

LEMMA StopSessionStep == Inv /\ StopSession => Inv' /\ Quiet
<1> SUFFICES ASSUME Inv, StopSession PROVE Inv' /\ Quiet OBVIOUS
<1> DEFINE head == Head(io.todo)
<1>1. /\ io = [at |-> "stopping sessions", todo |-> io.todo] /\ io.todo \in Seq(Pages)
      /\ io.todo # <<>> /\ io.at = "stopping sessions"
  BY IoFields DEF Inv, Shape, StopSession
<1>2. head \in Pages /\ head \in Connections BY <1>1, TailOfList, CommandsAreNoPages
<1>3. /\ io' = [at |-> "joining session", todo |-> io.todo]
      /\ io' \in IoStates /\ io'.at = "joining session" /\ io'.todo = io.todo
  <2> DEFINE todo == io.todo
  <2>1. io = [at |-> "stopping sessions", todo |-> todo] BY <1>1
  <2>2. io' = [io EXCEPT !.at = "joining session"] BY DEF StopSession
  <2>3. todo \in Seq(Pages) BY <1>1
  <2> HIDE DEF todo
  <2>4. io' = [at |-> "joining session", todo |-> todo] BY <2>1, <2>2
  <2>5. io' \in IoStates /\ io'.at = "joining session" /\ io'.todo = todo
    BY <2>3, <2>4, IoFields
  <2> QED BY <2>4, <2>5 DEF todo
<1>4. shut' = shut \cup {head} BY DEF StopSession
<1> HIDE DEF head
<1>5. Reached'
  <2>1. Quiet BY DEF Quiet, Subscribed, StopSession, clientVars, histories
  <2>2. Range(sessions) \subseteq late BY <1>1 DEF Inv, Reached
  <2>3. \A p \in Pages : Subscribed(p) /\ ~Gone(p) /\ p \notin late =>
            p \in dropped \/ p \in Range(io.todo) \/ (p \in shut /\ session[p] # "reading")
    BY <1>1 DEF Inv, Reached
  <2>4. UNCHANGED <<sessions, session, client, late>>
    BY DEF StopSession, clientVars, histories
  <2>5. \A p \in Pages : (Subscribed(p)' <=> Subscribed(p)) /\ (Gone(p)' <=> Gone(p))
    BY <2>4 DEF Subscribed, Gone
  <2> QED BY <1>3, <1>4, <2>1, <2>2, <2>3, <2>4, <2>5, QuietViews DEF Reached, head
<1>6. active' \subseteq Connections /\ shut \subseteq shut' /\ shut' \subseteq Connections
  BY <1>2, <1>4 DEF StopSession, Inv, Shape, TypeOK
<1> QED BY <1>1, <1>3, <1>5, <1>6, StopStep DEF StopSession

LEMMA JoinSessionStep == Inv /\ JoinSession => Inv' /\ Quiet
<1> SUFFICES ASSUME Inv, JoinSession PROVE Inv' /\ Quiet OBVIOUS
<1>1. io.todo \in Seq(Pages) /\ io.todo # <<>> /\ io.at = "joining session"
  BY IoFields DEF Inv, Shape, JoinSession
<1> DEFINE head == Head(io.todo)
           tail == Tail(io.todo)
<1>2. tail \in Seq(Pages) /\ Range(io.todo) = Range(tail) \cup {head} BY <1>1, TailOfList
<1>3. /\ io' = [at |-> "stopping sessions", todo |-> tail]
      /\ session[head] \in {"unstarted", "done"}
  BY DEF JoinSession
<1>4. head \in shut BY <1>1 DEF Inv, Reached
<1> HIDE DEF head, tail
<1>5. io' \in IoStates /\ io'.at = "stopping sessions" /\ io'.todo = tail BY <1>2, <1>3, IoFields
<1>6. Reached'
  <2>1. Quiet BY DEF Quiet, Subscribed, JoinSession, clientVars, histories
  <2>2. Range(sessions) \subseteq late BY <1>1 DEF Inv, Reached
  <2>3. \A p \in Pages : Subscribed(p) /\ ~Gone(p) /\ p \notin late =>
            p \in dropped \/ p \in Range(io.todo) \/ (p \in shut /\ session[p] # "reading")
    BY <1>1 DEF Inv, Reached
  <2>4. UNCHANGED <<sessions, session, client, late, shut>>
    BY DEF JoinSession, clientVars, histories
  <2>5. \A p \in Pages : (Subscribed(p)' <=> Subscribed(p)) /\ (Gone(p)' <=> Gone(p))
    BY <2>4 DEF Subscribed, Gone
  <2>6. \A p \in Pages : Subscribed(p) /\ ~Gone(p) /\ p \notin late =>
            p \in dropped \/ p \in Range(tail) \/ (p \in shut /\ session[p] # "reading")
    BY <1>2, <1>3, <1>4, <2>3
  <2> QED BY <1>5, <2>1, <2>2, <2>4, <2>5, <2>6, QuietViews DEF Reached
<1>7. active' \subseteq Connections /\ shut \subseteq shut' /\ shut' \subseteq Connections
  BY DEF JoinSession, Inv, Shape, TypeOK
<1> QED BY <1>5, <1>6, <1>7, StopStep DEF JoinSession

\* The last two steps of stop: there is nothing left of the list.
LEMMA ListIsDone ==
    ASSUME Inv, UNCHANGED <<sessions, session, client, late>>, Quiet,
           \/ io.at = "joining workers"
           \/ io.at = "stopping sessions" /\ io.todo = <<>>,
           shut \subseteq shut', io'.at \in {"joining workers", "ended"}
    PROVE  Reached'
<1>1. Range(sessions) \subseteq late BY DEF Inv, Reached
<1>2. \A p \in Pages : Subscribed(p) /\ ~Gone(p) /\ p \notin late =>
          p \in dropped \/ (p \in shut /\ session[p] # "reading")
  BY EmptyList DEF Inv, Reached
<1>3. \A p \in Pages : (Subscribed(p)' <=> Subscribed(p)) /\ (Gone(p)' <=> Gone(p))
  BY DEF Subscribed, Gone
<1> QED BY <1>1, <1>2, <1>3, QuietViews DEF Reached

LEMMA CloseSocketsStep == Inv /\ CloseSockets => Inv' /\ Quiet
<1> SUFFICES ASSUME Inv, CloseSockets PROVE Inv' /\ Quiet OBVIOUS
<1>1. Quiet BY DEF Quiet, Subscribed, CloseSockets, clientVars, histories
<1>2. io' \in IoStates /\ io'.at = "joining workers" BY IoFields DEF CloseSockets
<1>3. active' \subseteq Connections /\ shut \subseteq shut' /\ shut' \subseteq Connections
  BY DEF CloseSockets, Inv, Shape, TypeOK
<1>4. Reached' BY <1>1, <1>2, <1>3, ListIsDone DEF CloseSockets, clientVars, histories
<1> QED BY <1>2, <1>3, <1>4, StopStep DEF CloseSockets

LEMMA JoinWorkersStep == Inv /\ JoinWorkers => Inv' /\ Quiet
<1> SUFFICES ASSUME Inv, JoinWorkers PROVE Inv' /\ Quiet OBVIOUS
<1>1. Quiet BY DEF Quiet, Subscribed, JoinWorkers, clientVars, histories
<1>2. io' \in IoStates /\ io'.at = "ended" BY IoFields DEF JoinWorkers
<1>3. active' \subseteq Connections /\ shut \subseteq shut' /\ shut' \subseteq Connections
  BY DEF JoinWorkers, Inv, Shape, TypeOK
<1>4. Reached' BY <1>1, <1>2, <1>3, ListIsDone DEF JoinWorkers, clientVars, histories
<1> QED BY <1>2, <1>3, <1>4, StopStep DEF JoinWorkers

-----------------------------------------------------------------------------
(* Quiet steps of the workers and of the sessions' threads.                *)

LEMMA WorkerGoes ==
    ASSUME Inv, NEW c \in Connections, NEW place \in Places,
           worker' = [worker EXCEPT ![c] = At(place)]
    PROVE  /\ worker' \in [Connections -> WorkerStates] /\ worker'[c].at = place
           /\ \A d \in Connections : d # c => worker'[d] = worker[d]
<1> DEFINE w == At(place)
<1>1. w \in WorkerStates /\ w.at = place BY WorkerRecords
<1>2. worker' = [worker EXCEPT ![c] = w] /\ worker \in [Connections -> WorkerStates]
  BY DEF Inv, Shape
<1> HIDE DEF w
<1> QED BY <1>1, <1>2, WorkerMoves

\* A worker outside the runtimes goes on to another place outside them.
LEMMA WorkerStep ==
    ASSUME Inv, NEW c \in Connections, NEW place \in Places,
           worker[c].at \in Places, worker' = [worker EXCEPT ![c] = At(place)],
           c \in Commands => place \notin {"adding", "starting"},
           c \in Pages => place \in {"none", "reading", "adding", "starting", "done"},
           UNCHANGED <<io, stopping, accepting, shut, sessions, clientVars, feed, since,
                       sent, dropped, late>>,
           active' \subseteq Connections, answered' \subseteq Commands,
           session' \in [Pages -> {"none", "unstarted", "accepting", "reading", "done"}],
           \A p \in Pages : Subscribed(p)' <=> Subscribed(p),
           \A p \in Pages : session'[p] = "reading" => session[p] = "reading",
           Stages', FeedHolds'
    PROVE  Inv' /\ Quiet
<1> USE DEF clientVars
<1>1. /\ worker' \in [Connections -> WorkerStates] /\ worker'[c].at = place
      /\ \A d \in Connections : d # c => worker'[d] = worker[d]
  BY WorkerGoes
<1>2. Quiet
  <2>1. \A d \in Commands : InRuntime(d) \/ InRuntime(d)' => worker'[d] = worker[d]
    BY <1>1, CommandsAreNoPages DEF InRuntime, Places
  <2> QED BY <2>1 DEF Quiet
<1>3. Shape'
  <2>1. TypeOK'
    <3>1. \A d \in Connections :
              worker'[d].at \in {"none", "adding", "starting", "done"} \cup WithSocket
      BY <1>1, PlacesOfWorkers
    <3> QED BY <3>1 DEF Inv, Shape, TypeOK
  <2>2. ASSUME NEW d \in Commands
        PROVE  /\ worker'[d].at \notin {"adding", "starting"}
               /\ InRuntime(d)' => worker'[d].part \in 1..MessagesOf[d]
    BY <1>1, CommandsAreNoPages DEF Inv, Shape, InRuntime, Places
  <2>3. \A p \in Pages : worker'[p].at \in {"none", "reading", "adding", "starting", "done"}
    BY <1>1, CommandsAreNoPages DEF Inv, Shape
  <2> QED BY <1>1, <2>1, <2>2, <2>3 DEF Inv, Shape
<1>4. Reached' BY <1>2, ReachedKept DEF Gone
<1> QED BY <1>2, <1>3, <1>4, QuietInv

LEMMA AcceptStep ==
    ASSUME Inv, NEW c \in Connections, Accept(c)
    PROVE  Inv' /\ Quiet
<1>1. worker[c].at = "none" BY DEF Accept, Pending
<1>2. /\ worker'[c].at = "reading" /\ \A d \in Connections : d # c => worker'[d] = worker[d]
  BY WorkerGoes DEF Accept, Places
<1>3. Stages' BY <1>1, <1>2, CommandsAreNoPages DEF Inv, Stages, Accept, clientVars, histories, Gone
<1>4. FeedHolds'
  BY <1>1, <1>2, FeedHoldsKept, CommandsAreNoPages DEF Accept, histories
<1> QED
  BY <1>1, <1>3, <1>4, WorkerStep
  DEF Accept, clientVars, histories, Places, Inv, Shape, TypeOK, Subscribed

LEMMA ReadRequestStep ==
    ASSUME Inv, NEW c \in Pages \cup Commands, ReadRequest(c)
    PROVE  Inv' /\ Quiet
<1> DEFINE place == IF c \in Pages THEN "adding" ELSE "submitting"
<1>1. c \in Connections /\ worker[c].at = "reading" /\ place \in Places
  BY CommandsAreNoPages DEF ReadRequest, Places
<1>2. /\ c \in Commands => place = "submitting"
      /\ c \in Pages => place = "adding"
  BY CommandsAreNoPages
<1>3. worker' = [worker EXCEPT ![c] = At(place)] BY DEF ReadRequest
<1> HIDE DEF place
<1>4. /\ worker'[c].at = place /\ \A d \in Connections : d # c => worker'[d] = worker[d]
  BY <1>1, <1>3, WorkerGoes
<1>5. Stages'
  BY <1>1, <1>2, <1>4, CommandsAreNoPages
  DEF Inv, Stages, ReadRequest, ioVars, clientVars, histories, Gone
<1>6. FeedHolds'
  BY <1>1, <1>2, <1>4, FeedHoldsKept, CommandsAreNoPages DEF ReadRequest, histories
<1> QED
  BY <1>1, <1>2, <1>3, <1>5, <1>6, WorkerStep
  DEF ReadRequest, ioVars, clientVars, histories, Places, Inv, Shape, TypeOK, Subscribed

LEMMA ReadFailsStep ==
    ASSUME Inv, NEW c \in Connections, ReadFails(c)
    PROVE  Inv' /\ Quiet
<1>1. worker[c].at = "reading" BY DEF ReadFails
<1>2. /\ worker'[c].at = "done" /\ \A d \in Connections : d # c => worker'[d] = worker[d]
  BY WorkerGoes DEF ReadFails, Places
<1>3. Stages'
  BY <1>1, <1>2, CommandsAreNoPages DEF Inv, Stages, ReadFails, clientVars, histories, Gone
<1>4. c \notin answered BY <1>1 DEF Inv, FeedHolds, Shape, TypeOK
<1>5. FeedHolds'
  BY <1>1, <1>2, <1>4, FeedHoldsKept, CommandsAreNoPages DEF ReadFails, histories
<1> QED
  BY <1>1, <1>3, <1>5, WorkerStep
  DEF ReadFails, clientVars, histories, Places, Inv, Shape, TypeOK, Subscribed

LEMMA StartSessionStep ==
    ASSUME Inv, NEW p \in Pages, StartSession(p)
    PROVE  Inv' /\ Quiet
<1>1. p \in Connections /\ worker[p].at = "starting" /\ session[p] = "unstarted"
  BY CommandsAreNoPages DEF StartSession, Inv, Stages
<1>2. /\ worker'[p].at = "done" /\ \A d \in Connections : d # p => worker'[d] = worker[d]
  BY <1>1, WorkerGoes DEF StartSession, Places
<1>3. session'[p] = "accepting" /\ \A q \in Pages : q # p => session'[q] = session[q]
  BY DEF StartSession, Inv, Shape, TypeOK
<1>4. Stages'
  BY <1>1, <1>2, <1>3, CommandsAreNoPages
  DEF Inv, Stages, StartSession, clientVars, histories, Gone
<1>5. FeedHolds'
  BY <1>1, <1>2, FeedHoldsKept, CommandsAreNoPages DEF StartSession, histories
<1>6. \A q \in Pages : /\ Subscribed(q)' <=> Subscribed(q)
                       /\ session'[q] = "reading" => session[q] = "reading"
  BY <1>1, <1>3 DEF Subscribed
<1>7. session' \in [Pages -> {"none", "unstarted", "accepting", "reading", "done"}]
  BY DEF StartSession, Inv, Shape, TypeOK
<1> QED
  BY <1>1, <1>4, <1>5, <1>6, <1>7, WorkerStep, CommandsAreNoPages
  DEF StartSession, clientVars, histories, Places, Inv, Shape, TypeOK

LEMMA AnswerStep ==
    ASSUME Inv, NEW c \in Commands, Answer(c)
    PROVE  Inv' /\ Quiet
<1>1. c \in Connections /\ worker[c].at = "answering" BY CommandsAreNoPages DEF Answer
<1>2. /\ worker'[c].at = "done" /\ \A d \in Connections : d # c => worker'[d] = worker[d]
  BY <1>1, WorkerGoes DEF Answer, Places
<1>3. Stages'
  BY <1>1, <1>2, CommandsAreNoPages DEF Inv, Stages, Answer, clientVars, Gone
<1>4. answered' \subseteq answered \cup {c} BY DEF Answer
<1>5. FeedHolds'
  <2>1. \A d \in Commands : \A n : TakenUp(d, n)' <=> TakenUp(d, n)
    BY DEF TakenUp, InFeed, Answer
  <2>2. TakenUp(c, MessagesOf[c]) BY <1>1 DEF Inv, FeedHolds
  <2> QED BY <1>2, <1>4, <2>1, <2>2, CommandsAreNoPages DEF Inv, FeedHolds
<1>6. answered' \subseteq Commands BY <1>4 DEF Inv, Shape, TypeOK
<1> QED
  BY <1>1, <1>3, <1>5, <1>6, WorkerStep, CommandsAreNoPages
  DEF Answer, clientVars, Places, Inv, Shape, TypeOK, Subscribed

\* A session's thread changes what its session and its client are about.
LEMMA SessionStep ==
    ASSUME Inv, NEW p \in Pages,
           UNCHANGED <<ioVars, worker, sessions, cast, stalled, unread, histories>>,
           session[p] \in {"accepting", "reading"},
           NEW s \in {"reading", "done"}, session' = [session EXCEPT ![p] = s],
           s = "reading" => p \notin shut,
           client' \in [Connections -> {"away", "silent", "asking", "open", "closed", "left"}],
           \A c \in Connections : Gone(c) => Gone(c)',
           \A q \in Pages : client'[q] = "open" => client[q] = "open" \/ q = p,
           s = "done" => Gone(p) \/ p \in shut
    PROVE  Inv' /\ Quiet
<1> USE DEF ioVars, histories
<1>1. session'[p] = s /\ \A q \in Pages : q # p => session'[q] = session[q]
  BY DEF Inv, Shape, TypeOK
<1>2. \A q \in Pages : Subscribed(q)' <=> Subscribed(q) BY <1>1 DEF Subscribed
<1>3. Quiet BY <1>2 DEF Quiet
<1>4. Shape' BY DEF Inv, Shape, TypeOK, InRuntime
<1>5. Stages' BY <1>1, CommandsAreNoPages DEF Inv, Stages
<1>6. FeedHolds' BY FeedHoldsKept
<1>7. Reached' BY <1>1, <1>3, ReachedKept, CommandsAreNoPages
<1> QED BY <1>3, <1>4, <1>5, <1>6, <1>7, QuietInv

LEMMA HandshakeStep ==
    ASSUME Inv, NEW p \in Pages, Handshake(p)
    PROVE  Inv' /\ Quiet
<1>1. client' \in [Connections -> {"away", "silent", "asking", "open", "closed", "left"}]
  BY DEF Handshake, Inv, Shape, TypeOK
<1>2. /\ \A c \in Connections : c # p => client'[c] = client[c]
      /\ client'[p] = "left" \/ client[p] # "left"
      /\ p \in Connections /\ client[p] \in {"asking", "left"}
  BY CommandsAreNoPages DEF Handshake, Inv, Shape, TypeOK
<1>3. \A c \in Connections : Gone(c) => Gone(c)' BY <1>2 DEF Gone
<1>4. \A q \in Pages : client'[q] = "open" => client[q] = "open" \/ q = p
  BY <1>2, CommandsAreNoPages
<1> QED BY <1>1, <1>3, <1>4, SessionStep DEF Handshake

LEMMA SessionEndsStep ==
    ASSUME Inv, NEW p \in Pages, SessionEnds(p)
    PROVE  Inv' /\ Quiet
BY SessionStep DEF SessionEnds, clientVars, Inv, Shape, TypeOK, Gone

-----------------------------------------------------------------------------
(* The steps that change the list, the feed or who is inside a runtime.    *)

\* With no message under way no command has a list of its own.
LEMMA NobodySends == BroadcasterFree => \A c \in Commands : ~Sending(c)
BY DEF BroadcasterFree

LEMMA FeedEntries ==
    ASSUME Inv
    PROVE  /\ Len(feed) \in Nat /\ DOMAIN feed = 1..Len(feed)
           /\ \A i \in DOMAIN feed : \E c \in Commands : \E k \in 1..MessagesOf[c] :
                  feed[i] = Message(c, k) /\ feed[i][1] = c
<1>1. feed \in Seq(Messages) BY DEF Inv, Shape, TypeOK
<1>2. Len(feed) \in Nat /\ DOMAIN feed = 1..Len(feed) BY <1>1, LenProperties
<1>3. \A i \in DOMAIN feed : feed[i] \in Messages BY <1>1, <1>2, ElementOfSeq
<1>4. \A i \in DOMAIN feed : \E c \in Commands : \E k \in 1..MessagesOf[c] : feed[i] = Message(c, k)
  BY <1>3, MessagesAre
<1>5. \A c, k : Message(c, k)[1] = c BY DEF Message
<1> QED BY <1>2, <1>4, <1>5

LEMMA SentLengths ==
    ASSUME Inv
    PROVE  \A p \in Pages : Len(sent[p]) \in Nat /\ since[p] \in Nat /\ sent[p] \in Seq(Messages)
BY LenProperties DEF Inv, Shape

LEMMA TakeSessionsStep == Inv /\ TakeSessions => Inv'
<1> SUFFICES ASSUME Inv, TakeSessions PROVE Inv' OBVIOUS
<1> USE DEF clientVars, histories
<1>1. \A c \in Commands : ~Sending(c) BY NobodySends DEF TakeSessions
<1>2. sessions \in Seq(Pages) BY DEF Inv, Shape
<1>3. io' \in IoStates /\ io'.at = "stopping sessions" /\ io'.todo = sessions
  BY <1>2, IoFields DEF TakeSessions
<1>4. <<>> \in Seq(Pages) /\ sessions' = <<>> /\ Range(<<>>) = {} /\ IsInjective(<<>>)
  BY EmptySeq, EmptyList DEF TakeSessions
<1>5. Shape' BY <1>3, <1>4 DEF Inv, Shape, TypeOK, InRuntime, TakeSessions
<1>6. OneAtATime' BY DEF Inv, OneAtATime, InRuntime, Sending, TakeSessions
<1>7. Stages' BY DEF Inv, Stages, Gone, TakeSessions
<1>8. ListsAreSets' BY <1>1, <1>4 DEF ListsAreSets, Sending, TakeSessions
<1>9. UpToDate' BY <1>1, <1>4 DEF UpToDate, Sending, TakeSessions
<1>10. FeedHolds' BY FeedHoldsKept DEF TakeSessions
<1>11. UpdatesComeWhole' /\ WholeSoFar'
  <2>1. feed' = feed /\ worker' = worker BY DEF TakeSessions
  <2>2. UpdatesComeWhole' BY <2>1 DEF Inv, UpdatesComeWhole
  <2>3. WholeSoFar' BY <2>1 DEF Inv, WholeSoFar, InRuntime
  <2> QED BY <2>2, <2>3
<1>12. Reached'
  <2>1. \A p \in Pages : Subscribed(p) /\ ~Gone(p) => p \in Range(sessions) \/ p \in dropped
    BY DEF TakeSessions, Inv, Reached, Listed
  <2>2. \A p \in Pages : /\ Subscribed(p)' <=> Subscribed(p)
                         /\ Gone(p)' <=> Gone(p)
                         /\ (p \in dropped' <=> p \in dropped)
    BY DEF TakeSessions, Subscribed, Gone
  <2> QED BY <1>3, <1>4, <2>1, <2>2 DEF Reached
<1> QED
  BY <1>5, <1>6, <1>7, <1>8, <1>9, <1>10, <1>11, <1>12 DEF Inv

LEMMA AddSessionStep ==
    ASSUME Inv, NEW p \in Pages, AddSession(p)
    PROVE  Inv'
<1> USE DEF ioVars, clientVars
<1>1. \A c \in Commands : ~Sending(c) BY NobodySends DEF AddSession
<1>2. /\ p \in Connections /\ worker[p].at = "adding" /\ session[p] = "none"
      /\ sent[p] = <<>> /\ ~Subscribed(p)
  BY CommandsAreNoPages DEF AddSession, Inv, Stages, Subscribed
<1>3. /\ worker' \in [Connections -> WorkerStates] /\ worker'[p].at = "starting"
      /\ \A d \in Connections : d # p => worker'[d] = worker[d]
  BY <1>2, WorkerGoes DEF AddSession, Places
<1>4. \A c \in Commands : worker'[c] = worker[c] BY <1>3, CommandsAreNoPages
<1>5. \A c \in Commands : ~Sending(c)' BY <1>1, <1>4 DEF Sending
<1>6. /\ sessions' \in Seq(Pages) /\ Range(sessions') = Range(sessions) \cup {p}
      /\ IsInjective(sessions')
  <2>1. sessions \in Seq(Pages) /\ IsInjective(sessions) /\ p \notin Range(sessions)
    BY <1>2 DEF Inv, Shape, ListsAreSets
  <2> QED BY <2>1, AppendToList, AppendProperties DEF AddSession
<1>7. session'[p] = "unstarted" /\ \A q \in Pages : q # p => session'[q] = session[q]
  BY DEF AddSession, Inv, Shape, TypeOK
<1>8. /\ since' \in [Pages -> Nat] /\ since'[p] = Len(feed)
      /\ \A q \in Pages : q # p => since'[q] = since[q]
  BY FeedEntries DEF AddSession, Inv, Shape
<1>9. Shape'
  <2>1. TypeOK'
    <3>1. \A d \in Connections :
              worker'[d].at \in {"none", "adding", "starting", "done"} \cup WithSocket
      BY <1>3, PlacesOfWorkers
    <3>2. session' \in [Pages -> {"none", "unstarted", "accepting", "reading", "done"}]
      BY DEF AddSession, Inv, Shape, TypeOK
    <3> QED BY <1>6, <3>1, <3>2 DEF AddSession, Inv, Shape, TypeOK
  <2>2. \A q \in Pages : worker'[q].at \in {"none", "reading", "adding", "starting", "done"}
    BY <1>3, CommandsAreNoPages DEF Inv, Shape
  <2> QED BY <1>3, <1>4, <1>6, <1>8, <2>1, <2>2 DEF AddSession, Inv, Shape, InRuntime
<1>10. OneAtATime' BY <1>4, <1>5 DEF Inv, OneAtATime, InRuntime
<1>11. Stages'
  BY <1>2, <1>3, <1>7, CommandsAreNoPages DEF Inv, Stages, Gone, AddSession
<1>12. ListsAreSets'
  <2>1. \A q \in Range(sessions') : Subscribed(q)'
    BY <1>6, <1>7 DEF Subscribed, Inv, ListsAreSets, Shape, TypeOK
  <2> QED BY <1>5, <1>6, <2>1 DEF ListsAreSets
<1>13. UpToDate'
  <2>1. \A q \in Range(sessions) : since[q] + Len(sent[q]) = Len(feed) /\ q # p /\ q \in Pages
    BY <1>2 DEF Inv, UpToDate, ListsAreSets, AddSession, Shape, TypeOK
  <2>2. Len(<<>>) = 0 /\ Len(feed) \in Nat BY FeedEntries, EmptySeq
  <2>3. \A q \in Range(sessions') : since'[q] + Len(sent[q]) = Len(feed)
    BY <1>2, <1>6, <1>8, <2>1, <2>2
  <2> QED BY <1>5, <2>3 DEF UpToDate, AddSession
<1>14. FeedHolds' BY <1>4, FeedHoldsKept DEF AddSession
<1>15. UpdatesComeWhole' /\ WholeSoFar'
  BY <1>4 DEF Inv, UpdatesComeWhole, WholeSoFar, InRuntime, AddSession
<1>16. Reached'
  <2>1. /\ io' = io /\ shut' = shut /\ client' = client /\ feed' = feed /\ sent' = sent
        /\ dropped' = dropped /\ late \subseteq late'
        /\ io.at # "serving" => p \in late'
    BY DEF AddSession
  <2>2. \A q \in Pages : q # p =>
            /\ Subscribed(q)' <=> Subscribed(q)
            /\ Gone(q)' <=> Gone(q)
            /\ (q \in dropped' <=> q \in dropped)
            /\ session'[q] = session[q]
    BY <1>7, <1>8, <2>1 DEF Subscribed, Gone
  <2>3. BroadcasterFree /\ BroadcasterFree' BY <1>5 DEF AddSession, BroadcasterFree
  <2>4. \A q \in Pages : (Listed(q) => Listed(q)') /\ Listed(p)' BY <1>6, <2>3 DEF Listed
  <2>5. io.at = "serving" =>
          shut' = {} /\ \A q \in Pages : Subscribed(q)' /\ ~Gone(q)' => Listed(q)' \/ q \in dropped'
    BY <2>1, <2>2, <2>4 DEF Inv, Reached
  <2>6. io.at # "serving" =>
        /\ Range(sessions') \subseteq late'
        /\ \A q \in Pages : Subscribed(q)' /\ ~Gone(q)' /\ q \notin late' =>
            \/ q \in dropped'
            \/ io.at \in {"stopping sessions", "joining session"} /\ q \in Range(io.todo)
            \/ q \in shut /\ session'[q] # "reading"
    <3> SUFFICES ASSUME io.at # "serving"
        PROVE  /\ Range(sessions') \subseteq late'
               /\ \A q \in Pages : Subscribed(q)' /\ ~Gone(q)' /\ q \notin late' =>
                    \/ q \in dropped'
                    \/ io.at \in {"stopping sessions", "joining session"} /\ q \in Range(io.todo)
                    \/ q \in shut /\ session'[q] # "reading"
      OBVIOUS
    <3>1. Range(sessions') \subseteq late' BY <1>6, <2>1 DEF Inv, Reached
    <3>2. \A q \in Pages : q \notin late' => q # p /\ q \notin late BY <2>1
    <3> QED BY <2>2, <3>1, <3>2 DEF Inv, Reached
  <2> QED BY <2>1, <2>5, <2>6 DEF Inv, Reached
<1> QED
  BY <1>9, <1>10, <1>11, <1>12, <1>13, <1>14, <1>15, <1>16 DEF Inv

\* A command that goes on inside its runtime, or enters or leaves it.
LEMMA CommandGoes ==
    ASSUME Inv, NEW c \in Commands, NEW w \in WorkerStates,
           worker' = [worker EXCEPT ![c] = w],
           w.at \notin {"adding", "starting"},
           w.at \in {"publishing", "sending", "consulting"} => w.part \in 1..MessagesOf[c],
           UNCHANGED <<ioVars, session, clientVars, since, dropped, late, answered>>,
           sessions' \in Seq(Pages), feed' \in Seq(Messages), sent' \in [Pages -> Seq(Messages)],
           unread' \in [Pages -> 0..BufferSize]
    PROVE  /\ Shape'
           /\ worker'[c] = w
           /\ \A d \in Connections : d # c => worker'[d] = worker[d]
           /\ \A p \in Pages : worker'[p] = worker[p]
<1> USE DEF ioVars, clientVars
<1>1. /\ worker' \in [Connections -> WorkerStates] /\ worker'[c] = w
      /\ \A d \in Connections : d # c => worker'[d] = worker[d]
  BY WorkerMoves, CommandsAreNoPages DEF Inv, Shape
<1>2. \A p \in Pages : worker'[p] = worker[p] BY <1>1, CommandsAreNoPages
<1>3. TypeOK'
  <2>1. \A d \in Connections :
            worker'[d].at \in {"none", "adding", "starting", "done"} \cup WithSocket
    BY <1>1, PlacesOfWorkers
  <2>2. Range(sessions') \subseteq Pages BY LenProperties, ElementOfSeq DEF Range
  <2> QED BY <2>1, <2>2 DEF Inv, Shape, TypeOK
<1>4. \A d \in Commands : /\ worker'[d].at \notin {"adding", "starting"}
                          /\ InRuntime(d)' => worker'[d].part \in 1..MessagesOf[d]
  BY <1>1, CommandsAreNoPages DEF Inv, Shape, InRuntime
<1>5. Shape' BY <1>1, <1>2, <1>3, <1>4 DEF Inv, Shape
<1> QED BY <1>1, <1>2, <1>5

LEMMA SubmitStep ==
    ASSUME Inv, NEW c \in Commands, Submit(c)
    PROVE  Inv'
<1> DEFINE w == [at |-> "publishing", part |-> 1]
<1> USE DEF ioVars, clientVars, histories
<1>1. w \in WorkerStates /\ w.at = "publishing" /\ w.part = 1 BY WorkerRecords
<1>2. worker' = [worker EXCEPT ![c] = w] /\ worker[c].at = "submitting" BY DEF Submit
<1> HIDE DEF w
<1>3. 1 \in 1..MessagesOf[c] BY MessageCounts
<1>4. /\ Shape' /\ worker'[c] = w /\ \A d \in Connections : d # c => worker'[d] = worker[d]
      /\ \A p \in Pages : worker'[p] = worker[p]
  <2>1. /\ sessions' \in Seq(Pages) /\ feed' \in Seq(Messages)
        /\ sent' \in [Pages -> Seq(Messages)] /\ unread' \in [Pages -> 0..BufferSize]
        /\ UNCHANGED <<ioVars, session, clientVars, since, dropped, late, answered>>
    BY DEF Submit, Inv, Shape, TypeOK
  <2>2. w.at \notin {"adding", "starting"} /\ w.part \in 1..MessagesOf[c] BY <1>1, <1>3
  <2> HIDE DEF ioVars, clientVars
  <2> QED BY <1>1, <1>2, <2>1, <2>2, CommandGoes
<1>5. \A d \in Commands : d # c => worker'[d] = worker[d] BY <1>4, CommandsAreNoPages
<1>6. /\ \A d \in Commands : (Sending(d)' <=> Sending(d)) /\ (Sending(d) => worker'[d] = worker[d])
      /\ \A d \in Commands : InRuntime(d)' <=> InRuntime(d) \/ d = c
  BY <1>1, <1>2, <1>4, <1>5 DEF Sending, InRuntime
<1>7. BroadcasterFree' <=> BroadcasterFree BY <1>6 DEF BroadcasterFree
<1>8. OneAtATime' BY <1>6 DEF Inv, OneAtATime, Submit, RuntimeFree
<1>9. Stages' BY <1>4 DEF Inv, Stages, Gone, Submit
<1>10. ListsAreSets' BY <1>6 DEF Inv, ListsAreSets, Submit, Subscribed
<1>11. UpToDate' BY <1>6, <1>7 DEF Inv, UpToDate, Submit
<1>12. \A d \in Commands : \A n : TakenUp(d, n)' <=> TakenUp(d, n)
  BY DEF TakenUp, InFeed, Submit
<1>13. TakenUp(c, 0) /\ c \notin answered BY <1>2 DEF Inv, FeedHolds
<1>14. FeedHolds' BY <1>1, <1>4, <1>5, <1>12, <1>13 DEF Inv, FeedHolds, Submit
<1>15. UpdatesComeWhole' BY DEF Inv, UpdatesComeWhole, Submit
<1>16. \A i \in DOMAIN feed : feed[i][1] # c
  <2> SUFFICES ASSUME NEW i \in DOMAIN feed, feed[i][1] = c PROVE FALSE OBVIOUS
  <2>1. PICK d \in Commands :
          \E k \in 1..MessagesOf[d] : feed[i] = Message(d, k) /\ feed[i][1] = d
    BY FeedEntries
  <2>2. PICK k \in 1..MessagesOf[c] : feed[i] = Message(c, k) BY <2>1
  <2>3. InFeed(c, k) BY <2>2 DEF InFeed
  <2> QED BY <1>13, <2>3, MessageCounts DEF TakenUp
<1>17. WholeSoFar' BY <1>4, <1>5, <1>6, <1>16 DEF Inv, WholeSoFar, Submit
<1>18. Reached'
  <2>1. \A p \in Pages : (Listed(p)' <=> Listed(p)) /\ (Subscribed(p)' <=> Subscribed(p))
    BY <1>6, <1>7 DEF Listed, Subscribed, Submit
  <2>2. \A p \in Pages : (p \in dropped' <=> p \in dropped) /\ (Gone(p)' <=> Gone(p))
    BY DEF Gone, Submit
  <2> QED BY <2>1, <2>2 DEF Inv, Reached, Submit
<1> QED
  BY <1>4, <1>8, <1>9, <1>10, <1>11, <1>14, <1>15, <1>17, <1>18 DEF Inv

LEMMA TakeUpStep ==
    ASSUME Inv, NEW c \in Commands, TakeUp(c)
    PROVE  Inv'
<1> DEFINE part == worker[c].part
           m == Message(c, part)
           w == [at |-> "sending", part |-> part, todo |-> sessions, live |-> <<>>]
<1> USE DEF ioVars, clientVars
<1>1. part \in 1..MessagesOf[c] /\ part \in Nat /\ m \in Messages
  <2>1. part \in 1..MessagesOf[c] BY DEF TakeUp, Inv, Shape, InRuntime
  <2> QED BY <2>1, MessagesAre, MessageCounts
<1>2. sessions \in Seq(Pages) /\ <<>> \in Seq(Pages) BY EmptySeq DEF Inv, Shape
<1>3. /\ w \in WorkerStates /\ w.at = "sending" /\ w.part = part
      /\ w.todo = sessions /\ w.live = <<>>
  BY <1>1, <1>2, WorkerRecords
<1>4. /\ worker' = [worker EXCEPT ![c] = w] /\ worker[c].at = "publishing"
      /\ BroadcasterFree /\ feed' = Append(feed, m)
      /\ UNCHANGED <<ioVars, sessions, session, clientVars, since, sent, dropped, late, answered>>
  BY DEF TakeUp
<1> HIDE DEF w, m, part
<1>5. /\ feed \in Seq(Messages) /\ feed' \in Seq(Messages) /\ feed' # <<>>
      /\ Len(feed) \in Nat /\ Len(feed') = Len(feed) + 1
      /\ DOMAIN feed = 1..Len(feed) /\ DOMAIN feed' = 1..Len(feed')
      /\ \A i \in 1..Len(feed) : feed'[i] = feed[i]
      /\ feed'[Len(feed) + 1] = m
  <2>1. feed \in Seq(Messages) BY DEF Inv, Shape, TypeOK
  <2>2. /\ feed' \in Seq(Messages) /\ feed' # <<>> /\ Len(feed') = Len(feed) + 1
        /\ \A i \in 1..Len(feed) : feed'[i] = feed[i]
        /\ feed'[Len(feed) + 1] = m
    BY <1>1, <1>4, <2>1, AppendProperties
  <2> QED BY <2>1, <2>2, LenProperties
<1>6. /\ Shape' /\ worker'[c] = w /\ \A d \in Connections : d # c => worker'[d] = worker[d]
      /\ \A p \in Pages : worker'[p] = worker[p]
  <2>1. /\ sessions' \in Seq(Pages) /\ sent' \in [Pages -> Seq(Messages)]
        /\ unread' \in [Pages -> 0..BufferSize]
        /\ UNCHANGED <<ioVars, session, clientVars, since, dropped, late, answered>>
    BY DEF TakeUp, Inv, Shape, TypeOK
  <2>2. w.at \notin {"adding", "starting"} /\ w.part \in 1..MessagesOf[c] BY <1>1, <1>3
  <2> HIDE DEF ioVars, clientVars
  <2> QED BY <1>3, <1>4, <1>5, <2>1, <2>2, CommandGoes
<1>7. \A d \in Commands : d # c => worker'[d] = worker[d] BY <1>6, CommandsAreNoPages
<1>8. \A d \in Commands : ~Sending(d) BY <1>4, NobodySends
<1>9. \A d \in Commands : (Sending(d)' <=> d = c) /\ (InRuntime(d)' <=> InRuntime(d))
  BY <1>3, <1>4, <1>6, <1>7, <1>8 DEF Sending, InRuntime
<1>10. ~BroadcasterFree' BY <1>9 DEF BroadcasterFree
<1>11. OneAtATime' BY <1>9 DEF Inv, OneAtATime
<1>12. Stages' BY <1>4, <1>6 DEF Inv, Stages, Gone
<1>13. ListsAreSets' BY <1>3, <1>4, <1>6, <1>9, EmptyList DEF Inv, ListsAreSets, Subscribed
<1>14. UpToDate'
  <2>1. Last(feed') = m BY <1>5 DEF Last
  <2>2. \A p \in Range(sessions) : since[p] + Len(sent[p]) = Len(feed) BY <1>4 DEF Inv, UpToDate
  <2>3. \A p \in Range(sessions) : since'[p] + Len(sent'[p]) + 1 = Len(feed')
    BY <1>4, <1>5, <2>2
  <2> QED BY <1>3, <1>5, <1>6, <1>9, <1>10, <2>1, <2>3, EmptyList DEF UpToDate, m
<1>15. FeedHolds'
  <2>1. ASSUME NEW d \in Commands, NEW k \in 1..MessagesOf[d]
        PROVE  InFeed(d, k)' <=> InFeed(d, k) \/ (d = c /\ k = part)
    <3>1. InFeed(d, k)' <=> \E i \in DOMAIN feed' : feed'[i] = Message(d, k) BY DEF InFeed
    <3>2. (\E i \in DOMAIN feed' : feed'[i] = Message(d, k))
              <=> InFeed(d, k) \/ m = Message(d, k)
      BY <1>5 DEF InFeed
    <3>3. m = Message(d, k) <=> d = c /\ k = part BY DEF m, Message
    <3> QED BY <3>1, <3>2, <3>3
  <2>2. ASSUME NEW d \in Commands, NEW n, d # c PROVE TakenUp(d, n)' <=> TakenUp(d, n)
    BY <2>1, <2>2 DEF TakenUp
  <2>3. ASSUME NEW n, n = part PROVE TakenUp(c, n)'
    <3>1. TakenUp(c, n - 1) BY <1>4, <2>3 DEF Inv, FeedHolds, part
    <3>2. n \in Nat /\ \A k \in 1..MessagesOf[c] : k <= n <=> k <= n - 1 \/ k = n
      BY <1>1, <2>3
    <3>3. \A k \in 1..MessagesOf[c] : InFeed(c, k)' <=> InFeed(c, k) \/ k = n
      BY <2>1, <2>3
    <3> QED BY <3>1, <3>2, <3>3 DEF TakenUp
  <2>4. c \notin answered BY <1>4 DEF Inv, FeedHolds
  <2> QED BY <1>3, <1>4, <1>6, <1>7, <2>2, <2>3, <2>4 DEF Inv, FeedHolds
<1>16. m[1] = c /\ RuntimeOf[m[1]] = RuntimeOf[c] BY DEF m, Message
<1>17. InRuntime(c) BY <1>4 DEF InRuntime
<1>18. UpdatesComeWhole'
  <2> SUFFICES ASSUME NEW i \in DOMAIN feed', NEW j \in DOMAIN feed', NEW k \in DOMAIN feed',
                      i < j, j < k, feed'[i][1] = feed'[k][1],
                      RuntimeOf[feed'[j][1]] = RuntimeOf[feed'[i][1]]
               PROVE  feed'[j][1] = feed'[i][1]
    BY DEF UpdatesComeWhole
  <2>1. i \in DOMAIN feed /\ j \in DOMAIN feed /\ feed'[i] = feed[i] /\ feed'[j] = feed[j]
    BY <1>5
  <2>2. CASE k \in DOMAIN feed
    BY <1>5, <2>1, <2>2 DEF Inv, UpdatesComeWhole
  <2>3. CASE k = Len(feed) + 1
    <3>1. feed[i][1] = c BY <1>5, <1>16, <2>1, <2>3
    <3> QED BY <1>17, <2>1, <3>1 DEF Inv, WholeSoFar
  <2> QED BY <1>5, <2>2, <2>3
<1>19. WholeSoFar'
  <2> SUFFICES ASSUME NEW d \in Commands, InRuntime(d),
                      NEW i \in DOMAIN feed', NEW j \in DOMAIN feed',
                      i < j, feed'[i][1] = d, RuntimeOf[feed'[j][1]] = RuntimeOf[d]
               PROVE  feed'[j][1] = d
    BY <1>9 DEF WholeSoFar
  <2>1. i \in DOMAIN feed /\ feed'[i] = feed[i] BY <1>5
  <2>2. CASE j \in DOMAIN feed BY <1>5, <2>1, <2>2 DEF Inv, WholeSoFar
  <2>3. CASE j = Len(feed) + 1
    <3>1. RuntimeOf[c] = RuntimeOf[d] BY <1>5, <1>16, <2>3
    <3> QED BY <1>5, <1>16, <1>17, <2>3, <3>1 DEF Inv, OneAtATime
  <2> QED BY <1>5, <2>2, <2>3
<1>20. Reached'
  <2>1. \A p \in Pages : Listed(p)' <=> Listed(p)
    <3>1. \A p \in Pages : Listed(p) <=> p \in Range(sessions) BY <1>4 DEF Listed
    <3>2. \A p \in Pages : Listed(p)' <=> p \in Range(sessions)
      BY <1>3, <1>6, <1>9, <1>10, EmptyList DEF Listed
    <3> QED BY <3>1, <3>2
  <2>2. dropped' = dropped BY <1>4
  <2>3. \A p \in Pages : (Subscribed(p)' <=> Subscribed(p)) /\ (Gone(p)' <=> Gone(p))
    BY <1>4 DEF Subscribed, Gone
  <2> QED BY <1>4, <2>1, <2>2, <2>3 DEF Inv, Reached
<1> QED
  BY <1>6, <1>11, <1>12, <1>13, <1>14, <1>15, <1>18, <1>19, <1>20 DEF Inv

LEMMA UpdatesKept == UpdatesComeWhole /\ feed' = feed => UpdatesComeWhole'
BY DEF UpdatesComeWhole

LEMMA TheSender ==
    ASSUME Inv, NEW c \in Commands, Sending(c)
    PROVE  /\ worker[c] = [at |-> "sending", part |-> worker[c].part,
                           todo |-> worker[c].todo, live |-> worker[c].live]
           /\ worker[c].part \in Nat /\ worker[c].part \in 1..MessagesOf[c]
           /\ worker[c].todo \in Seq(Pages) /\ worker[c].live \in Seq(Pages)
           /\ IsInjective(worker[c].todo) /\ IsInjective(worker[c].live)
           /\ Range(worker[c].todo) \cap Range(worker[c].live) = {}
           /\ Range(worker[c].todo) \cup Range(worker[c].live) \subseteq Range(sessions)
           /\ \A d \in Commands : Sending(d) <=> d = c
           /\ ~BroadcasterFree
           /\ \A p \in Pages : Listed(p) <=> p \in Range(worker[c].todo) \cup Range(worker[c].live)
<1>1. worker[c] \in WorkerStates /\ worker[c].at = "sending"
  BY CommandsAreNoPages DEF Inv, Shape, Sending
<1>2. worker[c].part \in 1..MessagesOf[c] BY <1>1 DEF Inv, Shape, InRuntime
<1>3. \A d \in Commands : Sending(d) <=> d = c BY DEF Inv, OneAtATime
<1>4. ~BroadcasterFree BY DEF BroadcasterFree
<1>5. \A p \in Pages : Listed(p) <=> p \in Range(worker[c].todo) \cup Range(worker[c].live)
  BY <1>3, <1>4 DEF Listed
<1>6. /\ IsInjective(worker[c].todo) /\ IsInjective(worker[c].live)
      /\ Range(worker[c].todo) \cap Range(worker[c].live) = {}
      /\ Range(worker[c].todo) \cup Range(worker[c].live) \subseteq Range(sessions)
  BY DEF Inv, ListsAreSets
<1>7. /\ worker[c] = [at |-> "sending", part |-> worker[c].part,
                      todo |-> worker[c].todo, live |-> worker[c].live]
      /\ worker[c].part \in Nat
      /\ worker[c].todo \in Seq(Pages) /\ worker[c].live \in Seq(Pages)
  BY <1>1, WorkerFields
<1> QED BY <1>2, <1>3, <1>4, <1>5, <1>6, <1>7

\* A sender that goes on sending, with todo still before it and live behind.
LEMMA SenderGoesOn ==
    ASSUME Inv, NEW c \in Commands, Sending(c),
           NEW todo \in Seq(Pages), NEW live \in Seq(Pages), NEW part, part = worker[c].part,
           worker' = [worker EXCEPT ![c] =
                          [at |-> "sending", part |-> part, todo |-> todo, live |-> live]],
           IsInjective(todo), IsInjective(live), Range(todo) \cap Range(live) = {},
           Range(todo) \cup Range(live) \subseteq Range(sessions),
           UNCHANGED <<ioVars, sessions, session, cast, client, stalled, feed, since, late,
                       answered>>,
           dropped \subseteq dropped', dropped' \subseteq Pages,
           unread' \in [Pages -> 0..BufferSize], sent' \in [Pages -> Seq(Messages)],
           \A p \in Pages : (sent'[p] = sent[p]) \/ session[p] = "reading",
           \A p \in Range(live) : since[p] + Len(sent'[p]) = Len(feed),
           \A p \in Range(todo) : since[p] + Len(sent'[p]) + 1 = Len(feed),
           \A p \in Pages : /\ Listed(p)
                            /\ p \notin Range(todo) \cup Range(live)
                            => Gone(p) \/ p \in dropped' \/ io.at # "serving"
    PROVE  /\ Inv' /\ Sending(c)' /\ ~BroadcasterFree'
           /\ \A p \in Pages : Listed(p)' <=> p \in Range(todo) \cup Range(live)
<1> DEFINE w == [at |-> "sending", part |-> part, todo |-> todo, live |-> live]
<1> USE DEF ioVars
<1>1. /\ part \in Nat /\ part \in 1..MessagesOf[c] /\ ~BroadcasterFree
      /\ \A d \in Commands : Sending(d) <=> d = c
  BY TheSender
<1>2. /\ w \in WorkerStates /\ w.at = "sending" /\ w.part = part
      /\ w.todo = todo /\ w.live = live
  BY <1>1, WorkerRecords
<1>3. worker' = [worker EXCEPT ![c] = w] /\ worker[c].at = "sending" BY DEF Sending
<1> HIDE DEF w
<1>4. /\ worker' \in [Connections -> WorkerStates] /\ worker'[c] = w
      /\ \A d \in Connections : d # c => worker'[d] = worker[d]
  BY <1>2, <1>3, WorkerMoves, CommandsAreNoPages DEF Inv, Shape
<1>5. /\ \A d \in Commands : d # c => worker'[d] = worker[d]
      /\ \A p \in Pages : worker'[p] = worker[p]
  BY <1>4, CommandsAreNoPages
<1>6. Shape'
  <2>1. TypeOK'
    <3>1. \A d \in Connections :
              worker'[d].at \in {"none", "adding", "starting", "done"} \cup WithSocket
      BY <1>4, PlacesOfWorkers
    <3> QED BY <3>1 DEF Inv, Shape, TypeOK
  <2>2. \A d \in Commands : /\ worker'[d].at \notin {"adding", "starting"}
                            /\ InRuntime(d)' => worker'[d].part \in 1..MessagesOf[d]
    <3> SUFFICES ASSUME NEW d \in Commands
        PROVE  /\ worker'[d].at \notin {"adding", "starting"}
               /\ InRuntime(d)' => worker'[d].part \in 1..MessagesOf[d]
      OBVIOUS
    <3>1. CASE d = c BY <1>1, <1>2, <1>4, <3>1
    <3>2. CASE d # c
      <4>1. worker'[d] = worker[d] BY <1>5, <3>2
      <4> QED BY <4>1 DEF Inv, Shape, InRuntime
    <3> QED BY <3>1, <3>2
  <2> QED BY <1>4, <1>5, <2>1, <2>2 DEF Inv, Shape
<1>7. \A d \in Commands : (Sending(d)' <=> d = c) /\ (InRuntime(d)' <=> InRuntime(d))
  BY <1>1, <1>2, <1>3, <1>4, <1>5 DEF Sending, InRuntime
<1>8. ~BroadcasterFree' BY <1>7 DEF BroadcasterFree
<1>9. \A p \in Pages : Listed(p)' <=> p \in Range(todo) \cup Range(live)
  BY <1>2, <1>4, <1>7, <1>8 DEF Listed
<1>10. OneAtATime' BY <1>7 DEF Inv, OneAtATime
<1>11. Stages' BY <1>5 DEF Inv, Stages, Gone
<1>12. ListsAreSets' BY <1>2, <1>4, <1>7 DEF Inv, ListsAreSets, Subscribed
<1>13. UpToDate'
  <2>1. feed # <<>> /\ Last(feed) = Message(c, part) BY DEF Inv, UpToDate
  <2> QED BY <1>2, <1>4, <1>7, <1>8, <2>1 DEF UpToDate
<1>14. FeedHolds'
  <2>1. \A d \in Commands : \A n : TakenUp(d, n)' <=> TakenUp(d, n) BY DEF TakenUp, InFeed
  <2>2. TakenUp(c, worker[c].part) /\ c \notin answered BY <1>3 DEF Inv, FeedHolds
  <2>3. TakenUp(c, part) BY <2>2 DEF TakenUp
  <2> QED BY <1>2, <1>4, <1>5, <2>1, <2>2, <2>3 DEF Inv, FeedHolds
<1>15. UpdatesComeWhole' BY UpdatesKept DEF Inv
<1>16. WholeSoFar' BY <1>7 DEF Inv, WholeSoFar
<1>17. Reached'
  <2>1. \A p \in Pages : (Subscribed(p)' <=> Subscribed(p)) /\ (Gone(p)' <=> Gone(p))
    BY DEF Subscribed, Gone
  <2>2. io.at = "serving" =>
          \A p \in Pages : Subscribed(p)' /\ ~Gone(p)' => Listed(p)' \/ p \in dropped'
    BY <1>9, <2>1 DEF Inv, Reached
  <2> QED BY <2>1, <2>2 DEF Inv, Reached
<1> QED
  BY <1>6, <1>7, <1>8, <1>9, <1>10, <1>11, <1>12, <1>13, <1>14, <1>15, <1>16, <1>17 DEF Inv

\* What Send does, field by field.
LEMMA SendShape ==
    ASSUME Inv, NEW c \in Commands, Send(c)
    PROVE  \E p, part, todo, live :
           /\ p = Head(worker[c].todo) /\ part = worker[c].part
           /\ p \in Pages /\ p \in Range(worker[c].todo) /\ p \in Range(sessions)
           /\ session[p] = "reading"
           /\ todo \in Seq(Pages) /\ live \in Seq(Pages)
           /\ IsInjective(todo) /\ IsInjective(live)
           /\ Range(worker[c].todo) = Range(todo) \cup {p} /\ p \notin Range(todo)
           /\ Range(live) = Range(worker[c].live) \cup {p}
           /\ Range(todo) \cap Range(live) = {}
           /\ worker' = [worker EXCEPT ![c] =
                             [at |-> "sending", part |-> part, todo |-> todo, live |-> live]]
           /\ sent' \in [Pages -> Seq(Messages)]
           /\ Len(sent'[p]) = Len(sent[p]) + 1
           /\ \A q \in Pages : q # p => sent'[q] = sent[q]
           /\ unread' \in [Pages -> 0..BufferSize]
<1> PICK p, part, todo, live :
        /\ p = Head(worker[c].todo) /\ part = worker[c].part
        /\ todo = Tail(worker[c].todo) /\ live = Append(worker[c].live, p)
  OBVIOUS
<1>1. /\ Sending(c) /\ worker[c].todo # <<>>
      /\ worker[c] = [at |-> "sending", part |-> part,
                      todo |-> worker[c].todo, live |-> worker[c].live]
      /\ worker[c].todo \in Seq(Pages) /\ worker[c].live \in Seq(Pages)
      /\ IsInjective(worker[c].todo) /\ IsInjective(worker[c].live)
      /\ Range(worker[c].todo) \cap Range(worker[c].live) = {}
      /\ Range(worker[c].todo) \cup Range(worker[c].live) \subseteq Range(sessions)
  <2>1. Sending(c) /\ worker[c].todo # <<>> BY DEF Send
  <2> QED BY <2>1, TheSender
<1>2. /\ p \in Pages /\ todo \in Seq(Pages) /\ IsInjective(todo)
      /\ Range(worker[c].todo) = Range(todo) \cup {p} /\ p \notin Range(todo)
  <2> DEFINE old == worker[c].todo
             h == Head(old)
             t == Tail(old)
  <2>1. old \in Seq(Pages) /\ old # <<>> /\ IsInjective(old) /\ p = h /\ todo = t
    BY <1>1
  <2> HIDE DEF old
  <2>2. /\ h \in Pages /\ t \in Seq(Pages) /\ Range(old) = Range(t) \cup {h}
        /\ IsInjective(old) => IsInjective(t) /\ h \notin Range(t)
    BY <2>1, TailOfList
  <2> HIDE DEF h, t
  <2> QED BY <2>1, <2>2 DEF old
<1>3. live \in Seq(Pages) /\ IsInjective(live) /\ Range(live) = Range(worker[c].live) \cup {p}
  BY <1>1, <1>2, AppendToList, AppendProperties
<1>4. Range(todo) \cap Range(live) = {} BY <1>1, <1>2, <1>3
<1>5. worker' = [worker EXCEPT ![c] =
                     [at |-> "sending", part |-> part, todo |-> todo, live |-> live]]
  <2> DEFINE w == worker[c]
             t == worker[c].todo
             l == worker[c].live
  <2>1. w = [at |-> "sending", part |-> part, todo |-> t, live |-> l] BY <1>1
  <2>2. worker' = [worker EXCEPT ![c] = [[w EXCEPT !.todo = todo] EXCEPT !.live = live]]
    <3>1. worker' = [worker EXCEPT ![c].todo = Tail(@), ![c].live = Append(@, p)] BY DEF Send
    <3>2. worker \in [Connections -> WorkerStates] /\ c \in Connections
      BY CommandsAreNoPages DEF Inv, Shape
    <3> QED BY <1>1, <3>1, <3>2
  <2> HIDE DEF w, t, l
  <2>3. [[w EXCEPT !.todo = todo] EXCEPT !.live = live]
            = [at |-> "sending", part |-> part, todo |-> todo, live |-> live]
    <3> DEFINE v == [w EXCEPT !.todo = todo]
    <3>1. v = [at |-> "sending", part |-> part, todo |-> todo, live |-> l] BY ONLY <2>1
    <3> HIDE DEF v
    <3>2. [v EXCEPT !.live = live]
              = [at |-> "sending", part |-> part, todo |-> todo, live |-> live]
      BY ONLY <3>1
    <3> QED BY ONLY <3>2 DEF v
  <2> QED BY <2>2, <2>3
<1>6. Last(feed) \in Messages
  <2>1. feed # <<>> /\ feed \in Seq(Messages) BY <1>1 DEF Inv, UpToDate, Shape, TypeOK
  <2>2. Len(feed) \in 1..Len(feed) BY <2>1, EmptySeq, LenProperties
  <2> QED BY <2>1, <2>2, ElementOfSeq DEF Last
<1>7. sent \in [Pages -> Seq(Messages)] /\ sent' = [sent EXCEPT ![p] = Append(@, Last(feed))]
  BY DEF Send, Inv, Shape
<1>8. /\ Append(sent[p], Last(feed)) \in Seq(Messages)
      /\ Len(Append(sent[p], Last(feed))) = Len(sent[p]) + 1
  BY <1>2, <1>6, <1>7, AppendProperties
<1>9. /\ sent' \in [Pages -> Seq(Messages)] /\ sent'[p] = Append(sent[p], Last(feed))
      /\ \A q \in Pages : q # p => sent'[q] = sent[q]
  BY <1>2, <1>7, <1>8
<1>10. unread' \in [Pages -> 0..BufferSize]
  <2>1. BufferSize \in Nat BY ConnectionsAssumption DEF ConnectionsAssumption
  <2>2. unread \in [Pages -> 0..BufferSize] /\ unread[p] < BufferSize
    BY DEF Send, Inv, Shape, TypeOK
  <2>3. unread[p] + 1 \in 0..BufferSize BY <1>2, <2>1, <2>2
  <2>4. unread' = IF client[p] = "open" THEN [unread EXCEPT ![p] = @ + 1] ELSE unread
    BY DEF Send
  <2> QED BY <2>2, <2>3, <2>4
<1>11. p \in Range(sessions) /\ session[p] = "reading" BY <1>1, <1>2 DEF Send
<1> WITNESS p, part, todo, live
<1> QED BY <1>1, <1>2, <1>3, <1>4, <1>5, <1>8, <1>9, <1>10, <1>11

LEMMA SendStep ==
    ASSUME Inv, NEW c \in Commands, Send(c)
    PROVE  /\ Inv'
           /\ \A q \in Pages : Listed(q)' <=> Listed(q)
           /\ \E p \in Pages :
                /\ Listed(p) /\ Subscribed(p) /\ since[p] + Len(sent[p]) + 1 = Len(feed)
                /\ sent' = [sent EXCEPT ![p] = Append(@, Last(feed))]
<1>2. PICK p, part, todo, live :
      /\ p = Head(worker[c].todo) /\ part = worker[c].part
      /\ p \in Pages /\ p \in Range(worker[c].todo) /\ p \in Range(sessions)
      /\ session[p] = "reading"
      /\ todo \in Seq(Pages) /\ live \in Seq(Pages)
      /\ IsInjective(todo) /\ IsInjective(live)
      /\ Range(worker[c].todo) = Range(todo) \cup {p} /\ p \notin Range(todo)
      /\ Range(live) = Range(worker[c].live) \cup {p}
      /\ Range(todo) \cap Range(live) = {}
      /\ worker' = [worker EXCEPT ![c] =
                        [at |-> "sending", part |-> part, todo |-> todo, live |-> live]]
      /\ sent' \in [Pages -> Seq(Messages)]
      /\ Len(sent'[p]) = Len(sent[p]) + 1
      /\ \A q \in Pages : q # p => sent'[q] = sent[q]
      /\ unread' \in [Pages -> 0..BufferSize]
  BY SendShape
<1>3. /\ Sending(c)
      /\ UNCHANGED <<ioVars, sessions, session, cast, client, stalled, feed, since, dropped,
                     late, answered>>
  BY DEF Send
<1>4. /\ Range(worker[c].todo) \cup Range(worker[c].live) \subseteq Range(sessions)
      /\ Range(worker[c].todo) \cap Range(worker[c].live) = {}
      /\ \A q \in Pages : Listed(q) <=> q \in Range(worker[c].todo) \cup Range(worker[c].live)
  BY <1>3, TheSender
<1>5. Range(todo) \cup Range(live) \subseteq Range(sessions) BY <1>2, <1>4
<1>6. /\ \A q \in Range(worker[c].live) : since[q] + Len(sent[q]) = Len(feed)
      /\ \A q \in Range(worker[c].todo) : since[q] + Len(sent[q]) + 1 = Len(feed)
  BY <1>3 DEF Inv, UpToDate
<1>7. Range(sessions) \subseteq Pages BY DEF Inv, Shape, TypeOK
<1>8. \A q \in Range(live) : since[q] + Len(sent'[q]) = Len(feed)
  <2>1. since[p] + Len(sent'[p]) = Len(feed)
    <3>1. since[p] \in Nat /\ Len(sent[p]) \in Nat BY <1>2, SentLengths
    <3>2. since[p] + Len(sent[p]) + 1 = Len(feed) BY <1>2, <1>6
    <3>3. Len(sent'[p]) = Len(sent[p]) + 1 BY <1>2
    <3> QED BY <3>1, <3>2, <3>3
  <2>2. \A q \in Range(worker[c].live) : q # p /\ q \in Pages BY <1>2, <1>4, <1>7
  <2> QED BY <1>2, <1>6, <2>1, <2>2
<1>9. \A q \in Range(todo) : since[q] + Len(sent'[q]) + 1 = Len(feed)
  <2>1. \A q \in Range(todo) : q # p /\ q \in Pages BY <1>2, <1>5, <1>7
  <2> QED BY <1>2, <1>6, <2>1
<1>10. /\ \A q \in Pages : sent'[q] = sent[q] \/ session[q] = "reading"
       /\ dropped' = dropped /\ dropped' \subseteq Pages
  BY <1>2, <1>3 DEF Inv, Shape, TypeOK
<1>11. \A q \in Pages : Listed(q) <=> q \in Range(todo) \cup Range(live) BY <1>2, <1>4
<1>12. Inv' /\ \A q \in Pages : Listed(q)' <=> q \in Range(todo) \cup Range(live)
  <2>1. \A q \in Pages : Listed(q) /\ q \notin Range(todo) \cup Range(live) =>
            Gone(q) \/ q \in dropped' \/ io.at # "serving"
    BY <1>11
  <2> QED BY <1>2, <1>3, <1>5, <1>8, <1>9, <1>10, <2>1, SenderGoesOn
<1>13. sent' = [sent EXCEPT ![p] = Append(@, Last(feed))] BY <1>2 DEF Send
<1>14. Subscribed(p) BY <1>2 DEF Subscribed
<1> QED BY <1>2, <1>4, <1>6, <1>11, <1>12, <1>13, <1>14

LEMMA SendFailsStep ==
    ASSUME Inv, NEW c \in Commands, SendFails(c)
    PROVE  /\ Inv'
           /\ \E p \in Pages :
                /\ Listed(p) /\ Subscribed(p) /\ ~Listed(p)'
                /\ \A q \in Pages : q # p => (Listed(q)' <=> Listed(q))
<1>1. PICK p, part, todo, live :
          /\ p = Head(worker[c].todo) /\ part = worker[c].part
          /\ todo = Tail(worker[c].todo) /\ live = worker[c].live
  OBVIOUS
<1> USE DEF clientVars, histories
<1>2. /\ Sending(c) /\ worker[c].todo # <<>>
      /\ UNCHANGED <<ioVars, sessions, session, cast, client, stalled, feed, since, late,
                     answered, unread, sent>>
  BY DEF SendFails
<1>3. /\ worker[c] = [at |-> "sending", part |-> part, todo |-> worker[c].todo, live |-> live]
      /\ worker[c].todo \in Seq(Pages) /\ live \in Seq(Pages)
      /\ IsInjective(worker[c].todo) /\ IsInjective(live)
      /\ Range(worker[c].todo) \cap Range(live) = {}
      /\ Range(worker[c].todo) \cup Range(live) \subseteq Range(sessions)
      /\ \A q \in Pages : Listed(q) <=> q \in Range(worker[c].todo) \cup Range(live)
  BY <1>1, <1>2, TheSender
<1>4. /\ p \in Pages /\ todo \in Seq(Pages) /\ IsInjective(todo)
      /\ Range(worker[c].todo) = Range(todo) \cup {p} /\ p \notin Range(todo)
  <2> DEFINE old == worker[c].todo
             h == Head(old)
             t == Tail(old)
  <2>1. old \in Seq(Pages) /\ old # <<>> /\ IsInjective(old) /\ p = h /\ todo = t
    BY <1>1, <1>2, <1>3
  <2> HIDE DEF old
  <2>2. /\ h \in Pages /\ t \in Seq(Pages) /\ Range(old) = Range(t) \cup {h}
        /\ IsInjective(old) => IsInjective(t) /\ h \notin Range(t)
    BY <2>1, TailOfList
  <2> HIDE DEF h, t
  <2> QED BY <2>1, <2>2 DEF old
<1>5. worker' = [worker EXCEPT ![c] =
                     [at |-> "sending", part |-> part, todo |-> todo, live |-> live]]
  <2> DEFINE w == worker[c]
             t == worker[c].todo
  <2>1. w = [at |-> "sending", part |-> part, todo |-> t, live |-> live] BY <1>3
  <2>2. worker' = [worker EXCEPT ![c] = [w EXCEPT !.todo = todo]]
    <3>1. worker' = [worker EXCEPT ![c].todo = Tail(@)] BY DEF SendFails
    <3>2. worker \in [Connections -> WorkerStates] /\ c \in Connections
      BY CommandsAreNoPages DEF Inv, Shape
    <3> QED BY <1>1, <3>1, <3>2
  <2> HIDE DEF w, t
  <2>3. [w EXCEPT !.todo = todo]
            = [at |-> "sending", part |-> part, todo |-> todo, live |-> live]
    BY ONLY <2>1
  <2> QED BY <2>2, <2>3
<1>6. /\ \A q \in Range(live) : since[q] + Len(sent[q]) = Len(feed)
      /\ \A q \in Range(todo) : since[q] + Len(sent[q]) + 1 = Len(feed)
      /\ since[p] + Len(sent[p]) + 1 = Len(feed)
  BY <1>1, <1>2, <1>4 DEF Inv, UpToDate
<1>7. /\ dropped \subseteq dropped' /\ dropped' \subseteq Pages
      /\ session[p] \in {"unstarted", "accepting"} => p \in dropped'
  BY <1>1, <1>4 DEF SendFails, Inv, Shape, TypeOK
<1>8. ASSUME NEW q \in Pages, Listed(q), q \notin Range(todo) \cup Range(live)
      PROVE  Gone(q) \/ q \in dropped' \/ io.at # "serving"
  <2>1. q = p BY <1>3, <1>4, <1>8
  <2>2. CASE session[p] \in {"unstarted", "accepting"} BY <1>7, <2>1, <2>2
  <2>3. CASE session[p] = "done"
    BY <1>4, <2>1, <2>3 DEF Inv, Stages, Reached
  <2>4. CASE session[p] = "reading" BY <1>1, <2>1, <2>4 DEF SendFails
  <2>5. session[p] # "none" BY <1>3, <1>4 DEF Inv, ListsAreSets, Subscribed
  <2> QED BY <1>4, <2>2, <2>3, <2>4, <2>5 DEF Inv, Shape, TypeOK
<1>9. Inv' /\ \A q \in Pages : Listed(q)' <=> q \in Range(todo) \cup Range(live)
  <2>1. /\ unread' \in [Pages -> 0..BufferSize] /\ sent' \in [Pages -> Seq(Messages)]
        /\ sent' = sent
    BY <1>2 DEF Inv, Shape, TypeOK
  <2>2. IsInjective(live) /\ Range(todo) \cap Range(live) = {}
        /\ Range(todo) \cup Range(live) \subseteq Range(sessions)
    BY <1>3, <1>4
  <2>3. UNCHANGED <<ioVars, sessions, session, cast, client, stalled, feed, since, late,
                    answered>>
    BY <1>2
  <2>4. Sending(c) /\ todo \in Seq(Pages) /\ live \in Seq(Pages) /\ IsInjective(todo)
    BY <1>2, <1>3, <1>4
  <2>5. /\ \A q \in Range(live) : since[q] + Len(sent'[q]) = Len(feed)
        /\ \A q \in Range(todo) : since[q] + Len(sent'[q]) + 1 = Len(feed)
    BY <1>6, <2>1
  <2> QED BY <1>1, <1>5, <1>7, <1>8, <2>1, <2>2, <2>3, <2>4, <2>5, SenderGoesOn
<1>10. Subscribed(p) BY <1>3, <1>4 DEF Inv, ListsAreSets
<1> QED BY <1>3, <1>4, <1>9, <1>10

\* Where a command goes when its message n is out.
LEMMA AfterRecords ==
    ASSUME NEW c \in Commands, NEW n \in 1..MessagesOf[c]
    PROVE  /\ After(c, n) \in WorkerStates
           /\ \/ /\ After(c, n).at = "publishing" /\ After(c, n).part = n + 1
                 /\ After(c, n).part \in 1..MessagesOf[c]
              \/ After(c, n).at = "answering" /\ n = MessagesOf[c]
<1>1. MessagesOf[c] \in Nat /\ n \in Nat BY MessageCounts
<1>2. CASE n < MessagesOf[c]
  <2>1. n + 1 \in Nat /\ n + 1 \in 1..MessagesOf[c] BY <1>1, <1>2
  <2>2. After(c, n) = [at |-> "publishing", part |-> n + 1] BY <1>2 DEF After
  <2> QED BY <2>1, <2>2, WorkerRecords
<1>3. CASE ~(n < MessagesOf[c])
  <2>1. After(c, n) = At("answering") /\ n = MessagesOf[c] BY <1>1, <1>3 DEF After
  <2> QED BY <2>1, WorkerRecords DEF Places
<1> QED BY <1>2, <1>3

\* A command whose message is out holds on to what it has taken up.
LEMMA HoldsOn ==
    ASSUME Inv, NEW c \in Commands, NEW n \in 1..MessagesOf[c], NEW w \in WorkerStates,
           TakenUp(c, n), c \notin answered, feed' = feed, answered' = answered,
           worker'[c] = w, \A d \in Commands : d # c => worker'[d] = worker[d],
           \/ w.at = "publishing" /\ w.part = n + 1
           \/ w.at = "answering" /\ n = MessagesOf[c]
           \/ w.at = "consulting" /\ w.part = n
    PROVE  FeedHolds'
<1>1. \A d \in Commands : \A k : TakenUp(d, k)' <=> TakenUp(d, k) BY DEF TakenUp, InFeed
<1>2. n + 1 - 1 = n /\ n \in Nat BY MessageCounts
<1>3. ASSUME NEW d \in Commands
      PROVE  /\ worker'[d].at \in {"none", "reading", "submitting"} => TakenUp(d, 0)
             /\ worker'[d].at = "publishing" => TakenUp(d, worker'[d].part - 1)
             /\ worker'[d].at \in {"sending", "consulting"} => TakenUp(d, worker'[d].part)
             /\ worker'[d].at = "answering" \/ d \in answered => TakenUp(d, MessagesOf[d])
             /\ d \in answered => worker'[d].at = "done"
  <2>1. CASE d = c
    <3>1. CASE w.at = "publishing" /\ w.part = n + 1
      <4>1. worker'[d].part - 1 = n BY <1>2, <2>1, <3>1
      <4>2. TakenUp(d, worker'[d].part - 1) BY <2>1, <4>1
      <4> QED BY <2>1, <3>1, <4>2
    <3>2. CASE w.at = "answering" /\ n = MessagesOf[d] BY <2>1, <3>2
    <3>3. CASE w.at = "consulting" /\ w.part = n BY <2>1, <3>3
    <3> QED BY <2>1, <3>1, <3>2, <3>3
  <2>2. CASE d # c
    <3>1. worker'[d] = worker[d] BY <2>2
    <3> QED BY <3>1 DEF Inv, FeedHolds
  <2> QED BY <2>1, <2>2
<1> QED BY <1>1, <1>3 DEF FeedHolds

LEMMA SentToAllStep ==
    ASSUME Inv, NEW c \in Commands, SentToAll(c)
    PROVE  /\ Inv'
           /\ \A p \in Pages : Listed(p)' <=> Listed(p)
<1> DEFINE part == worker[c].part
           live == worker[c].live
           w == IF part \in AsksAfter[c] THEN [at |-> "consulting", part |-> part]
                ELSE After(c, part)
<1> USE DEF ioVars, clientVars, histories
<1>1. /\ Sending(c) /\ worker[c].at = "sending" /\ worker[c].todo = <<>> /\ sessions' = live
      /\ worker' = [worker EXCEPT ![c] = w]
  <2>1. worker \in [Connections -> WorkerStates] /\ c \in Connections
    BY CommandsAreNoPages DEF Inv, Shape
  <2> QED BY <2>1 DEF SentToAll, Sending
<1>2. /\ part \in Nat /\ part \in 1..MessagesOf[c] /\ live \in Seq(Pages) /\ IsInjective(live)
      /\ Range(live) \subseteq Range(sessions)
      /\ \A d \in Commands : Sending(d) <=> d = c
      /\ \A p \in Pages : Listed(p) <=> p \in Range(live)
  BY <1>1, TheSender, EmptyList
<1>4. /\ w \in WorkerStates
      /\ \/ w.at = "publishing" /\ w.part = part + 1 /\ w.part \in 1..MessagesOf[c]
         \/ w.at = "answering" /\ part = MessagesOf[c]
         \/ w.at = "consulting" /\ w.part = part
  <2>1. CASE part \in AsksAfter[c]
    <3>1. w = [at |-> "consulting", part |-> part] BY <2>1
    <3> HIDE DEF part, w
    <3> QED BY <1>2, <3>1, WorkerRecords
  <2>2. CASE part \notin AsksAfter[c]
    <3>1. w = After(c, part) BY <2>2
    <3> HIDE DEF part, w
    <3> QED BY <1>2, <3>1, AfterRecords
  <2> QED BY <2>1, <2>2
<1>5. \A p \in Range(live) : since[p] + Len(sent[p]) = Len(feed) BY <1>1 DEF Inv, UpToDate
<1>6. TakenUp(c, part) /\ c \notin answered BY <1>1 DEF Inv, FeedHolds
<1>7. UNCHANGED <<ioVars, session, clientVars, feed, since, sent, dropped, late, answered>>
  BY DEF SentToAll
<1> HIDE DEF w, part, live
<1>8. /\ Shape' /\ worker'[c] = w /\ \A d \in Connections : d # c => worker'[d] = worker[d]
      /\ \A p \in Pages : worker'[p] = worker[p]
  <2>1. /\ sessions' \in Seq(Pages) /\ feed' \in Seq(Messages)
        /\ sent' \in [Pages -> Seq(Messages)] /\ unread' \in [Pages -> 0..BufferSize]
    BY <1>1, <1>2, <1>7 DEF Inv, Shape, TypeOK
  <2>2. /\ w.at \notin {"adding", "starting"}
        /\ w.at \in {"publishing", "sending", "consulting"} => w.part \in 1..MessagesOf[c]
    BY <1>2, <1>4
  <2> HIDE DEF ioVars, clientVars
  <2> QED BY <1>1, <1>4, <1>7, <2>1, <2>2, CommandGoes
<1>9. \A d \in Commands : d # c => worker'[d] = worker[d] BY <1>8, CommandsAreNoPages
<1>10. /\ \A d \in Commands : ~Sending(d)' /\ (InRuntime(d)' => InRuntime(d))
       /\ InRuntime(c)
  BY <1>1, <1>2, <1>4, <1>8, <1>9 DEF Sending, InRuntime
<1>11. BroadcasterFree' BY <1>10 DEF BroadcasterFree
<1>12. \A p \in Pages : Listed(p)' <=> Listed(p) BY <1>1, <1>2, <1>11 DEF Listed
<1>13. OneAtATime' BY <1>10 DEF Inv, OneAtATime
<1>14. Stages' BY <1>7, <1>8 DEF Inv, Stages, Gone
<1>15. ListsAreSets' BY <1>1, <1>2, <1>7, <1>10 DEF Inv, ListsAreSets, Subscribed
<1>16. UpToDate' BY <1>1, <1>5, <1>7, <1>10 DEF UpToDate
<1>17. FeedHolds' BY <1>2, <1>4, <1>6, <1>7, <1>8, <1>9, HoldsOn
<1>18. UpdatesComeWhole' BY <1>7, UpdatesKept DEF Inv
<1>19. WholeSoFar'
  <2>1. feed' = feed BY <1>7
  <2> QED BY <1>10, <2>1 DEF Inv, WholeSoFar
<1>20. Reached'
  <2>1. \A p \in Pages : /\ Subscribed(p)' <=> Subscribed(p)
                         /\ Gone(p)' <=> Gone(p)
                         /\ (p \in dropped' <=> p \in dropped)
    BY <1>7 DEF Subscribed, Gone
  <2>2. io' = io /\ shut' = shut /\ session' = session /\ late' = late BY <1>7
  <2>3. Range(sessions') \subseteq Range(sessions) BY <1>1, <1>2
  <2> QED BY <1>12, <2>1, <2>2, <2>3 DEF Inv, Reached
<1> QED
  BY <1>8, <1>12, <1>13, <1>14, <1>15, <1>16, <1>17, <1>18, <1>19, <1>20 DEF Inv

LEMMA ConsultStep ==
    ASSUME Inv, NEW c \in Commands, Consult(c)
    PROVE  /\ Inv'
           /\ \A p \in Pages : Listed(p)' <=> Listed(p)
<1> PICK n, w : n = worker[c].part /\ w = After(c, n) OBVIOUS
<1> USE DEF ioVars, clientVars, histories
<1>1. /\ worker[c].at = "consulting" /\ worker' = [worker EXCEPT ![c] = w]
      /\ UNCHANGED <<ioVars, sessions, session, clientVars, feed, since, sent, dropped, late,
                     answered>>
  <2>1. worker \in [Connections -> WorkerStates] /\ c \in Connections
    BY CommandsAreNoPages DEF Inv, Shape
  <2> QED BY <2>1 DEF Consult
<1>2. n \in 1..MessagesOf[c] BY <1>1 DEF Inv, Shape, InRuntime
<1>3. /\ w \in WorkerStates
      /\ \/ w.at = "publishing" /\ w.part = n + 1 /\ w.part \in 1..MessagesOf[c]
         \/ w.at = "answering" /\ n = MessagesOf[c]
  BY <1>2, AfterRecords
<1>4. TakenUp(c, n) /\ c \notin answered
  <2>1. TakenUp(c, worker[c].part) /\ c \notin answered BY <1>1 DEF Inv, FeedHolds
  <2> QED BY <2>1 DEF TakenUp
<1>5. /\ Shape' /\ worker'[c] = w /\ \A d \in Connections : d # c => worker'[d] = worker[d]
      /\ \A p \in Pages : worker'[p] = worker[p]
  <2>1. /\ sessions' \in Seq(Pages) /\ feed' \in Seq(Messages)
        /\ sent' \in [Pages -> Seq(Messages)] /\ unread' \in [Pages -> 0..BufferSize]
    BY <1>1 DEF Inv, Shape, TypeOK
  <2>2. /\ w.at \notin {"adding", "starting"}
        /\ w.at \in {"publishing", "sending", "consulting"} => w.part \in 1..MessagesOf[c]
    BY <1>3
  <2> HIDE DEF ioVars, clientVars
  <2> QED BY <1>1, <1>3, <2>1, <2>2, CommandGoes
<1>6. \A d \in Commands : d # c => worker'[d] = worker[d] BY <1>5, CommandsAreNoPages
<1>7. /\ \A d \in Commands : (Sending(d)' <=> Sending(d)) /\ (Sending(d) => worker'[d] = worker[d])
      /\ \A d \in Commands : InRuntime(d)' => InRuntime(d)
  BY <1>1, <1>3, <1>5, <1>6 DEF Sending, InRuntime
<1>8. BroadcasterFree' <=> BroadcasterFree BY <1>7 DEF BroadcasterFree
<1>9. \A p \in Pages : (Listed(p)' <=> Listed(p)) /\ (Subscribed(p)' <=> Subscribed(p))
  BY <1>1, <1>7, <1>8 DEF Listed, Subscribed
<1>10. OneAtATime' BY <1>7 DEF Inv, OneAtATime
<1>11. Stages' BY <1>1, <1>5 DEF Inv, Stages, Gone
<1>12. ListsAreSets' BY <1>1, <1>7 DEF Inv, ListsAreSets, Subscribed
<1>13. UpToDate' BY <1>1, <1>7, <1>8 DEF Inv, UpToDate
<1>14. FeedHolds' BY <1>1, <1>2, <1>3, <1>4, <1>5, <1>6, HoldsOn
<1>15. UpdatesComeWhole' BY <1>1, UpdatesKept DEF Inv
<1>16. WholeSoFar' BY <1>1, <1>7 DEF Inv, WholeSoFar
<1>17. Reached' BY <1>1, <1>9 DEF Inv, Reached, Gone
<1> QED
  BY <1>5, <1>9, <1>10, <1>11, <1>12, <1>13, <1>14, <1>15, <1>16, <1>17 DEF Inv

-----------------------------------------------------------------------------
(* Every step, and the theorems about the states.                          *)

LEMMA StepsKeepInv ==
    ASSUME Inv, Next
    PROVE  Inv'
<1>1. ASSUME NEW c \in Connections, Connect(c) PROVE Inv' BY <1>1, ConnectStep
<1>2. ASSUME NEW c \in Connections, Close(c) PROVE Inv' BY <1>2, CloseStep
<1>3. ASSUME NEW p \in Pages, Stall(p) PROVE Inv' BY <1>3, StallStep
<1>4. ASSUME NEW p \in Pages, ReadMessage(p) PROVE Inv' BY <1>4, ReadMessageStep
<1>5. CASE TakeSessions BY <1>5, TakeSessionsStep
<1>6. CASE StopSession BY <1>6, StopSessionStep
<1>7. CASE JoinSession BY <1>7, JoinSessionStep
<1>8. CASE CloseSockets BY <1>8, CloseSocketsStep
<1>9. CASE JoinWorkers BY <1>9, JoinWorkersStep
<1>10. CASE AcceptFails BY <1>10, AcceptFailsStep
<1>11. CASE RequestStop BY <1>11, RequestStopStep
<1>12. ASSUME NEW c \in Connections, Accept(c) PROVE Inv' BY <1>12, AcceptStep
<1>13. ASSUME NEW c \in Pages \cup Commands, ReadRequest(c) PROVE Inv' BY <1>13, ReadRequestStep
<1>14. ASSUME NEW c \in Connections, ReadFails(c) PROVE Inv' BY <1>14, ReadFailsStep
<1>15. ASSUME NEW p \in Pages, AddSession(p) PROVE Inv' BY <1>15, AddSessionStep
<1>16. ASSUME NEW p \in Pages, StartSession(p) PROVE Inv' BY <1>16, StartSessionStep
<1>17. ASSUME NEW p \in Pages, Handshake(p) PROVE Inv' BY <1>17, HandshakeStep
<1>18. ASSUME NEW p \in Pages, SessionEnds(p) PROVE Inv' BY <1>18, SessionEndsStep
<1>19. ASSUME NEW c \in Commands, Submit(c) PROVE Inv' BY <1>19, SubmitStep
<1>20. ASSUME NEW c \in Commands, TakeUp(c) PROVE Inv' BY <1>20, TakeUpStep
<1>21. ASSUME NEW c \in Commands, Send(c) PROVE Inv' BY <1>21, SendStep
<1>22. ASSUME NEW c \in Commands, SendFails(c) PROVE Inv' BY <1>22, SendFailsStep
<1>23. ASSUME NEW c \in Commands, SentToAll(c) PROVE Inv' BY <1>23, SentToAllStep
<1>24. ASSUME NEW c \in Commands, Answer(c) PROVE Inv' BY <1>24, AnswerStep
<1>25. ASSUME NEW c \in Commands, Consult(c) PROVE Inv' BY <1>25, ConsultStep
<1> USE CommandsAreNoPages
<1>26. CASE Clients BY <1>1, <1>2, <1>3, <1>4, <1>26 DEF Clients
<1>27. CASE IoThread
  BY <1>5, <1>6, <1>7, <1>8, <1>9, <1>10, <1>11, <1>12, <1>27 DEF IoThread, Stopping
<1>28. ASSUME NEW p \in Pages, PageWorker(p) PROVE Inv'
  BY <1>13, <1>14, <1>15, <1>16, <1>28 DEF PageWorker
<1>29. ASSUME NEW p \in Pages, SessionThread(p) PROVE Inv'
  BY <1>17, <1>18, <1>29 DEF SessionThread
<1>30. ASSUME NEW c \in Commands, CommandWorker(c) PROVE Inv'
  BY <1>13, <1>14, <1>19, <1>20, <1>21, <1>22, <1>23, <1>24, <1>25, <1>30 DEF CommandWorker
<1>31. ASSUME NEW c \in Silent, SilentWorker(c) PROVE Inv' BY <1>14, <1>31 DEF SilentWorker
<1> QED BY <1>26, <1>27, <1>28, <1>29, <1>30, <1>31 DEF Next

LEMMA ConnectionsInductive == Spec => []Inv
<1>1. Init => Inv BY InitHasInv
<1>2. Inv /\ [Next]_vars => Inv'
  <2> SUFFICES ASSUME Inv, [Next]_vars PROVE Inv' OBVIOUS
  <2>1. CASE Next BY <2>1, StepsKeepInv
  <2>2. CASE UNCHANGED vars
    <3>1. UNCHANGED <<ioVars, worker, sessions, session, cast, histories>>
          /\ UNCHANGED <<client, stalled, unread>>
      BY <2>2 DEF vars, clientVars
    <3> QED BY <3>1, ClientStep DEF Inv, Shape, TypeOK, Gone
  <2> QED BY <2>1, <2>2
<1> QED BY <1>1, <1>2, PTL DEF Spec

\* Every thread is at a place of its own code, the lists hold pages and the
\* feed the commands' messages.
THEOREM ConnectionsTypeCorrect == Spec => []TypeOK
<1>1. Inv => TypeOK BY DEF Inv, Shape
<1> QED BY <1>1, ConnectionsInductive, PTL

\* The messages of a command come together among those of its runtime: the
\* runtime's mutex is held through publish_room_updated and
\* publish_accepted_event.
THEOREM MessagesComeTogether == Spec => []UpdatesComeWhole
<1>1. Inv => UpdatesComeWhole BY DEF Inv
<1> QED BY <1>1, ConnectionsInductive, PTL

\* An open page is in the list and has been sent all of the feed since it was
\* added, before the stop and between messages (add_session,
\* publish_message).
THEOREM OpenPagesServed == Spec => []OpenPagesAreServed
<1>1. Inv => OpenPagesAreServed
  <2> SUFFICES ASSUME Inv, BroadcasterFree, io.at = "serving",
                      NEW p \in Pages, client[p] = "open", p \notin dropped
               PROVE  p \in Range(sessions) /\ since[p] + Len(sent[p]) = Len(feed)
    BY DEF OpenPagesAreServed
  <2>1. Subscribed(p) /\ ~Gone(p) BY DEF Inv, Stages, Subscribed, Gone
  <2>2. Listed(p) BY <2>1 DEF Inv, Reached
  <2>3. p \in Range(sessions) BY <2>2 DEF Listed
  <2> QED BY <2>3 DEF Inv, UpToDate
<1> QED BY <1>1, ConnectionsInductive, PTL

\* A command is answered only after its messages have been written to every
\* page in the list (submit_event emits before it returns).
THEOREM AnsweredCommandsAreSent == Spec => []AnsweredIsSent
<1>1. Inv => AnsweredIsSent
  <2> SUFFICES ASSUME Inv, NEW c \in answered, NEW k \in 1..MessagesOf[c]
               PROVE  \E i \in DOMAIN feed :
                          /\ feed[i] = Message(c, k)
                          /\ \A p \in Pages :
                              Subscribed(p) /\ Listed(p) /\ since[p] < i
                              => since[p] + Len(sent[p]) >= i
    BY DEF AnsweredIsSent
  <2>1. c \in Commands BY DEF Inv, Shape, TypeOK
  <2>2. TakenUp(c, MessagesOf[c]) /\ worker[c].at = "done" BY <2>1 DEF Inv, FeedHolds
  <2>3. InFeed(c, k) BY <2>1, <2>2, MessageCounts DEF TakenUp
  <2>4. PICK i \in DOMAIN feed : feed[i] = Message(c, k) BY <2>3 DEF InFeed
  <2>5. i \in 1..Len(feed) /\ Len(feed) \in Nat BY FeedEntries
  <2>6. ASSUME NEW p \in Pages, Listed(p) PROVE since[p] + Len(sent[p]) >= i
    <3>1. since[p] \in Nat /\ Len(sent[p]) \in Nat BY SentLengths
    <3>2. CASE BroadcasterFree
      <4>1. since[p] + Len(sent[p]) = Len(feed) BY <2>6, <3>2 DEF Listed, Inv, UpToDate
      <4> QED BY <2>5, <3>1, <4>1
    <3>3. CASE ~BroadcasterFree
      <4>1. PICK d \in Commands :
              Sending(d) /\ p \in Range(worker[d].todo) \cup Range(worker[d].live)
        BY <2>6, <3>3 DEF Listed
      <4>2. d # c BY <2>2, <4>1 DEF Sending
      <4>3. Last(feed) = Message(d, worker[d].part) BY <4>1 DEF Inv, UpToDate
      <4>4. i # Len(feed)
        <5>1. Message(d, worker[d].part) # Message(c, k) BY <4>2 DEF Message
        <5> QED BY <2>4, <4>3, <5>1 DEF Last
      <4>5. \/ since[p] + Len(sent[p]) = Len(feed)
            \/ since[p] + Len(sent[p]) + 1 = Len(feed)
        BY <4>1 DEF Inv, UpToDate
      <4> QED BY <2>5, <3>1, <4>4, <4>5
    <3> QED BY <3>2, <3>3
  <2> QED BY <2>4, <2>6
<1> QED BY <1>1, ConnectionsInductive, PTL

\* When run returns, the session of an open page is over, unless it was added
\* after the stop or the page had been dropped before it was open
\* (WebSocketBroadcaster::stop, Session::stop and join).
THEOREM StopClosesPages == Spec => []StopReachesPages
<1>1. Inv => StopReachesPages
  <2> SUFFICES ASSUME Inv, io.at = "ended", NEW p \in Pages, client[p] = "open",
                      p \notin late, p \notin dropped
               PROVE  session[p] = "done"
    BY DEF StopReachesPages
  <2>1. session[p] \in {"reading", "done"} BY DEF Inv, Stages
  <2>2. Subscribed(p) /\ ~Gone(p) BY <2>1 DEF Subscribed, Gone
  <2>3. session[p] # "reading" BY <2>2 DEF Inv, Reached
  <2> QED BY <2>1, <2>3
<1> QED BY <1>1, ConnectionsInductive, PTL

-----------------------------------------------------------------------------
(* The feed: how the steps look to its subscribers.                        *)

LEMMA FeedInit == Init => TheFeed!Init
<1> SUFFICES ASSUME Init PROVE TheFeed!Init OBVIOUS
<1>1. \A p \in Pages : ~Subscribed(p) BY DEF Init, Subscribed
<1> QED BY <1>1 DEF Init, TheFeed!Init

LEMMA SameStanding ==
    ASSUME UNCHANGED <<feed, since, sent>>,
           \A p \in Pages : (Subscribed(p)' <=> Subscribed(p)) /\ (Listed(p)' <=> Listed(p))
    PROVE  UNCHANGED TheFeed!vars
BY DEF TheFeed!vars

\* The feed's actions, by what changes of a page's session and of the list.
LEMMA FeedSubscribe ==
    ASSUME NEW p \in Pages, ~Subscribed(p), Subscribed(p)', Listed(p)',
           \A q \in Pages : q # p => (Subscribed(q)' <=> Subscribed(q)) /\ (Listed(q)' <=> Listed(q)),
           since' = [since EXCEPT ![p] = Len(feed)], UNCHANGED <<feed, sent>>
    PROVE  TheFeed!Subscribe(p)
BY DEF TheFeed!Subscribe

LEMMA FeedPublish ==
    ASSUME NEW m, m \notin Range(feed), feed' = Append(feed, m),
           \A p \in Pages : Listed(p) => since[p] + Len(sent[p]) = Len(feed),
           \A p \in Pages : (Subscribed(p)' <=> Subscribed(p)) /\ (Listed(p)' <=> Listed(p)),
           UNCHANGED <<since, sent>>
    PROVE  TheFeed!Publish(m)
BY DEF TheFeed!Publish, TheFeed!Current, TheFeed!Range, Range

LEMMA FeedGive ==
    ASSUME NEW p \in Pages, Subscribed(p), Listed(p),
           since[p] \in Nat, Len(sent[p]) \in Nat, since[p] + Len(sent[p]) + 1 = Len(feed),
           sent' = [sent EXCEPT ![p] = Append(@, Last(feed))],
           \A q \in Pages : (Subscribed(q)' <=> Subscribed(q)) /\ (Listed(q)' <=> Listed(q)),
           UNCHANGED <<feed, since>>
    PROVE  TheFeed!Give(p)
<1>1. since[p] + Len(sent[p]) # Len(feed) OBVIOUS
<1>2. Last(feed) = feed[since[p] + Len(sent[p]) + 1] BY DEF Last
<1>3. sent' = [sent EXCEPT ![p] = Append(@, feed[since[p] + Len(@) + 1])] BY <1>2
<1> QED BY <1>1, <1>3 DEF TheFeed!Give, TheFeed!Current

LEMMA FeedCut ==
    ASSUME NEW S \in SUBSET Pages, \A p \in S : Subscribed(p) /\ Listed(p) /\ ~Listed(p)',
           \A p \in Pages \ S : Listed(p)' <=> Listed(p),
           \A p \in Pages : Subscribed(p)' <=> Subscribed(p),
           UNCHANGED <<feed, since, sent>>
    PROVE  TheFeed!Cut(S)
BY DEF TheFeed!Cut

\* A step of the feed, or one that its subscribers do not see.
FeedStep == TheFeed!Next \/ UNCHANGED TheFeed!vars

LEMMA QuietFeeds == Quiet => FeedStep
<1> SUFFICES ASSUME Quiet PROVE UNCHANGED TheFeed!vars BY DEF FeedStep
<1>1. \A p \in Pages : Subscribed(p)' <=> Subscribed(p) BY DEF Quiet
<1>2. \A p \in Pages : Listed(p)' <=> Listed(p) BY QuietViews
<1>3. UNCHANGED <<feed, since, sent>> BY DEF Quiet
<1> QED BY <1>1, <1>2, <1>3, SameStanding

LEMMA AddSessionFeeds ==
    ASSUME Inv, NEW p \in Pages, AddSession(p)
    PROVE  FeedStep
<1>1. /\ ~Subscribed(p) /\ UNCHANGED <<feed, sent>> /\ since' = [since EXCEPT ![p] = Len(feed)]
      /\ worker' = [worker EXCEPT ![p] = At("starting")]
  BY DEF AddSession, Inv, Stages, Subscribed
<1>2. Subscribed(p)' /\ \A q \in Pages : q # p => (Subscribed(q)' <=> Subscribed(q))
  BY DEF AddSession, Subscribed, Inv, Shape, TypeOK
<1>3. \A c \in Commands : worker'[c] = worker[c]
  BY <1>1, CommandsAreNoPages DEF Inv, Shape
<1>4. BroadcasterFree /\ BroadcasterFree' BY <1>3 DEF AddSession, BroadcasterFree, Sending
<1>5. Range(sessions') = Range(sessions) \cup {p}
  <2>1. sessions \in Seq(Pages) /\ sessions' = Append(sessions, p)
    BY DEF AddSession, Inv, Shape
  <2> QED BY <2>1, AppendToList
<1>6. Listed(p)' /\ \A q \in Pages : q # p => (Listed(q)' <=> Listed(q))
  BY <1>4, <1>5 DEF Listed
<1>7. TheFeed!Subscribe(p) BY <1>1, <1>2, <1>6, FeedSubscribe
<1> QED BY <1>7 DEF FeedStep, TheFeed!Next

LEMMA SubmitFeeds ==
    ASSUME Inv, NEW c \in Commands, Submit(c)
    PROVE  FeedStep
<1>1. /\ UNCHANGED <<sessions, session, feed, since, sent>>
      /\ worker' = [worker EXCEPT ![c] = [at |-> "publishing", part |-> 1]]
      /\ worker[c].at = "submitting"
  BY DEF Submit, histories
<1>2. /\ \A d \in Commands : d # c => worker'[d] = worker[d]
      /\ worker'[c].at = "publishing"
  BY <1>1, CommandsAreNoPages DEF Inv, Shape
<1>3. \A d \in Commands : (Sending(d)' <=> Sending(d)) /\ (Sending(d) => worker'[d] = worker[d])
  BY <1>1, <1>2 DEF Sending
<1>4. BroadcasterFree' <=> BroadcasterFree BY <1>3 DEF BroadcasterFree
<1>5. \A p \in Pages : (Subscribed(p)' <=> Subscribed(p)) /\ (Listed(p)' <=> Listed(p))
  BY <1>1, <1>3, <1>4 DEF Listed, Subscribed
<1> QED BY <1>1, <1>5, SameStanding DEF FeedStep

LEMMA TakeUpFeeds ==
    ASSUME Inv, NEW c \in Commands, TakeUp(c)
    PROVE  FeedStep
<1> PICK part, m : part = worker[c].part /\ m = Message(c, part) OBVIOUS
<1>1. /\ feed' = Append(feed, m) /\ UNCHANGED <<sessions, session, since, sent>>
      /\ BroadcasterFree /\ worker[c].at = "publishing"
      /\ worker' = [worker EXCEPT ![c] =
             [at |-> "sending", part |-> part, todo |-> sessions, live |-> <<>>]]
  BY DEF TakeUp
<1>2. part \in 1..MessagesOf[c] /\ part \in Nat
  <2>1. part \in 1..MessagesOf[c] BY <1>1 DEF Inv, Shape, InRuntime
  <2> QED BY <2>1, MessageCounts
<1>3. m \in Messages BY <1>2, MessagesAre
<1>4. m \notin Range(feed)
  <2>1. TakenUp(c, worker[c].part - 1) BY <1>1 DEF Inv, FeedHolds
  <2>2. ~(part <= part - 1) BY <1>2
  <2>3. ~InFeed(c, part) BY <1>2, <2>1, <2>2 DEF TakenUp
  <2> QED BY <2>3 DEF InFeed, Range
<1>5. \A p \in Pages : Listed(p) <=> p \in Range(sessions) BY <1>1 DEF Listed
<1>6. \A p \in Pages : Listed(p) => since[p] + Len(sent[p]) = Len(feed)
  BY <1>1, <1>5 DEF Inv, UpToDate
<1>7. /\ \A d \in Commands : Sending(d)' <=> d = c
      /\ worker'[c].todo = sessions /\ worker'[c].live = <<>>
  <2>1. /\ \A d \in Commands : d # c => worker'[d] = worker[d]
        /\ worker'[c] = [at |-> "sending", part |-> part, todo |-> sessions, live |-> <<>>]
    BY <1>1, CommandsAreNoPages DEF Inv, Shape
  <2> QED BY <1>1, <2>1, NobodySends DEF Sending
<1>8. \A p \in Pages : Listed(p)' <=> p \in Range(sessions)
  <2>1. ~BroadcasterFree' BY <1>7 DEF BroadcasterFree
  <2> QED BY <1>7, <2>1, EmptyList DEF Listed
<1>9. \A p \in Pages : Subscribed(p)' <=> Subscribed(p) BY <1>1 DEF Subscribed
<1>10. TheFeed!Publish(m) BY <1>1, <1>4, <1>5, <1>6, <1>8, <1>9, FeedPublish
<1> QED BY <1>3, <1>10 DEF FeedStep, TheFeed!Next

LEMMA SendFeeds ==
    ASSUME Inv, NEW c \in Commands, Send(c)
    PROVE  FeedStep
<1>1. PICK p \in Pages :
        /\ Listed(p) /\ Subscribed(p) /\ since[p] + Len(sent[p]) + 1 = Len(feed)
        /\ sent' = [sent EXCEPT ![p] = Append(@, Last(feed))]
  BY SendStep
<1>2. \A q \in Pages : Listed(q)' <=> Listed(q) BY SendStep
<1>3. UNCHANGED <<feed, since>> /\ \A q \in Pages : Subscribed(q)' <=> Subscribed(q)
  BY DEF Send, Subscribed
<1>4. since[p] \in Nat /\ Len(sent[p]) \in Nat BY SentLengths
<1>5. TheFeed!Give(p) BY <1>1, <1>2, <1>3, <1>4, FeedGive
<1> QED BY <1>5 DEF FeedStep, TheFeed!Next

LEMMA SendFailsFeeds ==
    ASSUME Inv, NEW c \in Commands, SendFails(c)
    PROVE  FeedStep
<1>1. PICK p \in Pages :
        /\ Listed(p) /\ Subscribed(p) /\ ~Listed(p)'
        /\ \A q \in Pages : q # p => (Listed(q)' <=> Listed(q))
  BY SendFailsStep
<1>2. UNCHANGED <<feed, since, sent>> /\ \A q \in Pages : Subscribed(q)' <=> Subscribed(q)
  BY DEF SendFails, Subscribed, histories
<1>3. TheFeed!Cut({p}) BY <1>1, <1>2, FeedCut
<1> QED BY <1>3 DEF FeedStep, TheFeed!Next

LEMMA SentToAllFeeds ==
    ASSUME Inv, NEW c \in Commands, SentToAll(c)
    PROVE  FeedStep
<1>1. \A p \in Pages : Listed(p)' <=> Listed(p) BY SentToAllStep
<1>2. UNCHANGED <<feed, since, sent>> /\ \A p \in Pages : Subscribed(p)' <=> Subscribed(p)
  BY DEF SentToAll, Subscribed, histories
<1> QED BY <1>1, <1>2, SameStanding DEF FeedStep

LEMMA ConsultFeeds ==
    ASSUME Inv, NEW c \in Commands, Consult(c)
    PROVE  FeedStep
<1>1. \A p \in Pages : Listed(p)' <=> Listed(p) BY ConsultStep
<1>2. UNCHANGED <<feed, since, sent>> /\ \A p \in Pages : Subscribed(p)' <=> Subscribed(p)
  BY DEF Consult, Subscribed, histories
<1> QED BY <1>1, <1>2, SameStanding DEF FeedStep

LEMMA TakeSessionsFeeds == Inv /\ TakeSessions => FeedStep
<1> SUFFICES ASSUME Inv, TakeSessions PROVE FeedStep OBVIOUS
<1>1. /\ UNCHANGED <<worker, session, feed, since, sent>>
      /\ BroadcasterFree /\ sessions' = <<>>
  BY DEF TakeSessions, histories
<1>2. BroadcasterFree' BY <1>1 DEF BroadcasterFree, Sending
<1>3. \A p \in Pages : (Listed(p) <=> p \in Range(sessions)) /\ ~Listed(p)'
  BY <1>1, <1>2, EmptyList DEF Listed
<1>4. Range(sessions) \subseteq Pages /\ \A p \in Range(sessions) : Subscribed(p)
  BY DEF Inv, Shape, TypeOK, ListsAreSets
<1>5. \A p \in Pages : Subscribed(p)' <=> Subscribed(p) BY <1>1 DEF Subscribed
<1>6. TheFeed!Cut(Range(sessions)) BY <1>1, <1>3, <1>4, <1>5, FeedCut
<1> QED BY <1>4, <1>6 DEF FeedStep, TheFeed!Next

LEMMA StepsFeed ==
    ASSUME Inv, Next
    PROVE  FeedStep
<1> USE QuietFeeds, CommandsAreNoPages
<1>1. ASSUME NEW c \in Connections, Connect(c) PROVE FeedStep BY <1>1, ConnectStep
<1>2. ASSUME NEW c \in Connections, Close(c) PROVE FeedStep BY <1>2, CloseStep
<1>3. ASSUME NEW p \in Pages, Stall(p) PROVE FeedStep BY <1>3, StallStep
<1>4. ASSUME NEW p \in Pages, ReadMessage(p) PROVE FeedStep BY <1>4, ReadMessageStep
<1>5. CASE TakeSessions BY <1>5, TakeSessionsFeeds
<1>6. CASE StopSession BY <1>6, StopSessionStep
<1>7. CASE JoinSession BY <1>7, JoinSessionStep
<1>8. CASE CloseSockets BY <1>8, CloseSocketsStep
<1>9. CASE JoinWorkers BY <1>9, JoinWorkersStep
<1>10. CASE AcceptFails BY <1>10, AcceptFailsStep
<1>11. CASE RequestStop BY <1>11, RequestStopStep
<1>12. ASSUME NEW c \in Connections, Accept(c) PROVE FeedStep BY <1>12, AcceptStep
<1>13. ASSUME NEW c \in Pages \cup Commands, ReadRequest(c) PROVE FeedStep BY <1>13, ReadRequestStep
<1>14. ASSUME NEW c \in Connections, ReadFails(c) PROVE FeedStep BY <1>14, ReadFailsStep
<1>15. ASSUME NEW p \in Pages, AddSession(p) PROVE FeedStep BY <1>15, AddSessionFeeds
<1>16. ASSUME NEW p \in Pages, StartSession(p) PROVE FeedStep BY <1>16, StartSessionStep
<1>17. ASSUME NEW p \in Pages, Handshake(p) PROVE FeedStep BY <1>17, HandshakeStep
<1>18. ASSUME NEW p \in Pages, SessionEnds(p) PROVE FeedStep BY <1>18, SessionEndsStep
<1>19. ASSUME NEW c \in Commands, Submit(c) PROVE FeedStep BY <1>19, SubmitFeeds
<1>20. ASSUME NEW c \in Commands, TakeUp(c) PROVE FeedStep BY <1>20, TakeUpFeeds
<1>21. ASSUME NEW c \in Commands, Send(c) PROVE FeedStep BY <1>21, SendFeeds
<1>22. ASSUME NEW c \in Commands, SendFails(c) PROVE FeedStep BY <1>22, SendFailsFeeds
<1>23. ASSUME NEW c \in Commands, SentToAll(c) PROVE FeedStep BY <1>23, SentToAllFeeds
<1>24. ASSUME NEW c \in Commands, Answer(c) PROVE FeedStep BY <1>24, AnswerStep
<1>25. ASSUME NEW c \in Commands, Consult(c) PROVE FeedStep BY <1>25, ConsultFeeds
<1>26. CASE Clients BY <1>1, <1>2, <1>3, <1>4, <1>26 DEF Clients
<1>27. CASE IoThread
  BY <1>5, <1>6, <1>7, <1>8, <1>9, <1>10, <1>11, <1>12, <1>27 DEF IoThread, Stopping
<1>28. ASSUME NEW p \in Pages, PageWorker(p) PROVE FeedStep
  BY <1>13, <1>14, <1>15, <1>16, <1>28 DEF PageWorker
<1>29. ASSUME NEW p \in Pages, SessionThread(p) PROVE FeedStep
  BY <1>17, <1>18, <1>29 DEF SessionThread
<1>30. ASSUME NEW c \in Commands, CommandWorker(c) PROVE FeedStep
  BY <1>13, <1>14, <1>19, <1>20, <1>21, <1>22, <1>23, <1>24, <1>25, <1>30 DEF CommandWorker
<1>31. ASSUME NEW c \in Silent, SilentWorker(c) PROVE FeedStep BY <1>14, <1>31 DEF SilentWorker
<1> QED BY <1>26, <1>27, <1>28, <1>29, <1>30, <1>31 DEF Next

\* Seen from the pages the server is one feed: whatever connects, stalls,
\* closes or stops in between, each page gets a gapless piece of it from
\* add_session on, and none is left behind (publish_message).
THEOREM ServerIsOneFeed == Spec => ImplementsFeed
<1>1. Init => TheFeed!Init BY FeedInit
<1>2. Inv /\ [Next]_vars => [TheFeed!Next]_TheFeed!vars
  <2> SUFFICES ASSUME Inv, [Next]_vars PROVE FeedStep BY DEF FeedStep
  <2>1. CASE Next BY <2>1, StepsFeed
  <2>2. CASE UNCHANGED vars
    <3>1. Quiet BY <2>2 DEF vars, histories, Quiet, Subscribed
    <3> QED BY <3>1, QuietFeeds
  <2> QED BY <2>1, <2>2
<1> QED BY <1>1, <1>2, ConnectionsInductive, PTL DEF Spec, ImplementsFeed, TheFeed!Spec

=============================================================================
