---------------------------- MODULE Connections ----------------------------
(***************************************************************************)
(* The connections of apd from accept to close (ApServer and               *)
(* WebSocketBroadcaster in src/src/server/server.cpp): the io thread, the  *)
(* worker thread of each connection, the session thread of each live page, *)
(* the clients at the other end, and stop.                                 *)
(*                                                                         *)
(* A connection is used once; a client that reconnects is another one.     *)
(* What a command's publication contains is LiveServer's business: here a  *)
(* command is one that is accepted, publishes MessagesOf messages and, for *)
(* what comes after some of them, asks the other runtime, whose mutex it   *)
(* waits for with its own in hand.                                         *)
(***************************************************************************)
EXTENDS Integers, SequencesExt

CONSTANTS
    Pages,              \* connections that upgrade to /api/v0/live
    Commands,           \* connections that post a command
    Silent,             \* connections on which nothing is ever sent
    Casts,              \* which of the connections are ever made
    RuntimeOf,          \* the runtime a command is for
    MessagesOf,         \* how many messages it publishes
    AsksAfter,          \* and after which of them it asks the other runtime
    BufferSize          \* messages that fit between server and page

Connections == Pages \cup Commands \cup Silent

ConnectionsAssumption ==
    /\ Pages \cap Commands = {} /\ Silent \cap (Pages \cup Commands) = {}
    /\ \A cast \in Casts : cast \subseteq Connections
    /\ MessagesOf \in [Commands -> Nat \ {0}]
    /\ \A c \in Commands : AsksAfter[c] \subseteq 1..MessagesOf[c]
    /\ BufferSize \in Nat \ {0}
    /\ Commands \subseteq DOMAIN RuntimeOf

ASSUME ConnectionsAssumption

VARIABLES
    io,         \* the io thread, and the sessions it still has to stop
    stopping,   \* ApServer::stopping_
    accepting,  \* an async_accept is pending
    active,     \* active_sockets_
    shut,       \* the connections whose socket the server has shut down
    worker,     \* the worker thread of each connection
    sessions,   \* WebSocketBroadcaster::sessions_
    session,    \* the thread of each Session
    cast,       \* the connections that are made, sooner or later
    client,     \* the other end of each connection
    stalled,    \* pages that are open and read no more
    unread,     \* messages in the buffers between server and page
    feed,       \* history: the messages taken up for sending
    since,      \* history: how long the feed was when the session was added
    sent,       \* history: the messages written to each session
    dropped,    \* history: pages dropped from the list during their handshake
    late,       \* history: pages whose session was added after the stop
    answered    \* history: commands whose response was written

ioVars == <<io, stopping, accepting, active, shut>>
clientVars == <<cast, client, stalled, unread>>
histories == <<feed, since, sent, dropped, late, answered>>
vars == <<ioVars, worker, sessions, session, clientVars, histories>>

At(place) == [at |-> place]

\* A worker before it has handed its socket over or is through with it.
WithSocket == {"reading", "submitting", "publishing", "sending", "consulting", "answering"}

\* Inside submit_event, with the runtime's mutex.
InRuntime(c) == worker[c].at \in {"publishing", "sending", "consulting"}
RuntimeFree(r) == \A c \in Commands : InRuntime(c) => RuntimeOf[c] # r
OthersFree(r) == \A c \in Commands : InRuntime(c) => RuntimeOf[c] = r

\* publish_message holds the broadcaster's mutex for a whole message.
Sending(c) == worker[c].at = "sending"
BroadcasterFree == \A c \in Commands : ~Sending(c)

Gone(c) == client[c] \in {"closed", "left"}

\* The client has connected, and no worker has been started for it.
Pending(c) == client[c] # "away" /\ worker[c].at = "none"

Message(c, part) == <<c, part>>
Messages == UNION {{Message(c, part) : part \in 1..MessagesOf[c]} : c \in Commands}

TypeOK ==
    /\ io.at \in {"serving", "stopping sessions", "joining session",
                  "joining workers", "ended"}
    /\ {stopping, accepting} \subseteq BOOLEAN
    /\ active \subseteq Connections /\ shut \subseteq Connections
    /\ \A c \in Connections : worker[c].at \in
           {"none", "adding", "starting", "done"} \cup WithSocket
    /\ Range(sessions) \subseteq Pages
    /\ session \in [Pages -> {"none", "unstarted", "accepting", "reading", "done"}]
    /\ cast \in Casts
    /\ client \in [Connections -> {"away", "silent", "asking", "open", "closed", "left"}]
    /\ stalled \subseteq Pages
    /\ unread \in [Pages -> 0..BufferSize]
    /\ feed \in Seq(Messages)
    /\ dropped \subseteq Pages /\ late \subseteq Pages /\ answered \subseteq Commands

Init ==
    /\ io = At("serving") /\ stopping = FALSE /\ accepting = TRUE
    /\ active = {} /\ shut = {}
    /\ worker = [c \in Connections |-> At("none")]
    /\ sessions = <<>>
    /\ session = [p \in Pages |-> "none"]
    /\ cast \in Casts
    /\ client = [c \in Connections |-> "away"]
    /\ stalled = {}
    /\ unread = [p \in Pages |-> 0]
    /\ feed = <<>> /\ dropped = {} /\ late = {} /\ answered = {}
    /\ since = [p \in Pages |-> 0]
    /\ sent = [p \in Pages |-> <<>>]

-----------------------------------------------------------------------------
(* Faulty variants of actions below, one slip each.                        *)

\* The socket is not recorded, and stop does not find it.
AcceptUnrecorded(c) ==
    /\ io.at = "serving" /\ accepting /\ ~stopping
    /\ Pending(c)
    /\ worker' = [worker EXCEPT ![c] = At("reading")]
    /\ UNCHANGED <<ioVars, sessions, session, clientVars, histories>>

\* The session's thread is not waited for.
JoinSessionAtOnce ==
    /\ io.at = "joining session"
    /\ io' = [at |-> "stopping sessions", todo |-> Tail(io.todo)]
    /\ UNCHANGED <<stopping, accepting, active, shut, worker, sessions, session,
                   clientVars, histories>>

\* The list is changed without the broadcaster's mutex.
AddSessionUnlocked(p) ==
    /\ worker[p].at = "adding"
    /\ sessions' = Append(sessions, p)
    /\ session' = [session EXCEPT ![p] = "unstarted"]
    /\ worker' = [worker EXCEPT ![p] = At("starting")]
    /\ since' = [since EXCEPT ![p] = Len(feed)]
    /\ late' = IF io.at = "serving" THEN late ELSE late \cup {p}
    /\ UNCHANGED <<ioVars, clientVars, feed, sent, dropped, answered>>

\* The runtime publishes outside its mutex.
SubmitUnlocked(c) ==
    /\ worker[c].at = "submitting"
    /\ worker' = [worker EXCEPT ![c] = [at |-> "publishing", part |-> 1]]
    /\ UNCHANGED <<ioVars, sessions, session, clientVars, histories>>

\* publish_message without the broadcaster's mutex.
TakeUpUnlocked(c) ==
    /\ worker[c].at = "publishing"
    /\ feed' = Append(feed, Message(c, worker[c].part))
    /\ worker' = [worker EXCEPT ![c] =
           [at |-> "sending", part |-> worker[c].part, todo |-> sessions, live |-> <<>>]]
    /\ UNCHANGED <<ioVars, sessions, session, clientVars, since, sent, dropped, late, answered>>

\* The publisher waits until every session is open: a cure of the lost
\* handshake.
TakeUpWhenOpen(c) ==
    /\ worker[c].at = "publishing" /\ BroadcasterFree
    /\ \A p \in Range(sessions) : session[p] = "reading"
    /\ feed' = Append(feed, Message(c, worker[c].part))
    /\ worker' = [worker EXCEPT ![c] =
           [at |-> "sending", part |-> worker[c].part, todo |-> sessions, live |-> <<>>]]
    /\ UNCHANGED <<ioVars, sessions, session, clientVars, since, sent, dropped, late, answered>>

\* The write takes what does not fit.
SendUnbounded(c) ==
    /\ Sending(c) /\ worker[c].todo # <<>>
    /\ LET p == Head(worker[c].todo)
       IN  /\ session[p] = "reading"
           /\ unread' = IF client[p] = "open" THEN [unread EXCEPT ![p] = @ + 1] ELSE unread
           /\ sent' = [sent EXCEPT ![p] = Append(@, Last(feed))]
           /\ worker' = [worker EXCEPT ![c].todo = Tail(@), ![c].live = Append(@, p)]
    /\ UNCHANGED <<ioVars, sessions, session, cast, client, stalled,
                   feed, since, dropped, late, answered>>

\* The last message is left out.
SentToAllEarly(c) ==
    /\ Sending(c) /\ worker[c].todo = <<>>
    /\ sessions' = worker[c].live
    /\ worker' = [worker EXCEPT ![c] =
           IF worker[c].part + 1 < MessagesOf[c]
           THEN [at |-> "publishing", part |-> worker[c].part + 1]
           ELSE At("answering")]
    /\ UNCHANGED <<ioVars, session, clientVars, histories>>

-----------------------------------------------------------------------------
(* The clients.                                                            *)

\* The client connects, and asks for a command or a live page.
Connect(c) ==
    /\ c \in cast /\ client[c] = "away" /\ io.at = "serving"
    /\ client' = [client EXCEPT ![c] = IF c \in Silent THEN "silent" ELSE "asking"]
    /\ UNCHANGED <<ioVars, worker, sessions, session, cast, stalled, unread, histories>>

\* The page stops reading for good.  One that pauses is one that is slow.
Stall(p) ==
    /\ client[p] = "open" /\ p \notin stalled /\ io.at # "ended"
    /\ stalled' = stalled \cup {p}
    /\ UNCHANGED <<ioVars, worker, sessions, session, cast, client, unread, histories>>

ReadMessage(p) ==
    /\ client[p] = "open" /\ p \notin stalled /\ unread[p] > 0 /\ io.at # "ended"
    /\ unread' = [unread EXCEPT ![p] = @ - 1]
    /\ UNCHANGED <<ioVars, worker, sessions, session, cast, client, stalled, histories>>

\* The client goes away, before it asked or after, or notices that the
\* server has.
Close(c) ==
    /\ c \notin Commands /\ client[c] \in {"silent", "asking", "open"}
    /\ io.at # "ended"
    /\ client' = [client EXCEPT ![c] = IF @ = "silent" THEN "closed" ELSE "left"]
    /\ stalled' = stalled \ {c}
    /\ unread' = [p \in Pages |-> IF p = c THEN 0 ELSE unread[p]]
    /\ UNCHANGED <<ioVars, worker, sessions, session, cast, histories>>

-----------------------------------------------------------------------------
(* The io thread: the accept handler, stop and run.                        *)

\* The handler records the socket, starts the worker and accepts again.
Accept(c) ==
    /\ io.at = "serving" /\ accepting /\ ~stopping
    /\ Pending(c)
    /\ active' = active \cup {c}
    /\ worker' = [worker EXCEPT ![c] = At("reading")]
    /\ UNCHANGED <<io, stopping, accepting, shut, sessions, session, clientVars, histories>>

\* After an error (no file descriptor left, say) the handler does not accept
\* again.
AcceptFails ==
    /\ io.at = "serving" /\ accepting
    /\ \E c \in Connections : Pending(c)
    /\ accepting' = FALSE
    /\ UNCHANGED <<io, stopping, active, shut, worker, sessions, session,
                   clientVars, histories>>

\* ApServer::stop, called by the signal handler or by another thread.
RequestStop ==
    /\ ~stopping
    /\ stopping' = TRUE
    /\ UNCHANGED <<io, accepting, active, shut, worker, sessions, session,
                   clientVars, histories>>

\* The posted handler closes the acceptor; WebSocketBroadcaster::stop takes
\* the list of sessions.
TakeSessions ==
    /\ io.at = "serving" /\ stopping /\ BroadcasterFree
    /\ io' = [at |-> "stopping sessions", todo |-> sessions]
    /\ accepting' = FALSE
    /\ sessions' = <<>>
    /\ UNCHANGED <<stopping, active, shut, worker, session, clientVars, histories>>

\* Session::stop
StopSession ==
    /\ io.at = "stopping sessions" /\ io.todo # <<>>
    /\ shut' = shut \cup {Head(io.todo)}
    /\ io' = [io EXCEPT !.at = "joining session"]
    /\ UNCHANGED <<stopping, accepting, active, worker, sessions, session,
                   clientVars, histories>>

\* Session::join, which does not wait for a thread that is not there yet.
JoinSession ==
    /\ io.at = "joining session"
    /\ session[Head(io.todo)] \in {"unstarted", "done"}
    /\ io' = [at |-> "stopping sessions", todo |-> Tail(io.todo)]
    /\ UNCHANGED <<stopping, accepting, active, shut, worker, sessions, session,
                   clientVars, histories>>

\* The sockets that workers still have are shut down; a socket that moved
\* into a session is none of them.  The io context stops, and run goes on to
\* the joins.
CloseSockets ==
    /\ io.at = "stopping sessions" /\ io.todo = <<>>
    /\ shut' = shut \cup {c \in active : worker[c].at \in WithSocket}
    /\ active' = {}
    /\ io' = At("joining workers")
    /\ UNCHANGED <<stopping, accepting, worker, sessions, session, clientVars, histories>>

\* cleanup_workers
JoinWorkers ==
    /\ io.at = "joining workers"
    /\ \A c \in Connections : worker[c].at \in {"none", "done"}
    /\ io' = At("ended")
    /\ UNCHANGED <<stopping, accepting, active, shut, worker, sessions, session,
                   clientVars, histories>>

-----------------------------------------------------------------------------
(* A worker thread: handle_connection.                                     *)

\* A request that arrived is read even if its client left.
ReadRequest(c) ==
    /\ worker[c].at = "reading" /\ client[c] \in {"asking", "left"} /\ c \notin shut
    /\ worker' = [worker EXCEPT ![c] = At(IF c \in Pages THEN "adding" ELSE "submitting")]
    /\ UNCHANGED <<ioVars, sessions, session, clientVars, histories>>

ReadFails(c) ==
    /\ worker[c].at = "reading" /\ (Gone(c) \/ c \in shut)
    /\ worker' = [worker EXCEPT ![c] = At("done")]
    /\ active' = active \ {c}
    /\ UNCHANGED <<io, stopping, accepting, shut, sessions, session, clientVars, histories>>

\* add_session
AddSession(p) ==
    /\ worker[p].at = "adding" /\ BroadcasterFree
    /\ sessions' = Append(sessions, p)
    /\ session' = [session EXCEPT ![p] = "unstarted"]
    /\ worker' = [worker EXCEPT ![p] = At("starting")]
    /\ since' = [since EXCEPT ![p] = Len(feed)]
    /\ late' = IF io.at = "serving" THEN late ELSE late \cup {p}
    /\ UNCHANGED <<ioVars, clientVars, feed, sent, dropped, answered>>

StartSession(p) ==
    /\ worker[p].at = "starting"
    /\ session' = [session EXCEPT ![p] = "accepting"]
    /\ worker' = [worker EXCEPT ![p] = At("done")]
    /\ active' = active \ {p}
    /\ UNCHANGED <<io, stopping, accepting, shut, sessions, clientVars, histories>>

\* The runtime takes its mutex, accepts the event and calls the broadcaster.
Submit(c) ==
    /\ worker[c].at = "submitting" /\ RuntimeFree(RuntimeOf[c])
    /\ worker' = [worker EXCEPT ![c] = [at |-> "publishing", part |-> 1]]
    /\ UNCHANGED <<ioVars, sessions, session, clientVars, histories>>

\* publish_message takes the broadcaster's mutex.
TakeUp(c) ==
    /\ worker[c].at = "publishing" /\ BroadcasterFree
    /\ feed' = Append(feed, Message(c, worker[c].part))
    /\ worker' = [worker EXCEPT ![c] =
           [at |-> "sending", part |-> worker[c].part, todo |-> sessions, live |-> <<>>]]
    /\ UNCHANGED <<ioVars, sessions, session, clientVars, since, sent, dropped, late, answered>>

\* Session::send puts the message into the buffers of the connection, and
\* waits while they are full.  To a page that went away it may still succeed.
Send(c) ==
    /\ Sending(c) /\ worker[c].todo # <<>>
    /\ LET p == Head(worker[c].todo)
       IN  /\ session[p] = "reading" /\ unread[p] < BufferSize
           /\ unread' = IF client[p] = "open" THEN [unread EXCEPT ![p] = @ + 1] ELSE unread
           /\ sent' = [sent EXCEPT ![p] = Append(@, Last(feed))]
           /\ worker' = [worker EXCEPT ![c].todo = Tail(@), ![c].live = Append(@, p)]
    /\ UNCHANGED <<ioVars, sessions, session, cast, client, stalled,
                   feed, since, dropped, late, answered>>

\* It fails before the handshake is done, after the session's thread found
\* the stream closed, and to a page that went away.
SendFails(c) ==
    /\ Sending(c) /\ worker[c].todo # <<>>
    /\ LET p == Head(worker[c].todo)
       IN  /\ session[p] # "reading" \/ Gone(p)
           /\ dropped' = IF session[p] \in {"unstarted", "accepting"}
                         THEN dropped \cup {p} ELSE dropped
    /\ worker' = [worker EXCEPT ![c].todo = Tail(@)]
    /\ UNCHANGED <<ioVars, sessions, session, clientVars, feed, since, sent, late, answered>>

\* Message n is out: the next one, or out of the runtime.
After(c, n) ==
    IF n < MessagesOf[c] THEN [at |-> "publishing", part |-> n + 1] ELSE At("answering")

\* The sessions that failed are dropped.
SentToAll(c) ==
    /\ Sending(c) /\ worker[c].todo = <<>>
    /\ sessions' = worker[c].live
    /\ worker' = [worker EXCEPT ![c] =
           IF @.part \in AsksAfter[c] THEN [at |-> "consulting", part |-> @.part]
           ELSE After(c, @.part)]
    /\ UNCHANGED <<ioVars, session, clientVars, histories>>

\* find_room_by_battle_id and make_player_status_json ask the other runtime,
\* and come back when its mutex is free.
Consult(c) ==
    /\ worker[c].at = "consulting" /\ OthersFree(RuntimeOf[c])
    /\ worker' = [worker EXCEPT ![c] = After(c, @.part)]
    /\ UNCHANGED <<ioVars, sessions, session, clientVars, histories>>

\* The response cannot be written to a socket that stop has closed.
Answer(c) ==
    /\ worker[c].at = "answering"
    /\ answered' = IF c \in shut THEN answered ELSE answered \cup {c}
    /\ worker' = [worker EXCEPT ![c] = At("done")]
    /\ active' = active \ {c}
    /\ UNCHANGED <<io, stopping, accepting, shut, sessions, session, clientVars,
                   feed, since, sent, dropped, late>>

-----------------------------------------------------------------------------
(* A session's thread: Session::run.                                       *)

Handshake(p) ==
    /\ session[p] = "accepting" /\ client[p] \in {"asking", "left"} /\ p \notin shut
    /\ session' = [session EXCEPT ![p] = "reading"]
    /\ client' = [client EXCEPT ![p] = IF @ = "asking" THEN "open" ELSE @]
    /\ UNCHANGED <<ioVars, worker, sessions, cast, stalled, unread, histories>>

\* The handshake or a read fails.
SessionEnds(p) ==
    /\ session[p] \in {"accepting", "reading"}
    /\ Gone(p) \/ p \in shut
    /\ session' = [session EXCEPT ![p] = "done"]
    /\ UNCHANGED <<ioVars, worker, sessions, clientVars, histories>>

-----------------------------------------------------------------------------
Clients ==
    \/ \E c \in Connections : Connect(c) \/ Close(c)
    \/ \E p \in Pages : Stall(p) \/ ReadMessage(p)

Stopping == TakeSessions \/ StopSession \/ JoinSession \/ CloseSockets \/ JoinWorkers

IoThread == Stopping \/ AcceptFails \/ RequestStop \/ \E c \in Connections : Accept(c)

PageWorker(p) == ReadRequest(p) \/ ReadFails(p) \/ AddSession(p) \/ StartSession(p)

SilentWorker(c) == ReadFails(c)

CommandWorker(c) ==
    \/ ReadRequest(c) \/ ReadFails(c)
    \/ Submit(c) \/ TakeUp(c) \/ Send(c) \/ SendFails(c) \/ SentToAll(c) \/ Consult(c)
    \/ Answer(c)

SessionThread(p) == Handshake(p) \/ SessionEnds(p)

Next ==
    \/ Clients
    \/ IoThread
    \/ \E p \in Pages : PageWorker(p) \/ SessionThread(p)
    \/ \E c \in Commands : CommandWorker(c)
    \/ \E c \in Silent : SilentWorker(c)

\* Every thread of the server runs on, and a page that is not stalled for
\* good reads.  No client has to connect or close, nobody has to stop the
\* server, and it need not fail to accept.
Fairness ==
    /\ WF_vars(Stopping)
    /\ WF_vars(\E c \in Connections : Accept(c))
    /\ \A p \in Pages :
        /\ WF_vars(PageWorker(p)) /\ WF_vars(SessionThread(p))
        /\ WF_vars(ReadMessage(p))
    /\ \A c \in Commands : WF_vars(CommandWorker(c))
    /\ \A c \in Silent : WF_vars(SilentWorker(c))

Spec == Init /\ [][Next]_vars /\ Fairness

-----------------------------------------------------------------------------
\* The sender of the message under way, if there is one, is past p or has p
\* still before it; otherwise what counts is the list.
Listed(p) ==
    IF BroadcasterFree THEN p \in Range(sessions)
    ELSE \E c \in Commands : Sending(c) /\ p \in Range(worker[c].todo) \cup Range(worker[c].live)

Subscribed(p) == session[p] # "none"

TheFeed == INSTANCE Feed WITH
    Subscribers <- Pages,
    Messages <- Messages,
    standing <- [p \in Pages |->
                    IF ~Subscribed(p) THEN "new" ELSE IF Listed(p) THEN "served" ELSE "cut"],
    got <- sent

\* The threads, the mutex and the list of sessions give every subscriber a
\* gapless piece of one feed, whatever connects, stalls, closes or stops in
\* between.
ImplementsFeed == TheFeed!Spec

\* The messages of a command come together: none of another command of the
\* same runtime is between them, for the runtime keeps its mutex through
\* publish_room_updated or publish_accepted_event.
UpdatesComeWhole ==
    \A i, j, k \in DOMAIN feed :
        i < j /\ j < k /\ feed[i][1] = feed[k][1]
            /\ RuntimeOf[feed[j][1]] = RuntimeOf[feed[i][1]]
        => feed[j][1] = feed[i][1]

\* An open page is served to the end of the feed: whenever no message is under
\* way, before the stop, it has been sent all of the feed since it was added,
\* unless it was dropped before it was open.
OpenPagesAreServed ==
    BroadcasterFree /\ io.at = "serving" =>
        \A p \in Pages :
            client[p] = "open" /\ p \notin dropped =>
                p \in Range(sessions) /\ since[p] + Len(sent[p]) = Len(feed)

\* What a client was told is accepted has been sent to every page in the list
\* (the emission comes before the response).
AnsweredIsSent ==
    \A c \in answered : \A k \in 1..MessagesOf[c] :
        \E i \in DOMAIN feed :
            /\ feed[i] = Message(c, k)
            /\ \A p \in Pages :
                Subscribed(p) /\ Listed(p) /\ since[p] < i => since[p] + Len(sent[p]) >= i

\* When run returns no page that could be reached is left with a live thread.
\* Out of reach are a session added after the stop took the list, and one
\* dropped from the list before it was open.
StopReachesPages ==
    io.at = "ended" =>
        \A p \in Pages :
            client[p] = "open" /\ p \notin late /\ p \notin dropped =>
                session[p] = "done"

\* A write waits for a page that has stopped reading: the server itself sets
\* no limit to how long.
HeldUp ==
    \E c \in Commands :
        /\ Sending(c) /\ worker[c].todo # <<>>
        /\ Head(worker[c].todo) \in stalled /\ unread[Head(worker[c].todo)] = BufferSize

\* Two commands wait for each other's runtime (server.cpp:528 and :596).
CrossedWait ==
    \E c, d \in Commands :
        /\ worker[c].at = "consulting" /\ worker[d].at = "consulting"
        /\ RuntimeOf[c] # RuntimeOf[d]

\* The server will not read the request: it is past accepting, or has shut
\* the socket down.
TurnedAway(c) == c \in shut \/ (worker[c].at = "none" /\ ~accepting)

\* If no write waits for ever for a page, a command is answered, unless the
\* server stops or has stopped accepting after an error, or two commands come
\* to wait for each other's runtime: nothing else keeps it from its answer
\* (handle_connection, submit_event, publish_message).
CommandsAnswered ==
    []<>~HeldUp =>
        \A c \in Commands :
            client[c] = "asking" ~> (c \in answered \/ TurnedAway(c) \/ CrossedWait)

\* If no write waits for ever for a page, a stop comes to its end, whatever
\* connects or is connected, unless two commands come to wait for each other's
\* runtime, whose threads cleanup_workers would then join for ever: no silent
\* client, half-open page or single command keeps run from returning.
StopEnds == []<>~HeldUp => (stopping ~> (io.at = "ended" \/ CrossedWait))

=============================================================================
