---------------------------- MODULE EventRuntime ----------------------------
(***************************************************************************)
(* An event runtime of apd over its store: clients post events and retry   *)
(* them, submit_event decides, appends, commits, publishes and answers     *)
(* while it holds the runtime's mutex, the process is killed at any point  *)
(* and started again, and main replays the log before it serves.           *)
(*                                                                         *)
(* The mutex is call.at # "free": one submit_event at a time, the others   *)
(* wait and change nothing.                                                *)
(***************************************************************************)
EXTENDS RuntimeRules

CONSTANTS
    Events,         \* the events clients post, again and again
    Streams,        \* the battles or rooms they name
    AppendFaults,   \* what a failing append may leave behind, see TornLine
    MaxCrashes      \* bound on the crashes of one behaviour

ASSUME EventsAssumption ==
    /\ \A e \in Events : e.stream \in Streams /\ e.seq \in Nat
    /\ AppendFaults \subseteq {"nothing", "prefix", "unterminated"}
    /\ MaxCrashes \in Nat

VARIABLES
    memory,      \* the runtime's maps
    files,       \* the log file of each stream
    call,        \* the submit_event in progress: how far it is, its event
    server,      \* "up", "down", or "refused": main returned 1 at replay
    published,   \* history: the records sent to the live clients, in order
    acked,       \* history: events answered accepted or duplicate
    crashes      \* history: crashes so far

vars == <<memory, files, call, server, published, acked, crashes>>

NoCall == [at |-> "free"]
InCall(at, e) == [at |-> at, event |-> e]

Init ==
    /\ memory = NoMemory
    /\ files = [s \in Streams |-> NoFile]
    /\ call = NoCall
    /\ server = "up"
    /\ published = <<>>
    /\ acked = {}
    /\ crashes = 0

-----------------------------------------------------------------------------
(* Faulty variants of actions below, one slip each.                        *)

IgnoreFailedAppend ==
    /\ call.at = "append"
    /\ \E fault \in AppendFaults :
        files' = [files EXCEPT ![call.event.stream] =
                      TornLine(@, RecordOf(memory, call.event), fault)]
    /\ call' = InCall("stored", call.event)
    /\ UNCHANGED <<memory, server, published, acked, crashes>>

-----------------------------------------------------------------------------
(* submit_event, one action per step that another process can see.         *)

\* The mutex is taken; the event is refused, or recognised as one accepted
\* before, and answered, or goes on to the store.
Submit(e) ==
    /\ server = "up" /\ call = NoCall
    /\ \/ /\ Verdict(memory, e) = "accepted"
          /\ call' = InCall("append", e)
          /\ UNCHANGED acked
       \/ /\ Verdict(memory, e) = "duplicate"
          /\ acked' = acked \cup {e}
          /\ UNCHANGED call
    /\ UNCHANGED <<memory, files, server, published, crashes>>

Store ==
    /\ call.at = "append"
    /\ files' = [files EXCEPT ![call.event.stream] =
                     AppendLine(@, RecordOf(memory, call.event))]
    /\ call' = InCall("stored", call.event)
    /\ UNCHANGED <<memory, server, published, acked, crashes>>

\* The append fails: StorageFailed is the answer, nothing is committed.
FailStore ==
    /\ call.at = "append"
    /\ \E fault \in AppendFaults :
        files' = [files EXCEPT ![call.event.stream] =
                      TornLine(@, RecordOf(memory, call.event), fault)]
    /\ call' = NoCall
    /\ UNCHANGED <<memory, server, published, acked, crashes>>

CommitEvent ==
    /\ call.at = "stored"
    /\ memory' = Commit(memory, call.event)
    /\ call' = InCall("committed", call.event)
    /\ UNCHANGED <<files, server, published, acked, crashes>>

Publish ==
    /\ call.at = "committed"
    /\ published' = Append(published, [event |-> call.event, acc |-> memory.acc])
    /\ call' = InCall("published", call.event)
    /\ UNCHANGED <<memory, files, server, acked, crashes>>

\* submit_event returns Accepted: the mutex is free and the client hears of it.
Answer ==
    /\ call.at = "published"
    /\ acked' = acked \cup {call.event}
    /\ call' = NoCall
    /\ UNCHANGED <<memory, files, server, published, crashes>>

-----------------------------------------------------------------------------
\* The process dies: its memory, and the answer it had not given, are gone.
\* An append in progress leaves what a failing one may leave.
Crash ==
    /\ server = "up" /\ crashes < MaxCrashes
    /\ server' = "down"
    /\ memory' = NoMemory
    /\ call' = NoCall
    /\ crashes' = crashes + 1
    /\ \/ UNCHANGED files
       \/ /\ call.at = "append"
          /\ \E fault \in AppendFaults :
                files' = [files EXCEPT ![call.event.stream] =
                              TornLine(@, RecordOf(memory, call.event), fault)]
    /\ UNCHANGED <<published, acked>>

\* main: read_all, replay, and only then serve.
Restart ==
    /\ server = "down" /\ Readable(files)
    /\ \E o \in ReadOrders(Durable(files)) :
        /\ ReplayAccepts(o)
        /\ memory' = Replayed(o)
    /\ server' = "up"
    /\ UNCHANGED <<files, call, published, acked, crashes>>

\* main: the log cannot be read, or an event of it is refused; exit status 1.
RefuseToStart ==
    /\ server = "down"
    /\ ~ (/\ Readable(files)
          /\ \A o \in ReadOrders(Durable(files)) : ReplayAccepts(o))
    /\ server' = "refused"
    /\ UNCHANGED <<memory, files, call, published, acked, crashes>>

Next ==
    \/ \E e \in Events : Submit(e)
    \/ Store \/ FailStore \/ CommitEvent \/ Publish \/ Answer
    \/ Crash \/ Restart \/ RefuseToStart

Spec == Init /\ [][Next]_vars

-----------------------------------------------------------------------------
Records == [event : Events, acc : Nat \ {0}]

\* Memory, files and the call in progress keep their shape; a call only exists
\* while the server is up, and its event is one the runtime had not accepted.
TypeOK ==
    /\ IsMap(memory.accepted, {e.id : e \in Events}, Events)
    /\ IsMap(memory.latest, {e.source : e \in Events}, Nat)
    /\ memory.acc \in Nat
    /\ DOMAIN files = Streams /\ Durable(files) \subseteq Records
    /\ \/ call = NoCall
       \/ /\ server = "up" /\ call.event \in Events
          /\ call = InCall(call.at, call.event)
          /\ call.at \in {"append", "stored", "committed", "published"}
    /\ server \in {"up", "down", "refused"}
    /\ published \in Seq(Records)
    /\ acked \subseteq Events
    /\ crashes \in 0 .. MaxCrashes

\* apps/rfd/0001: "Duplicate events must not apply game effects twice".  No two
\* records of the log carry one event id, through retries of an event whose
\* answer was lost, failed appends and restarts.
ExactlyOnce ==
    \A r1, r2 \in Durable(files) : r1.event.id = r2.event.id => r1 = r2

\* Records are numbered apart, and the events of one source stand in the log
\* in the order of their sequence numbers, over all battles or rooms.
SourceOrder ==
    \A r1, r2 \in Durable(files) : r1 # r2 =>
        /\ r1.acc # r2.acc
        /\ r1.event.source = r2.event.source =>
               (r1.acc < r2.acc <=> r1.event.seq < r2.event.seq)

\* While no event is between the store and the commit, the runtime remembers
\* exactly what a restart would rebuild from the log: after a restart the same
\* events are duplicates, stale or acceptable as before it.
MemoryIsReplay ==
    server = "up" /\ call.at # "stored" =>
        \A o \in ReadOrders(Durable(files)) : memory = Replayed(o)

\* apps/rfd/0002: "If persistence fails, clients must not see an event as
\* accepted".  What was answered accepted or duplicate, and what was published,
\* is in the log.
SeenIsDurable ==
    /\ \A e \in acked : \E r \in Durable(files) : r.event = e
    /\ \A i \in DOMAIN published : published[i] \in Durable(files)

\* Live clients get each event at most once, in the order of the log.
PublishedInOrder ==
    \A i, j \in DOMAIN published : i < j => published[i].acc < published[j].acc

\* With a log that can be torn: a server that is up has lost nothing that a
\* client or a page was told of.  A log it cannot make out stops it instead.
\* The one exception is an event whose id another event has, which was answered
\* as failed but whose record the append had left in the log all the same.
UpMeansNothingLost ==
    server = "up" =>
        \A e \in acked \cup {published[i].event : i \in DOMAIN published} :
            \/ Known(memory, e) /\ memory.accepted[e.id] = e
            \/ \E r \in Durable(files) : r.event.id = e.id /\ r.event # e

\* apps/rfd/0001: "Duplicate events must not apply game effects twice".  With a
\* log that can be torn: an event answered as failed may be in the log, and its
\* retry is written again, but no log that a restart can read holds it twice.
NeverReplayedTwice ==
    Readable(files) =>
        \A r1, r2 \in Durable(files) : r1.event = r2.event => r1 = r2

\* docs/minimal-run.md: "On startup, fenghuo-apd replays accepted JSONL
\* records".  What the runtime wrote, it can read and replay.
RestartSucceeds == server # "refused"

\* The events of the log, as read_all would return them.
DurableLog ==
    LET o == CHOOSE x \in ReadOrders(Durable(files)) : TRUE
    IN  [i \in DOMAIN o |-> o[i].event]

Promised == INSTANCE AcceptedLog WITH log <- DurableLog

\* Verdicts taken from memory, appends, failures, crashes and replays add up to
\* the append-only log of AcceptedLog: the store's append is where an event is
\* accepted, and every other step leaves the log alone.
ImplementsAcceptedLog == Promised!Spec

=============================================================================
