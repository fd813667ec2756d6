---------------------------- MODULE RuntimeRules ----------------------------
(***************************************************************************)
(* What ApRuntime and RoomRuntime decide and remember, and what the JSONL  *)
(* stores under them keep.  The two runtimes are one algorithm over two    *)
(* reducers (src/src/ap_runtime/runtime.cpp, src/src/room_runtime/         *)
(* runtime.cpp, src/src/storage/jsonl_event_store.cpp); the reducer is a   *)
(* parameter here.                                                         *)
(*                                                                         *)
(* An event is a record [id, source, seq, stream, body]: its event_id, its *)
(* source_id and sequence, the battle or room it names, and what it does.  *)
(* Two events have the same canonical_json iff they are the same record.   *)
(***************************************************************************)
EXTENDS Integers, FiniteSets, SequencesExt, Maps

CONSTANTS
    NewStream,      \* the state of a battle or room before its first event
    Accepts(_, _),  \* the reducer: does the state accept the body ...
    Apply(_, _)     \* ... and what state does it leave

\* A runtime that has accepted nothing: battles_ or rooms_, accepted_events_,
\* latest_sequence_by_source_ and acceptance_sequence_.
NoMemory == [streams |-> EmptyMap, accepted |-> EmptyMap,
             latest |-> EmptyMap, acc |-> 0]

StreamState(m, s) == IF s \in DOMAIN m.streams THEN m.streams[s] ELSE NewStream

Known(m, e) == e.id \in DOMAIN m.accepted

NoFile == [records |-> {}, open |-> FALSE, spoiled |-> FALSE]

-----------------------------------------------------------------------------
(* Faulty variants of definitions below, one slip each.                    *)

StaleIfOlder(m, e) == e.source \in DOMAIN m.latest /\ e.seq < m.latest[e.source]

VerdictById(m, e) ==
    CASE Known(m, e) -> "duplicate"
      [] e.source \in DOMAIN m.latest /\ e.seq <= m.latest[e.source] -> "rejected"
      [] ~Accepts(StreamState(m, e.stream), e.body) -> "rejected"
      [] OTHER -> "accepted"

VerdictWithoutIds(m, e) ==
    CASE e.source \in DOMAIN m.latest /\ e.seq <= m.latest[e.source] -> "rejected"
      [] ~Accepts(StreamState(m, e.stream), e.body) -> "rejected"
      [] OTHER -> "accepted"

CommitSameNumber(m, e) ==
    [streams |-> Put(m.streams, e.stream, Apply(StreamState(m, e.stream), e.body)),
     accepted |-> PutNew(m.accepted, e.id, e),
     latest |-> Put(m.latest, e.source, e.seq),
     acc |-> m.acc]

CommitNewStreamOnly(m, e) ==
    [streams |-> PutNew(m.streams, e.stream, Apply(StreamState(m, e.stream), e.body)),
     accepted |-> PutNew(m.accepted, e.id, e),
     latest |-> Put(m.latest, e.source, e.seq),
     acc |-> m.acc + 1]

ReplayedForgetsSources(o) ==
    [streams |-> [s \in {o[i].event.stream : i \in DOMAIN o} |->
                     FoldLeft(LAMBDA state, rec :
                                  IF rec.event.stream = s
                                  THEN Apply(state, rec.event.body) ELSE state,
                              NewStream, o)],
     accepted |-> [id \in {o[i].event.id : i \in DOMAIN o} |->
                      o[CHOOSE i \in DOMAIN o : o[i].event.id = id].event],
     latest |-> EmptyMap,
     acc |-> IF o = <<>> THEN 0 ELSE o[Len(o)].acc]

RecordOfLast(m, e) == [event |-> e, acc |-> m.acc]

\* The record always gets a line of its own: a cure of the torn line.
AppendLineAfresh(file, rec) ==
    [file EXCEPT !.records = @ \cup {rec}, !.open = FALSE]

ReadableSkippingBadLines(files) == DOMAIN files = DOMAIN files

-----------------------------------------------------------------------------
\* A sequence number the source has reached already.
Stale(m, e) == e.source \in DOMAIN m.latest /\ e.seq <= m.latest[e.source]

\* submit_event up to the append: the status it will return unless the store
\* fails.
Verdict(m, e) ==
    CASE Known(m, e) -> IF m.accepted[e.id] = e THEN "duplicate" ELSE "rejected"
      [] ~Known(m, e) /\ Stale(m, e) -> "rejected"
      [] ~Known(m, e) /\ ~Stale(m, e) ->
            IF Accepts(StreamState(m, e.stream), e.body) THEN "accepted"
            ELSE "rejected"

\* The record submit_event has the store append.
RecordOf(m, e) == [event |-> e, acc |-> m.acc + 1]

\* submit_event after the append.
Commit(m, e) ==
    [streams |-> Put(m.streams, e.stream, Apply(StreamState(m, e.stream), e.body)),
     accepted |-> PutNew(m.accepted, e.id, e),
     latest |-> Put(m.latest, e.source, e.seq),
     acc |-> m.acc + 1]

-----------------------------------------------------------------------------
(* A file <stream>.jsonl: the records that stand on a line of their own,   *)
(* whether the last line is still without its newline, and whether some    *)
(* line is not a record.                                                   *)

\* append: the line goes to the end of the file, whatever is there.
AppendLine(file, rec) ==
    IF file.open THEN [file EXCEPT !.open = FALSE, !.spoiled = TRUE]
    ELSE [file EXCEPT !.records = @ \cup {rec}]

\* What an append that fails, or that a crash cuts short, leaves behind:
\* nothing, the beginning of the line, or all of it but the newline.
TornLine(file, rec, fault) ==
    CASE fault = "nothing" -> file
      [] fault = "prefix" -> [file EXCEPT !.open = TRUE, !.spoiled = TRUE]
      [] fault = "unterminated" ->
            IF file.open THEN [file EXCEPT !.spoiled = TRUE]
            ELSE [file EXCEPT !.records = @ \cup {rec}, !.open = TRUE]

Durable(files) == UNION {files[s].records : s \in DOMAIN files}

\* read_all fails on a line it cannot parse ...
Readable(files) == \A s \in DOMAIN files : ~files[s].spoiled

\* ... and sorts what it read by acceptance_sequence, ties in any order.
ReadOrders(records) ==
    {o \in SetToSeqs(records) :
        \A i, j \in DOMAIN o : i < j => o[i].acc <= o[j].acc}

-----------------------------------------------------------------------------
\* The event of the last of some records of a sequence.
LastOf(o, positions) == o[Max(positions)].event

\* What replay makes of stream s, record after record.
StreamStates(o, s) ==
    LET after[n \in 0 .. Len(o)] ==
            IF n = 0 THEN NewStream
            ELSE IF o[n].event.stream = s THEN Apply(after[n - 1], o[n].event.body)
            ELSE after[n - 1]
    IN  after

StreamAfter(o, s) == StreamStates(o, s)[Len(o)]

\* replay stops at the first record its reducer does not accept.
ReplayAccepts(o) ==
    \A i \in DOMAIN o :
        Accepts(StreamAfter(SubSeq(o, 1, i - 1), o[i].event.stream), o[i].event.body)

\* replay, record after record: later records overwrite earlier ones.
Replayed(o) ==
    [streams |-> [s \in {o[i].event.stream : i \in DOMAIN o} |-> StreamAfter(o, s)],
     accepted |-> [id \in {o[i].event.id : i \in DOMAIN o} |->
                      LastOf(o, {i \in DOMAIN o : o[i].event.id = id})],
     latest |-> [src \in {o[i].event.source : i \in DOMAIN o} |->
                    LastOf(o, {i \in DOMAIN o : o[i].event.source = src}).seq],
     acc |-> IF o = <<>> THEN 0 ELSE o[Len(o)].acc]

=============================================================================
