----------------------------- MODULE EventJournal -----------------------------
(***************************************************************************)
(* The journal of the conversation: ConversationService writes events and    *)
(* messages (emitPipelineEvent, flushPendingDeltaLog, the throttling of tool  *)
(* progress), ChatPersistenceService stores them and takes over the files of  *)
(* older versions, and tmagent-log searches and follows them (LogQueryEngine, *)
(* LogRecordSupport, LogFollower).                                           *)
(*                                                                         *)
(* One process writes; two writes that are not made together have times a     *)
(* reader can tell apart.                                                   *)
(***************************************************************************)
EXTENDS Naturals, Sequences, FiniteSets, SequencesExt

CONSTANTS
    Turns,      \* 1..n, the turns of the session in the order they are queued
    Tools,      \* tool calls
    Digests,    \* what a progress report says, without its layout
    Legacy,     \* the lines of the events-*.jsonl files, oldest first: records as Event makes
    Filters,    \* filters of a search: [type, level], "" for any
    Followed,   \* the filter of the follower
    Limit,      \* --limit
    PollLimit,  \* LIMIT of a poll: 200
    MaxChunks,  \* bound: pieces of a reply
    MaxRows,    \* bound: rows of the journal
    MaxStart,   \* bound: rows there when the follower starts
    MaxFailed   \* bound: inserts that fail

VARIABLES
    up,         \* the program runs
    queue,      \* turns that wait
    active,     \* the active turn, 0 for none
    pending,    \* pendingDeltaLog, as the pieces it is made of
    progress,   \* m_toolProgressLastDigestByKey of the active turn: a function on some Tools
    calls,      \* tool calls of the active turn: "none", "started" or "completed"
    verbose,    \* TMAGENT_LOG_STREAM_EVENTS_VERBOSE
    events,     \* table events, by id
    messages,   \* table messages, by row id
    marker,     \* app_state legacyEventsImported: "", "done" or "skipped"
    following,  \* the follower runs
    followed,   \* [start, anchor, printed]
    streamed,   \* history: per turn, the pieces it received
    shown,      \* history: per tool call, the last progress reported in the active turn
    failed      \* history: turns an insert has failed for

writer == <<queue, active, pending, progress, calls, streamed, shown>>
store == <<events, messages, marker, failed>>
readers == <<following, followed>>
vars == <<up, verbose, writer, store, readers>>

Types == {"turn_started", "turn_delta", "turn_delta_batch", "turn_tool_calls_started",
          "turn_tool_event", "turn_completed", "turn_failed", "turn_recovered",
          "turn_cancelled", "text", "tool_result"}
Levels == {"error", "info"}

----------------------------------------------------------------------------
(* Rows.  success is TRUE, FALSE or "none".                                 *)

Event(turn, type, chunks, tool, status, digest, success) ==
    [turn |-> turn, type |-> type, chunks |-> chunks, tool |-> tool, status |-> status,
     digest |-> digest, success |-> success]
Plain(turn, type) == Event(turn, type, <<>>, "", "", "", "none")

\* extractLevel of the writer, stored in the row, and of the reader, which has the raw
\* event; no event of this version carries a level of its own.
FailedTool(e) == e.type = "turn_tool_event" /\ e.success = FALSE
NamesFailure(e) == e.type = "turn_failed"
ExtractLevel(e) == IF FailedTool(e) \/ NamesFailure(e) THEN "error" ELSE "info"
MessageLevel(m) == IF m.type = "tool_result" /\ m.success = FALSE THEN "error" ELSE "info"

\* normalizeStoredEventLevel
NormalizedLevel(row) ==
    IF FailedTool(row.event) \/ NamesFailure(row.event) THEN "error" ELSE row.level

\* timestamp_ms; old rows are older than all others
Now == 1 + Len(events) + Len(messages)
Row(e, at) == [event |-> e, level |-> ExtractLevel(e), at |-> at]
Message(turn, type, success) == [turn |-> turn, type |-> type, success |-> success, at |-> Now]

TypeOK ==
    /\ up \in BOOLEAN /\ verbose \in BOOLEAN
    /\ queue \in Seq(Turns) /\ active \in Turns \cup {0}
    /\ pending \in Seq(1..MaxChunks)
    /\ \A t \in Turns : streamed[t] \in Seq(1..MaxChunks)
    /\ DOMAIN progress \subseteq Tools
    /\ calls \in [Tools -> {"none", "started", "completed"}]
    /\ \A i \in DOMAIN events :
          events[i].event.type \in Types /\ events[i].level \in Levels
    /\ \A i \in DOMAIN messages : messages[i].turn \in Turns
    /\ marker \in {"", "done", "skipped"}
    /\ following \in BOOLEAN
    /\ followed.start <= followed.anchor /\ followed.anchor <= Len(events)
    /\ failed \subseteq Turns

Init ==
    /\ up = FALSE /\ verbose \in BOOLEAN
    /\ queue = SetToSortSeq(Turns, <) /\ active = 0
    /\ pending = <<>> /\ progress = <<>> /\ calls = [k \in Tools |-> "none"]
    /\ events = <<>> /\ messages = <<>> /\ marker = ""
    /\ following = FALSE
    /\ followed = [start |-> 0, anchor |-> 0, printed |-> <<>>]
    /\ streamed = [t \in Turns |-> <<>>] /\ shown = [k \in Tools |-> ""]
    /\ failed = {}

----------------------------------------------------------------------------
(* Writing.                                                                *)

\* insertEventToDb for events that are written one after the other; an insert may fail,
\* and the caller goes on.
Insert(new) ==
    \/ /\ Len(events) + Len(new) <= MaxRows
       /\ events' = events \o [i \in DOMAIN new |-> Row(new[i], Now)]
       /\ UNCHANGED failed
    \/ /\ new # <<>> /\ Cardinality(failed) < MaxFailed
       /\ failed' = failed \cup {new[i].turn : i \in DOMAIN new}
       /\ UNCHANGED events

\* flushPendingDeltaLog: the pieces of the active turn as one event.
Batch ==
    IF verbose \/ pending = <<>> THEN <<>>
    ELSE <<Event(active, "turn_delta_batch", pending, "", "", "", "none")>>

\* loadSessionsFromDisk takes over the old files, once.  The transaction is committed or
\* not; the process may die before it, or between it and the marker.  Equal lines are
\* stored once.
Imported ==
    FoldLeft(LAMBDA rows, e :
                IF \E r \in ToSet(events) \cup ToSet(rows) : r.event = e THEN rows
                ELSE Append(rows, Row(e, 0)),
             <<>>, Legacy)

Start ==
    /\ ~up
    /\ \/ /\ marker # "" /\ up' = TRUE /\ UNCHANGED <<events, marker>>
       \/ /\ marker = ""
          /\ \/ up' = TRUE /\ events' = events \o Imported /\ marker' = "done"
             \/ up' = FALSE /\ events' = events \o Imported /\ UNCHANGED marker
             \/ /\ up' = TRUE /\ UNCHANGED events
                /\ marker' = IF events # <<>> THEN "skipped" ELSE ""
    /\ UNCHANGED <<verbose, writer, messages, failed, readers>>

Crash ==
    /\ up /\ up' = FALSE
    /\ active' = 0 /\ pending' = <<>> /\ progress' = <<>>
    /\ calls' = [k \in Tools |-> "none"] /\ shown' = [k \in Tools |-> ""]
    /\ failed' = IF active = 0 THEN failed ELSE failed \cup {active}
    /\ UNCHANGED <<verbose, queue, streamed, events, messages, marker, readers>>

\* startNextTurn
Begin(rest) ==
    /\ active' = IF rest = <<>> THEN 0 ELSE Head(rest)
    /\ queue' = IF rest = <<>> THEN <<>> ELSE Tail(rest)
    /\ pending' = <<>> /\ progress' = <<>>
    /\ calls' = [k \in Tools |-> "none"] /\ shown' = [k \in Tools |-> ""]
Started(rest) == IF rest = <<>> THEN <<>> ELSE <<Plain(Head(rest), "turn_started")>>

StartTurn ==
    /\ up /\ active = 0 /\ queue # <<>>
    /\ Begin(queue)
    /\ Insert(Started(queue))
    /\ UNCHANGED <<up, verbose, streamed, messages, marker, readers>>

\* onRuntimeStreamData: due when the time, the characters or the pieces since the last
\* flush are enough.
StreamData ==
    /\ up /\ active # 0 /\ Len(streamed[active]) < MaxChunks
    /\ LET piece == Len(streamed[active]) + 1
           batch == Event(active, "turn_delta_batch", Append(pending, piece), "", "", "", "none")
       IN /\ streamed' = [streamed EXCEPT ![active] = Append(@, piece)]
          /\ \/ /\ verbose
                /\ Insert(<<Event(active, "turn_delta", <<piece>>, "", "", "", "none")>>)
                /\ UNCHANGED pending
             \/ /\ ~verbose /\ pending' = Append(pending, piece) /\ UNCHANGED <<events, failed>>
             \/ /\ ~verbose /\ pending' = <<>> /\ Insert(<<batch>>)
    /\ UNCHANGED <<up, verbose, queue, active, progress, calls, shown, messages, marker,
                   readers>>

\* onRuntimeToolCallsStarted, followed by the first event of each call.
ToolCallsStarted ==
    /\ up /\ active # 0
    /\ \E k \in Tools : calls[k] = "none"
    /\ pending' = <<>>
    /\ Insert(Batch \o <<Plain(active, "turn_tool_calls_started")>>)
    /\ calls' = [k \in Tools |-> IF calls[k] = "none" THEN "started" ELSE calls[k]]
    /\ UNCHANGED <<up, verbose, queue, active, progress, streamed, shown, messages, marker,
                   readers>>

\* Mutant of Stores: what is new waits until the last one stored is old enough.
StoresWhenDue(k, digest, due) == due \/ k \notin DOMAIN progress

\* onRuntimeToolEvent with progress: stored when it says something new, or when the last
\* one stored is old enough.
Stores(k, digest, due) ==
    due \/ k \notin DOMAIN progress \/ (digest # "" /\ digest # progress[k])

ToolProgress(k, digest, due) ==
    /\ up /\ calls[k] = "started" /\ digest # shown[k]
    /\ shown' = [shown EXCEPT ![k] = digest]
    /\ IF Stores(k, digest, due)
       THEN /\ progress' = [j \in DOMAIN progress \cup {k} |->
                                IF j = k THEN digest ELSE progress[j]]
            /\ Insert(<<Event(active, "turn_tool_event", <<>>, k, "progress", digest, TRUE)>>)
       ELSE UNCHANGED <<progress, events, failed>>
    /\ UNCHANGED <<up, verbose, queue, active, pending, calls, streamed, messages, marker,
                   readers>>

\* onRuntimeToolEvent with a result, which is a message as well.
ToolCompleted(k, success) ==
    /\ up /\ calls[k] = "started"
    /\ calls' = [calls EXCEPT ![k] = "completed"]
    /\ messages' = Append(messages, Message(active, "tool_result", success))
    /\ Insert(<<Event(active, "turn_tool_event", <<>>, k, "completed", "", success)>>)
    /\ UNCHANGED <<up, verbose, queue, active, pending, progress, streamed, shown, marker,
                   readers>>

\* The ends of a turn: the pieces left are flushed and the next turn starts, except that
\* a turn that is stopped is reported before the next one starts.
EndTurn(how) ==
    /\ up /\ active # 0
    /\ LET terminal == [i \in DOMAIN how |-> Plain(active, how[i])]
           next == Started(queue)
       IN Insert(Batch \o (IF how = <<"turn_cancelled">> THEN terminal \o next
                           ELSE next \o terminal))
    /\ Begin(queue)
    /\ messages' = IF how = <<"turn_completed">>
                   THEN Append(messages, Message(active, "text", "none")) ELSE messages
    /\ UNCHANGED <<up, verbose, streamed, marker, readers>>

Ends == {<<"turn_completed">>, <<"turn_failed">>, <<"turn_recovered", "turn_failed">>,
         <<"turn_cancelled">>}

----------------------------------------------------------------------------
(* Searching: queryEvents and queryMessages, then LogQueryEngine::execute.  *)

Asked(want, has) == want = "" \/ want = has

\* The row as queryEvents reads it; the event as the follower reads it.
Found(f, row) == Asked(f.type, row.event.type) /\ Asked(f.level, NormalizedLevel(row))
Matches(f, e) == Asked(f.type, e.type) /\ Asked(f.level, ExtractLevel(e))
FoundMessage(f, m) == Asked(f.type, m.type) /\ Asked(f.level, MessageLevel(m))

EventHits(f) == {[src |-> "events", id |-> i, at |-> events[i].at] :
                    i \in {j \in DOMAIN events : Found(f, events[j])}}
MessageHits(f) == {[src |-> "messages", id |-> i, at |-> messages[i].at] :
                    i \in {j \in DOMAIN messages : FoundMessage(f, messages[j])}}

\* The order of execute: time, then the name of the source, then the row.
Before(a, b) ==
    \/ a.at < b.at
    \/ a.at = b.at /\ a.src = "events" /\ b.src = "messages"
    \/ a.at = b.at /\ a.src = b.src /\ a.id < b.id
Order(asc, a, b) == IF asc THEN Before(a, b) ELSE Before(b, a)
Sorted(S, asc) ==
    [i \in 1..Cardinality(S) |->
        CHOOSE h \in S : Cardinality({g \in S : Order(asc, g, h)}) = i - 1]
First(s) == SubSeq(s, 1, IF Len(s) < Limit THEN Len(s) ELSE Limit)

Merged(es, ms, asc) == First(Sorted(es \cup ms, asc))

SourceHits(f, source) ==
    [events |-> IF source = "messages" THEN {} ELSE EventHits(f),
     messages |-> IF source = "events" THEN {} ELSE MessageHits(f)]
\* What tmagent-log search answers now; it reads only.
Search(f, source, asc) ==
    LET hits == SourceHits(f, source) IN Merged(hits.events, hits.messages, asc)

----------------------------------------------------------------------------
(* Following: LogFollower.                                                  *)

FollowStart ==
    /\ ~following /\ Len(events) <= MaxStart /\ following' = TRUE
    /\ followed' = [start |-> Len(events), anchor |-> Len(events), printed |-> <<>>]
    /\ UNCHANGED <<up, verbose, writer, store>>

\* pollNewEvents: at most PollLimit rows behind the anchor; every row moves the anchor,
\* those that match are printed.
Polled == IF followed.anchor + PollLimit < Len(events) THEN followed.anchor + PollLimit
          ELSE Len(events)

Poll ==
    /\ following /\ followed.anchor < Len(events)
    /\ LET rows == [i \in 1..(IF Len(events) - followed.anchor < PollLimit
                              THEN Len(events) - followed.anchor ELSE PollLimit) |->
                        followed.anchor + i]
       IN followed' = [followed EXCEPT
                          !.anchor = Polled,
                          !.printed = @ \o SelectSeq(rows, LAMBDA i :
                                            Matches(Followed, events[i].event))]
    /\ UNCHANGED <<up, verbose, writer, store, following>>

Next ==
    \/ Start \/ Crash \/ StartTurn \/ StreamData \/ ToolCallsStarted
    \/ \E k \in Tools, d \in Digests, due \in BOOLEAN : ToolProgress(k, d, due)
    \/ \E k \in Tools, success \in BOOLEAN : ToolCompleted(k, success)
    \/ \E how \in Ends : EndTurn(how)
    \/ FollowStart \/ Poll

Spec == Init /\ [][Next]_vars

----------------------------------------------------------------------------
(* Properties.                                                             *)

OfTurn(t) == SelectSeq(events, LAMBDA r : r.event.turn = t)
Text(t) == FlattenSeq([i \in DOMAIN OfTurn(t) |-> OfTurn(t)[i].event.chunks])

\* The journal has the whole reply of a turn, in the order it arrived: what is not in a
\* batch yet waits in the buffer of the turn that is active, and nothing waits when a turn
\* has ended, however it ended.
DeltasWhole ==
    \A t \in Turns \ failed :
        streamed[t] = Text(t) \o (IF t = active THEN pending ELSE <<>>)

\* While a call runs, the last progress stored for it is the last that said anything.
ProgressCurrent ==
    \A k \in Tools :
        active \notin failed /\ shown[k] # "" =>
            LET told == SelectSeq(OfTurn(active), LAMBDA r :
                            r.event.tool = k /\ r.event.status = "progress")
            IN told # <<>> /\ told[Len(told)].event.digest = shown[k]

\* However often the import is repeated, every old line that was taken over is in the
\* table once.
ImportedOnce ==
    \A i, j \in DOMAIN events :
        i # j /\ events[i].event.turn = 0 => events[i].event # events[j].event

\* A search answers with the newest (or the oldest) matching rows of all the sources
\* asked, in order, whatever has been written when.
AnswerComplete ==
    \A f \in Filters, source \in {"all", "events", "messages"}, asc \in BOOLEAN :
        LET S == SourceHits(f, source).events \cup SourceHits(f, source).messages
            hits == Search(f, source, asc)
        IN /\ ToSet(hits) \subseteq S
           /\ Len(hits) = (IF Cardinality(S) < Limit THEN Cardinality(S) ELSE Limit)
           /\ \A i, j \in DOMAIN hits : i < j => Order(asc, hits[i], hits[j])
           /\ \A h \in S \ ToSet(hits), g \in ToSet(hits) : Order(asc, g, h)

\* The follower prints every row written since it started that a search with the same
\* filter finds, once and in the order of the table, however few rows a poll reads.
FollowsSearch ==
    followed.printed =
        SelectSeq([i \in 1..(followed.anchor - followed.start) |-> followed.start + i],
                  LAMBDA i : Found(Followed, events[i]))
=============================================================================
