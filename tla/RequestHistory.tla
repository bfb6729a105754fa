---------------------------- MODULE RequestHistory ----------------------------
(***************************************************************************)
(* What a model is shown: the messages of a session, the history made from   *)
(* them when a turn starts, and the request made from that history in each    *)
(* round of the turn.                                                        *)
(*                                                                         *)
(* ConversationService posts each tool call and each result as a message of   *)
(* its own, beside messages that come at any time (users, teammates, jobs),   *)
(* and rebuilds the history: it drops results without a call, fills in        *)
(* missing ones and compacts.  LLMAgent keeps the history during the turn,    *)
(* merges neighbours, puts results behind their calls and trims.  A provider  *)
(* refuses a request in which a call has no answer or an answer no call.      *)
(*                                                                         *)
(* Texts are the prompts they hold; sizes are numbers of messages, except     *)
(* that the arguments of a Long call exceed a request by themselves.          *)
(***************************************************************************)
EXTENDS Naturals, FiniteSets, Sequences, SequencesExt

CONSTANTS
    Prompts,        \* what users ask
    Internal,       \* what reminders ask
    Calls,          \* ids of tool calls
    Long,           \* calls with arguments that exceed a request
    None,
    HistoryMax,     \* kHistoryMaxMessages, kHistoryMaxChars
    RequestMax,     \* kMaxRequestMessages, kMaxRequestChars
    MaxMessages     \* bound: messages of the session

VARIABLES
    messages,       \* the messages of the session
    queue,          \* its queued turns
    active,         \* the turn that runs, or None
    snapshot,       \* a task snapshot is saved
    history,        \* m_conversationHistory
    round,          \* m_pendingToolCalls
    results,        \* the calls of the round that have a result
    request,        \* the last request
    opening,        \* it is the first of its turn
    asked           \* what was put in so far: prompts and calls

agent == <<history, round, results, request, opening>>
vars == <<messages, queue, active, snapshot, agent, asked>>

Item(role) ==
    [role |-> role, text |-> <<>>, calls |-> <<>>, call |-> None, real |-> FALSE]
Summary == Item("system")
Placeholder(c) == [Item("tool") EXCEPT !.call = c]
HasCalls(item) == item.calls # <<>>

TypeOK ==
    /\ \A i \in DOMAIN messages : messages[i].kind \in {"user", "reply", "note", "call", "result"}
    /\ snapshot \in BOOLEAN /\ opening \in BOOLEAN
    /\ round \in Seq(Calls) /\ results \subseteq Calls
    /\ asked \subseteq Prompts \cup Internal \cup Calls

Init ==
    /\ messages = <<>> /\ queue = <<>> /\ active = None
    /\ snapshot = FALSE
    /\ history = <<>> /\ round = <<>> /\ results = {}
    /\ request = <<>> /\ opening = FALSE
    /\ asked = {}

----------------------------------------------------------------------------
(* The history, from the messages of the session.                          *)

\* The item made of message i; a result whose call was not seen before has none.
ItemOf(ms, i) ==
    LET m == ms[i] IN
    CASE m.kind = "user" -> <<[Item("user") EXCEPT !.text = <<{m.what}>>]>>
      [] m.kind = "reply" -> <<Item("assistant")>>
      [] m.kind = "note" -> <<Item("system")>>
      [] m.kind = "call" -> <<[Item("assistant") EXCEPT !.calls = <<m.what>>]>>
      [] m.kind = "result" ->
            IF \E j \in 1..(i - 1) : ms[j].kind = "call" /\ ms[j].what = m.what
            THEN <<[Item("tool") EXCEPT !.call = m.what, !.real = TRUE]>> ELSE <<>>

\* A call without a result before the next call gets a placeholder.
Answers(h, i) ==
    {h[j].call : j \in {k \in (i + 1)..Len(h) :
        h[k].role = "tool" /\ \A l \in (i + 1)..k : ~HasCalls(h[l])}}
Sanitized(h) ==
    FlattenSeq([i \in DOMAIN h |->
        LET missing == SelectSeq(h[i].calls, LAMBDA c : c \notin Answers(h, i))
        IN  <<h[i]>> \o [k \in DOMAIN missing |-> Placeholder(missing[k])]])

\* A call in `long' exceeds the size of a request by itself.
Fits(ms, max, long) ==
    Len(ms) <= max /\ \A i \in DOMAIN ms : Range(ms[i].calls) \cap long = {}

\* The oldest messages behind the first go until the rest fits or one is left, and the
\* results behind a message that goes go with it.
Cut(ms, max, long) ==
    LET Kept(j) == <<ms[1]>> \o SubSeq(ms, j, Len(ms))
        Starts == {j \in 2..(Len(ms) + 1) : j \in 3..Len(ms) => ms[j].role # "tool"}
        Enough(j) == Len(Kept(j)) <= 2 \/ Fits(Kept(j), max, long)
    IN  Kept(CHOOSE j \in Starts :
            Enough(j) /\ \A k \in Starts : k < j => ~Enough(k))


\* compactHistoryWithBudget: a summary takes the place of the oldest messages.
Compact(h) ==
    IF Len(h) <= HistoryMax THEN h
    ELSE LET tail == SubSeq(h, Len(h) - HistoryMax + 2, Len(h))
             from == CHOOSE j \in 1..(Len(tail) + 1) :
                        /\ j \in DOMAIN tail => tail[j].role # "tool"
                        /\ \A k \in 1..(j - 1) : tail[k].role = "tool"
             kept == IF from > Len(tail) THEN <<Last(h)>> ELSE SubSeq(tail, from, Len(tail))
         IN  Cut(<<Summary>> \o kept, HistoryMax, {})

\* buildRuntimeHistoryFromMessages, and the snapshot that goes before it.
RuntimeHistory(ms) ==
    (IF snapshot THEN <<Item("system")>> ELSE <<>>)
        \o Compact(Sanitized(FlattenSeq([i \in DOMAIN ms |-> ItemOf(ms, i)])))

----------------------------------------------------------------------------
(* The request, from the history.                                          *)

\* appendMessageWithRoleMerge
WithMessage(ms, m) ==
    IF /\ ms # <<>> /\ Last(ms).role = m.role /\ m.role \in {"user", "assistant"}
       /\ ~HasCalls(Last(ms)) /\ ~HasCalls(m)
    THEN [ms EXCEPT ![Len(ms)].text = IF @ = m.text THEN @ ELSE @ \o m.text]
    ELSE Append(ms, m)

Merged(h) == FoldLeft(WithMessage, <<Item("system")>>, h)

\* buildMessageHistory: the prompt of the turn follows if it does not end the history.
WithPrompt(ms, turn) ==
    IF Last(ms).role = "user" /\ Last(ms).text # <<>> /\ Last(Last(ms).text) = turn.text
    THEN ms ELSE WithMessage(ms, [Item(turn.role) EXCEPT !.text = <<turn.text>>])

\* normalizeToolMessageSequence: every call is answered directly behind its message, by
\* its result or by a placeholder, and no other result is left.
\* Mutant of Normalized: results are kept wherever they are.
NormalizedKeepAll(ms) == ms
Normalized(ms) ==
    LET Flushed(s) == s.out \o [k \in DOMAIN s.open |-> Placeholder(s.open[k])]
        Step(s, m) ==
            IF HasCalls(m) THEN [out |-> Append(Flushed(s), m), open |-> m.calls]
            ELSE IF m.role = "tool"
            THEN IF Contains(s.open, m.call)
                 THEN [out |-> Append(s.out, m), open |-> Remove(s.open, m.call)] ELSE s
            ELSE [out |-> Append(Flushed(s), m), open |-> <<>>]
    IN  Flushed(FoldLeft(Step, [out |-> <<>>, open |-> <<>>], ms))

\* postRequestToServer
Request(ms) == Cut(Normalized(ms), RequestMax, Long)

----------------------------------------------------------------------------
(* The session and its turns.                                              *)

Post(kind, what) == [kind |-> kind, what |-> what]
Room(n) == Len(messages) + n <= MaxMessages

\* tryStartNextTurn, when no turn runs and the session holds ms.
StartNext(ms, waiting) ==
    IF waiting = <<>> THEN
        /\ active' = None /\ queue' = <<>>
        /\ round' = <<>> /\ results' = {}
        /\ UNCHANGED <<history, request, opening>>
    ELSE
        /\ active' = Head(waiting) /\ queue' = Tail(waiting)
        /\ history' = RuntimeHistory(ms)
        /\ request' = Request(WithPrompt(Merged(history'), active'))
        /\ opening' = TRUE
        /\ round' = <<>> /\ results' = {}

\* A message of a user is posted at once; its turn waits, starts, or takes the message in.
Enqueue(p) ==
    /\ Room(1) /\ p \notin asked /\ asked' = asked \cup {p}
    /\ messages' = Append(messages, Post("user", p))
    /\ LET turn == [role |-> "user", text |-> {p}] IN
       IF active = None THEN StartNext(messages', <<turn>>)
       ELSE /\ \/ queue' = Append(queue, turn)
               \/ /\ queue # <<>> /\ Last(queue).role = "user"
                  /\ queue' = [queue EXCEPT ![Len(queue)].text = @ \cup {p}]
            /\ UNCHANGED <<active, agent>>
    /\ UNCHANGED snapshot

\* The prompt of an internal turn is not posted.
EnqueueInternal(p) ==
    /\ p \notin asked /\ asked' = asked \cup {p}
    /\ LET turn == [role |-> "system", text |-> {p}] IN
       IF active = None THEN StartNext(messages, <<turn>>)
       ELSE queue' = Append(queue, turn) /\ UNCHANGED <<active, agent>>
    /\ UNCHANGED <<messages, snapshot>>

\* A reply of a teammate, or the end of a job.
Note ==
    /\ Room(1) /\ messages' = Append(messages, Post("note", None))
    /\ UNCHANGED <<queue, active, snapshot, agent, asked>>

\* The results of a round go behind its calls, in their order, and the next request follows.
Continue(h, cs) ==
    /\ history' = h \o [k \in DOMAIN cs |-> [Placeholder(cs[k]) EXCEPT !.real = TRUE]]
    /\ request' = Request(Merged(history'))
    /\ opening' = FALSE /\ round' = <<>> /\ results' = {}

\* The model asks for tools: they are carried out one after the other.  Each is refused,
\* answered, or left to be answered later.
ToolCalls(cs, how) ==
    /\ active # None /\ round = <<>>
    /\ Range(cs) \cap asked = {} /\ asked' = asked \cup Range(cs)
    /\ LET posted == FlattenSeq([k \in DOMAIN cs |->
               (IF how[cs[k]] = "refused" THEN <<>> ELSE <<Post("call", cs[k])>>)
                   \o (IF how[cs[k]] = "later" THEN <<>> ELSE <<Post("result", cs[k])>>)])
           told == Append(history, [Item("assistant") EXCEPT !.calls = cs])
           done == {c \in Range(cs) : how[c] # "later"}
       IN  /\ Room(2 * Len(cs)) /\ messages' = messages \o posted
           /\ IF done = Range(cs) THEN Continue(told, cs)
              ELSE /\ history' = told /\ round' = cs /\ results' = done
                   /\ UNCHANGED <<request, opening>>
    /\ UNCHANGED <<queue, active, snapshot>>

Result(c) ==
    /\ c \in Range(round) \ results
    /\ messages' = Append(messages, Post("result", c))
    /\ IF results \cup {c} = Range(round) THEN Continue(history, round)
       ELSE results' = results \cup {c} /\ UNCHANGED <<history, round, request, opening>>
    /\ UNCHANGED <<queue, active, snapshot, asked>>

\* The next turn starts before the reply of this one is posted and its snapshot saved;
\* a turn that failed has neither.
Finish(replied) ==
    /\ active # None /\ round = <<>> /\ Room(1)
    /\ StartNext(messages, queue)
    /\ messages' = IF replied THEN Append(messages, Post("reply", None)) ELSE messages
    /\ snapshot' = (snapshot \/ replied)
    /\ UNCHANGED asked

\* abortCurrent: calls without a result get one that says so.
Stop ==
    /\ active # None
    /\ LET open == SelectSeq(round, LAMBDA c : c \notin results)
       IN  messages' = messages \o [k \in DOMAIN open |-> Post("result", open[k])]
    /\ StartNext(messages', queue)
    /\ UNCHANGED <<snapshot, asked>>

Next ==
    \/ \E p \in Prompts : Enqueue(p)
    \/ \E p \in Internal : EnqueueInternal(p)
    \/ Note
    \/ \E c, d \in Calls : \E how \in [{c, d} -> {"refused", "now", "later"}] :
          ToolCalls(IF c = d THEN <<c>> ELSE <<c, d>>, how)
    \/ \E c \in Calls : Result(c)
    \/ \E replied \in BOOLEAN : Finish(replied)
    \/ Stop

Spec == Init /\ [][Next]_vars

----------------------------------------------------------------------------
(* Properties.                                                             *)

\* In every request each call is answered exactly once, in the messages directly behind
\* the one that asks for it, and each result answers a call: whatever messages came
\* between a call and its result in the session, however it was compacted and trimmed.
WellPaired ==
    \A i \in DOMAIN request :
       /\ HasCalls(request[i]) =>
             LET n == Len(request[i].calls)
             IN  /\ i + n <= Len(request)
                 /\ {request[j].call : j \in (i + 1)..(i + n)} = Range(request[i].calls)
       /\ request[i].role = "tool" =>
             \E j \in 1..(i - 1) :
                /\ Contains(request[j].calls, request[i].call)
                /\ \A k \in (j + 1)..i : request[k].role = "tool"

\* The request that opens a turn ends with what the turn is asked, whatever was compacted
\* or trimmed before it and whatever came between the message and its turn.
OpensWithPrompt ==
    opening /\ active # None =>
        Last(request).text # <<>> /\ Last(Last(request).text) = active.text

\* "avoid losing the current prompt" (LLMAgent.cpp:592): every request of a turn shows
\* what the turn is asked.
PromptShown ==
    active # None =>
        \A p \in active.text : \E i \in DOMAIN request : p \in UNION Range(request[i].text)
=============================================================================
