----------------------------- MODULE ReplyStream -----------------------------
(***************************************************************************)
(* LLMProvider and its three protocols: a request is posted, the reply       *)
(* arrives line by line, ends or runs out of time, and becomes one of three   *)
(* reports to LLMAgent: tool calls, a text, an error.                        *)
(*                                                                         *)
(* A server cuts each tool call in fragments and may mix those of several      *)
(* calls; it may also send its reasoning, which has to be sent back to it     *)
(* with the results of the tools.  Two layers retry: the Anthropic provider    *)
(* posts the request again by itself, and the agent posts it again from a      *)
(* zero timer.  Both may do so when a part of a reply has arrived.            *)
(*                                                                         *)
(* A piece of text or reasoning is the number of the exchange it belongs to.  *)
(***************************************************************************)
EXTENDS Naturals, Sequences, FiniteSets, SequencesExt

CONSTANTS
    Kinds,          \* the protocols: "openai", "deepseek", "anthropic"
    Indexes,        \* positions of tool calls in a reply, from 0
    MaxAttempts,    \* m_maxRetryAttempts
    Retries,        \* kMaxTransientDispatchRetries
    MaxSends,       \* bound: requests of turns and of tool rounds
    MaxEvents       \* bound: events in one reply, one of text and of reasoning at most

VARIABLES
    kind,           \* the protocol of the configured model
    phase,          \* "idle", "waiting" for a report, "retry" posted, "tools" running
    sends,          \* requests made by turns and tool rounds so far
    exchange,       \* number of the HTTP exchange
    stream,         \* what has arrived in it
    attempts,       \* m_retryAttempt
    retry,          \* m_transientRetryRemaining
    text,           \* m_fullContent of the agent
    thinking,       \* m_pendingReasoningContent: the exchange it comes from, or 0
    history,        \* m_conversationHistory from the prompt of the turn on
    body,           \* the messages that were posted
    reports         \* what the provider reported under the current token

agent == <<retry, text, thinking, history>>
vars == <<kind, phase, sends, exchange, stream, attempts, agent, body, reports>>

Item(role) == [role |-> role, text |-> <<>>, calls |-> <<>>, thinking |-> 0]

Init ==
    /\ kind \in Kinds
    /\ phase = "idle" /\ sends = 0 /\ exchange = 0
    /\ stream = <<>> /\ attempts = 0 /\ retry = 0
    /\ text = <<>> /\ thinking = 0
    /\ history = <<>> /\ body = <<>> /\ reports = <<>>

----------------------------------------------------------------------------
(* What a reply consists of.                                               *)

\* A piece of text or of reasoning, the first or a later fragment of the call at an
\* index, or the reason why the reply ends.
Event == [type : {"text", "thinking"}, index : {0}, what : {""}]
    \cup [type : {"call"}, index : Indexes, what : {"head", "tail"}]
    \cup [type : {"reason"}, index : {0}, what : {"stop", "tool_calls"}]

Of(s, type) == SelectSeq(s, LAMBDA e : e.type = type)
ReasonOf(s) == LET r == Of(s, "reason") IN IF r = <<>> THEN "" ELSE Last(r).what
HasContent(s) == Of(s, "call") # <<>> \/ Of(s, "text") # <<>> \/ ReasonOf(s) # ""

\* A server opens a call before it goes on with it; Anthropic ends one before the next.
MaySend(e) ==
    LET calls == Of(stream, "call") IN
    /\ Len(stream) < MaxEvents
    /\ e.type \in {"text", "thinking"} => Of(stream, e.type) = <<>>
    /\ ReasonOf(stream) = ""
    /\ e.type = "thinking" => kind = "deepseek"
    /\ e.what = "head" => \A k \in DOMAIN calls : calls[k].index < e.index
    /\ e.what = "tail" =>
          IF kind = "anthropic" THEN calls # <<>> /\ Last(calls).index = e.index
          ELSE \E k \in DOMAIN calls : calls[k].index = e.index

\* parseStreamEventLine: text goes to the agent at once, the rest is kept.
Parsed(e) ==
    /\ stream' = Append(stream, e)
    /\ text' = IF e.type = "text" THEN Append(text, exchange) ELSE text

\* mergeStreamingToolCalls: the fragments of each index, in the order of the indexes.
Merged(s) ==
    LET calls == Of(s, "call")
        used == SetToSortSeq({calls[k].index : k \in DOMAIN calls}, <)
    IN  [i \in DOMAIN used |-> SelectSeq(calls, LAMBDA e : e.index = used[i])]

----------------------------------------------------------------------------
(* Requests.                                                               *)

\* convertMessagesToAnthropic leaves out every system message; buildRequestBody of
\* DeepSeek takes the reasoning from what comes before the last prompt of a user.
Body(h) ==
    CASE kind = "openai" -> h
      [] kind = "anthropic" -> SelectSeq(h, LAMBDA m : m.role # "system")
      [] kind = "deepseek" ->
            [i \in DOMAIN h |->
                IF \E j \in DOMAIN h : j > i /\ h[j].role = "user"
                THEN [h[i] EXCEPT !.thinking = 0] ELSE h[i]]

\* startStream, for the messages h.
Start(h) ==
    /\ exchange' = exchange + 1
    /\ stream' = <<>>
    /\ body' = Body(h)

\* postRequestToServer: a new provider and a new token.
Post(h) ==
    /\ Start(h)
    /\ attempts' = 0 /\ reports' = <<>>
    /\ phase' = "waiting"

\* sendRequest, for a prompt of a user or an internal one.
SendTurn(role) ==
    /\ phase = "idle" /\ sends < MaxSends /\ sends' = sends + 1
    /\ history' = <<Item(role)>>
    /\ text' = <<>> /\ retry' = Retries
    /\ Post(history')
    /\ UNCHANGED <<kind, thinking>>

\* The request that follows a tool round.
SendRound ==
    /\ phase = "tools" /\ sends < MaxSends /\ sends' = sends + 1
    /\ Post(history)
    /\ UNCHANGED <<kind, agent>>

\* The zero timer of a retry.
SendAgain ==
    /\ phase = "retry"
    /\ Post(history)
    /\ UNCHANGED <<kind, sends, agent>>

----------------------------------------------------------------------------
(* Reports.                                                                *)

\* The assistant message of a reply: it takes the pending reasoning with it.
Recorded(content, calls, reasoning) ==
    [Item("assistant") EXCEPT !.text = content, !.calls = calls, !.thinking = reasoning]

\* reasoningContentReady comes before the report of a reply that has reasoning.
Reasoning(s) == IF Of(s, "thinking") # <<>> THEN exchange ELSE thinking

\* onToolCallsReceived
ReportCalls(s, content) ==
    /\ history' = history \o <<Recorded(content, Merged(s), Reasoning(s)), Item("tool")>>
    /\ text' = <<>> /\ thinking' = 0
    /\ phase' = "tools"
    /\ reports' = Append(reports, "calls")
    /\ UNCHANGED retry

\* onClientFinished: an empty text leaves no message, and the reasoning pending.
ReportText(s, content) ==
    LET whole == [k \in DOMAIN Of(s, "text") |-> exchange] IN
    /\ IF whole = <<>> THEN thinking' = Reasoning(s) /\ UNCHANGED history
       ELSE /\ history' = Append(history, Recorded(whole, <<>>, Reasoning(s)))
            /\ thinking' = 0
    /\ text' = content
    /\ phase' = "idle"
    /\ reports' = Append(reports, "text")
    /\ UNCHANGED retry

\* onClientError: one retry, which forgets the text.
\* Mutant of Forgotten: the text stays.
ForgottenNot(content) == content
Forgotten(content) == <<>>
ReportError(transient, content) ==
    /\ IF transient /\ retry > 0
       THEN phase' = "retry" /\ retry' = retry - 1 /\ text' = Forgotten(content)
       ELSE phase' = "idle" /\ text' = content /\ UNCHANGED retry
    /\ reports' = Append(reports, "error")
    /\ UNCHANGED <<thinking, history>>

\* shouldRetryOnFailure, below its limit.
RetriesItself(how, s) ==
    /\ kind = "anthropic" /\ attempts < MaxAttempts
    /\ how = "transient" \/ (how = "closed" /\ ~HasContent(s))

\* handleFinished, when the reply s has arrived and ends in one of these ways: as it
\* should, closed by the server, with a transient or with a lasting error.  What the
\* agent takes for transient depends on the wording of the error.
Ended(s, content, how) ==
    IF how = "ok" \/ (how = "closed" /\ HasContent(s)) THEN
        /\ IF ReasonOf(s) = "tool_calls" /\ Of(s, "call") # <<>>
           THEN ReportCalls(s, content) ELSE ReportText(s, content)
        /\ stream' = s
        /\ UNCHANGED <<exchange, attempts, body>>
    ELSE IF RetriesItself(how, s) THEN
        /\ Start(history)
        /\ attempts' = attempts + 1
        /\ text' = content
        /\ UNCHANGED <<phase, retry, thinking, history, reports>>
    ELSE
        /\ \E transient \in BOOLEAN :
              /\ transient => how \in {"transient", "closed"}
              /\ ReportError(transient, content)
        /\ stream' = s
        /\ UNCHANGED <<exchange, attempts, body>>

----------------------------------------------------------------------------
(* The reply.                                                              *)

Arrive(e) ==
    /\ phase = "waiting" /\ MaySend(e)
    /\ Parsed(e)
    /\ UNCHANGED <<kind, phase, sends, exchange, attempts, retry, thinking, history, body, reports>>

Finish(how) ==
    /\ phase = "waiting"
    /\ Ended(stream, text, how)
    /\ UNCHANGED <<kind, sends>>

\* The last line has no end: handleFinished of Anthropic parses it, the others drop it.
FinishUnterminated(e, how) ==
    /\ phase = "waiting" /\ MaySend(e)
    /\ IF kind = "anthropic"
       THEN Ended(Append(stream, e),
                  IF e.type = "text" THEN Append(text, exchange) ELSE text, how)
       ELSE Ended(stream, text, how)
    /\ UNCHANGED <<kind, sends>>

\* The time of the request is over, whatever has arrived: abort ends the reply, which
\* reports an error, and the timer reports another.
TimeUp ==
    /\ phase = "waiting"
    /\ phase' = "idle" /\ reports' = reports \o <<"error", "error">>
    /\ UNCHANGED <<kind, sends, exchange, stream, attempts, agent, body>>

\* LLMAgent::abort
Abort ==
    /\ phase \in {"waiting", "tools"}
    /\ phase' = "idle" /\ reports' = <<>>
    /\ UNCHANGED <<kind, sends, exchange, stream, attempts, agent, body>>

Next ==
    \/ \E role \in {"user", "system"} : SendTurn(role)
    \/ SendRound \/ SendAgain \/ TimeUp \/ Abort
    \/ \E e \in Event : Arrive(e)
    \/ \E how \in {"ok", "closed", "transient", "lasting"} :
          Finish(how) \/ \E e \in Event : FinishUnterminated(e, how)

Spec == Init /\ [][Next]_vars

\* The timer of a request and the zero timer of a retry fire.  No answer of a server is
\* assumed.
FairSpec == Spec /\ WF_vars(TimeUp) /\ WF_vars(SendAgain)

----------------------------------------------------------------------------
(* Properties.                                                             *)

TypeOK ==
    /\ kind \in Kinds /\ phase \in {"idle", "waiting", "retry", "tools"}
    /\ stream \in Seq(Event)
    /\ attempts \in 0..MaxAttempts /\ retry \in 0..Retries
    /\ thinking \in 0..exchange

\* The calls the agent is handed are those of the reply: each has all its fragments, in
\* their order and no other's, however the server mixed them.
CallsWhole ==
    phase = "tools" =>
        LET calls == history[Len(history) - 1].calls
            sent == Of(stream, "call")
        IN  /\ \A k \in DOMAIN calls :
                  /\ calls[k][1].what = "head"
                  /\ \A l \in DOMAIN calls[k] :
                        calls[k][l].index = calls[k][1].index /\ (l > 1 => calls[k][l].what = "tail")
            /\ \A i \in Indexes :
                  LET whole == SelectSeq(sent, LAMBDA e : e.index = i)
                  IN  whole # <<>> => \E k \in DOMAIN calls : calls[k] = whole

\* A message that is kept holds the text of one exchange: what arrived of a reply that
\* broke off is not joined to the reply of the retry (the Anthropic provider does join
\* them: OneExchange).
OneAttempt ==
    \A i \in DOMAIN history :
        kind # "anthropic" => \A j, k \in DOMAIN history[i].text : history[i].text[j] = history[i].text[k]

\* The reasoning behind a round of tools goes back to the server with its results.
ThinkingCarried ==
    phase = "waiting" /\ Last(history).role = "tool" =>
        \A i \in DOMAIN history :
            history[i].thinking # 0 => \E j \in DOMAIN body : body[j].thinking = history[i].thinking

\* What must come to an end, in a report or in a stop, also when the server sends one
\* piece after the other or nothing at all.
Waiting == phase \in {"waiting", "retry"}

\* One request, one report: an error is not followed by another one.
OneReport == Len(reports) <= 1

\* "so that the next request carries the right context" (LLMProvider.h:57): the reasoning
\* kept with a message is that of its own reply.
OwnThinking ==
    \A i \in DOMAIN history :
        history[i].thinking # 0 /\ history[i].text # <<>> =>
            history[i].thinking = history[i].text[1]
=============================================================================
