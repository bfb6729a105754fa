------------------------------ MODULE AgentLoop ------------------------------
(***************************************************************************)
(* LLMAgent: one request of the service becomes a loop of model requests   *)
(* and tool rounds, which ends with a `finished' or an `errorOccurred'.    *)
(*                                                                         *)
(* The agent lives on the event loop, but two things reach into the        *)
(* future of that loop.  The next model request of a turn is posted from a *)
(* zero timer, which nothing stops.  And a tool may wait for its answer in *)
(* a nested event loop (web_fetch, external search, MCP, a teammate), so   *)
(* that the user can stop the turn and the service can start another one   *)
(* while executeToolCalls has not returned.  `frames' holds the calls of   *)
(* executeToolCalls that have not returned, the innermost first.           *)
(*                                                                         *)
(* A reply to a request comes after the zero timers that were due when the *)
(* request was sent.  Replies of requests that were replaced or stopped    *)
(* are dropped by their token (m_dispatchToken), so only the request with  *)
(* the current token is kept.                                              *)
(***************************************************************************)
EXTENDS Naturals, Sequences, FiniteSets

CONSTANTS
    Calls,          \* tool call ids; an id is used again only when nothing refers to it
    MaxTurns,       \* bound: requests made by the service
    RoundMax,       \* bound: tool calls in one reply of the model
    MaxToolCalls,   \* m_toolLoopPolicy.maxTotalToolCallsPerTurn
    MaxFailed,      \* m_toolLoopPolicy.maxConsecutiveFailedToolRounds
    Retries         \* kMaxTransientDispatchRetries

ASSUME AgentLoopAssumption ==
    /\ IsFiniteSet(Calls)
    /\ MaxTurns \in Nat
    /\ RoundMax \in Nat \ {0}
    /\ MaxToolCalls \in Nat \ {0}
    /\ MaxFailed \in Nat \ {0}
    /\ Retries \in Nat

VARIABLES
    turn,       \* number of the service's latest request
    busy,       \* the service waits for that request's end
    request,    \* a model request with the current token is under way
    posts,      \* zero timers that will post a request: "retry" or "round"
    messages,   \* m_currentMessages is not empty
    toolMode,   \* m_isToolMode
    waiting,    \* m_waitingForToolResponse
    pending,    \* ids in m_pendingToolCalls
    results,    \* ids in m_toolResults
    success,    \* a result of this round is a success
    total,      \* m_totalToolCallsThisTurn
    failed,     \* m_consecutiveFailedToolRounds
    retry,      \* m_transientRetryRemaining
    owner,      \* the turn whose reply made a call
    frames,     \* calls of executeToolCalls not yet returned
    async       \* deferred calls whose result is still to come

agent == <<messages, toolMode, waiting, pending, results, success, total, failed, retry>>
vars  == <<turn, busy, request, posts, agent, owner, frames, async>>

-----------------------------------------------------------------------------
\* A call of executeToolCalls: its turn, the calls it still has to run, and the
\* calls (at most one) it waits for in a nested event loop.
Frame == [turn : 1 .. MaxTurns, rest : SUBSET Calls, at : SUBSET Calls]

\* The event loop can deliver an event: no handler runs, or the innermost one
\* waits in a nested loop.
Idle == frames # <<>> => Head(frames).at # {}

Unresolved == pending \ results

\* Ids nothing refers to any more.
Fresh == Calls \ (async \cup UNION {frames[k].rest \cup frames[k].at : k \in 1 .. Len(frames)})

ResetGuards == total' = 0 /\ failed' = 0

\* The calls of the turn are counted up to their limit: only reaching it matters.
Counted == IF total < MaxToolCalls THEN total + 1 ELSE total

ResetToolState ==
    /\ pending' = {}
    /\ results' = {}
    /\ success' = FALSE
    /\ ResetGuards

\* finished or errorOccurred reaches the service.
EndTurn == busy' = FALSE

Init ==
    /\ turn = 0
    /\ busy = FALSE
    /\ request = FALSE
    /\ posts = <<>>
    /\ messages = FALSE
    /\ toolMode = FALSE
    /\ waiting = FALSE
    /\ pending = {}
    /\ results = {}
    /\ success = FALSE
    /\ total = 0
    /\ failed = 0
    /\ retry = 0
    /\ owner = [c \in Calls |-> 0]
    /\ frames = <<>>
    /\ async = {}

-----------------------------------------------------------------------------
(* Requests.                                                               *)

\* postRequestToServer either sends the request, which replaces the one under
\* way, or (no valid model, no provider) reports an error at once.
Post ==
    \/ request' = TRUE /\ busy' = busy
    \/ request' = FALSE /\ EndTurn

\* setHistory and sendRequest, as tryStartNextTurn calls them.  A request under
\* way is aborted; pending calls and the waiting flag are left as they are.
Send ==
    /\ Idle
    /\ ~busy
    /\ turn < MaxTurns
    /\ turn' = turn + 1
    /\ toolMode' = FALSE
    /\ ResetGuards
    /\ retry' = Retries
    /\ messages' = TRUE
    /\ \/ request' = TRUE /\ busy' = TRUE
       \/ request' = FALSE /\ busy' = FALSE
    /\ UNCHANGED <<posts, waiting, pending, results, success, owner, frames, async>>

\* The zero timer of a finished tool round.
PostRound ==
    /\ Idle
    /\ posts # <<>>
    /\ Head(posts) = "round"
    /\ posts' = Tail(posts)
    /\ messages' = TRUE
    /\ Post
    /\ UNCHANGED <<turn, toolMode, waiting, pending, results, success, total, failed, retry,
                   owner, frames, async>>

\* The zero timer of a retry, which does nothing once the messages are gone.
PostRetry ==
    /\ Idle
    /\ posts # <<>>
    /\ Head(posts) = "retry"
    /\ posts' = Tail(posts)
    /\ IF messages THEN Post ELSE UNCHANGED <<request, busy>>
    /\ UNCHANGED <<turn, agent, owner, frames, async>>

\* A reply to the request under way arrives.
Reply ==
    /\ Idle
    /\ request
    /\ posts = <<>>
    /\ request' = FALSE

\* onClientFinished.
ReplyComplete ==
    /\ Reply
    /\ IF toolMode /\ (Unresolved # {} \/ ~waiting)
       THEN UNCHANGED <<busy, toolMode, waiting, total, failed>>
       ELSE /\ toolMode' = FALSE
            /\ waiting' = (waiting /\ ~toolMode)
            /\ ResetGuards
            /\ EndTurn
    /\ UNCHANGED <<turn, posts, messages, pending, results, success, retry, owner, frames, async>>

\* Mutant of MayRetry: the remaining retries are not looked at.
MayRetryAgain == messages

\* Whether onClientError sends the request again after a transient error.
MayRetry == retry > 0 /\ messages

\* Mutant of ErrorIgnored: every error of a tool turn is taken for a late one.
ErrorIgnoredInTools == toolMode

\* An error is ignored while tool calls are still to be answered.
ErrorIgnored == toolMode /\ Unresolved # {}

\* onClientError.
ReplyError ==
    /\ Reply
    /\ \E transient \in BOOLEAN :
          \/ ErrorIgnored /\ UNCHANGED <<busy, posts, toolMode, waiting, total, failed, retry>>
          \/ /\ ~ErrorIgnored
             /\ transient /\ MayRetry
             /\ retry' = retry - 1
             /\ posts' = Append(posts, "retry")
             /\ UNCHANGED <<busy, toolMode, waiting, total, failed>>
          \/ /\ ~ErrorIgnored
             /\ ~(transient /\ MayRetry)
             /\ toolMode' = FALSE
             /\ waiting' = FALSE
             /\ ResetGuards
             /\ EndTurn
             /\ UNCHANGED <<posts, retry>>
    /\ UNCHANGED <<turn, messages, pending, results, success, owner, frames, async>>

\* Mutant of Registered: only the first call of a round is known when it runs.
RegisteredFirst(calls) == {CHOOSE c \in calls : TRUE}

\* executeToolCalls registers all the calls of a reply before it runs the first.
Registered(calls) == calls

\* onToolCallsReceived, up to the loop of executeToolCalls.
ReplyToolCalls ==
    /\ Reply
    /\ \E calls \in SUBSET Fresh :
          /\ Cardinality(calls) \in 1 .. RoundMax
          /\ pending' = Registered(calls)
          /\ owner' = [c \in Calls |-> IF c \in calls THEN turn ELSE owner[c]]
          /\ frames' = <<[turn |-> turn, rest |-> calls, at |-> {}]>> \o frames
    /\ toolMode' = TRUE
    /\ waiting' = FALSE
    /\ results' = {}
    /\ success' = FALSE
    /\ UNCHANGED <<turn, busy, posts, messages, total, failed, retry, async>>

-----------------------------------------------------------------------------
(* Tool rounds.                                                            *)

\* Mutant of Accepts: the id is not compared with those of the round.
AcceptsAny(c) == toolMode /\ ~waiting /\ c \notin results

\* submitToolResult drops late, unknown and repeated results.
Accepts(c) == toolMode /\ ~waiting /\ c \in pending /\ c \notin results

\* Mutant of MustStop: the calls of the turn are not counted.
MustStopFailed(calls, failures) == failures >= MaxFailed

\* The limits that end a turn after a round: its calls so far, its failed rounds.
MustStop(calls, failures) == calls >= MaxToolCalls \/ failures >= MaxFailed

\* The end of a round, in submitToolResult: the turn goes on with a request, or
\* ends with a reply of its own.  It may also end on the limits whose measure is
\* left out here (web_fetch calls, rounds without progress, time) and when it
\* only looks at delegate jobs that still run.
EndRound(good) ==
    LET failures == IF good THEN 0 ELSE failed + 1
    IN  \/ /\ ~MustStop(Counted, failures)
           /\ waiting' = TRUE
           /\ posts' = Append(posts, "round")
           /\ results' = pending
           /\ success' = good
           /\ total' = Counted
           /\ failed' = failures
           /\ UNCHANGED <<busy, toolMode, pending>>
        \/ /\ toolMode' = FALSE
           /\ waiting' = FALSE
           /\ ResetToolState
           /\ EndTurn
           /\ posts' = posts

\* submitToolResult.
Submit(c, good) ==
    IF ~Accepts(c)
    THEN UNCHANGED <<busy, posts, agent>>
    ELSE /\ IF pending \subseteq results \cup {c}
            THEN EndRound(success \/ good)
            ELSE /\ results' = results \cup {c}
                 /\ success' = (success \/ good)
                 /\ total' = Counted
                 /\ UNCHANGED <<busy, posts, toolMode, waiting, pending, failed>>
         /\ UNCHANGED <<messages, retry>>

\* The innermost executeToolCalls goes on with call c.
Running(c) ==
    /\ frames # <<>>
    /\ Head(frames).at = {}
    /\ toolMode
    /\ c \in Head(frames).rest

Take(c, at) ==
    frames' = <<[Head(frames) EXCEPT !.rest = @ \ {c}, !.at = at]>> \o Tail(frames)

\* The call is refused (not allowed, a web_fetch without url or sent before).
RejectTool(c) ==
    /\ Running(c)
    /\ Take(c, {})
    /\ Submit(c, FALSE)
    /\ UNCHANGED <<turn, request, owner, async>>

\* The call is dispatched.  Its tool answers at once, ...
StartTool(c) ==
    /\ Running(c)
    /\ \/ Take(c, {}) /\ async' = async /\ \E good \in BOOLEAN : Submit(c, good)
       \* ... defers its answer, ...
       \/ /\ Take(c, {})
          /\ async' = async \cup {c}
          /\ UNCHANGED <<busy, posts, agent>>
       \* ... or waits for it in a nested event loop.
       \/ /\ Take(c, {c})
          /\ UNCHANGED <<busy, posts, agent, async>>
    /\ UNCHANGED <<turn, request, owner>>

\* The nested event loop of the innermost call ends.
FinishTool ==
    /\ frames # <<>>
    /\ \E c \in Head(frames).at :
          /\ Take(c, {})
          /\ \E good \in BOOLEAN : Submit(c, good)
    /\ UNCHANGED <<turn, request, owner, async>>

\* executeToolCalls returns, when it has run its calls or tool mode has ended.
LeaveTools ==
    /\ frames # <<>>
    /\ Head(frames).at = {}
    /\ Head(frames).rest = {} \/ ~toolMode
    /\ frames' = Tail(frames)
    /\ UNCHANGED <<turn, busy, request, posts, agent, owner, async>>

\* toolResultReady, for a deferred call.  The bus reaches every agent, and a
\* turn that has been stopped does not stop the work behind its calls.
DeferredResult(c) ==
    /\ Idle
    /\ c \in async
    /\ async' = async \ {c}
    /\ \E good \in BOOLEAN : Submit(c, good)
    /\ UNCHANGED <<turn, request, owner, frames>>

-----------------------------------------------------------------------------
\* abort, and abortAndRollback, which also empties the messages.
Abort ==
    /\ Idle
    /\ busy
    /\ EndTurn
    /\ request' = FALSE
    /\ toolMode' = FALSE
    /\ waiting' = FALSE
    /\ ResetToolState
    /\ messages' \in {messages, FALSE}
    /\ UNCHANGED <<turn, posts, retry, owner, frames, async>>

-----------------------------------------------------------------------------
Replies == ReplyComplete \/ ReplyError \/ ReplyToolCalls

RunTools == LeaveTools \/ \E c \in Calls : RejectTool(c) \/ StartTool(c)

Next ==
    \/ Send \/ Abort
    \/ PostRound \/ PostRetry
    \/ Replies
    \/ RunTools
    \/ FinishTool
    \/ \E c \in Calls : DeferredResult(c)

Spec == Init /\ [][Next]_vars

\* Timers fire, handlers run, a provider answers or times out, a nested loop has
\* a timer, and a deferred tool reports its result or its failure.
Fairness ==
    /\ WF_vars(PostRound \/ PostRetry)
    /\ WF_vars(Replies)
    /\ WF_vars(RunTools)
    /\ WF_vars(FinishTool)
    /\ \A c \in Calls : WF_vars(DeferredResult(c))

FairSpec == Spec /\ Fairness

-----------------------------------------------------------------------------
\* Every variable has its type; the retries of a request are never overdrawn.
TypeOK ==
    /\ turn \in 0 .. MaxTurns
    /\ busy \in BOOLEAN
    /\ request \in BOOLEAN
    /\ posts \in Seq({"retry", "round"})
    /\ messages \in BOOLEAN
    /\ toolMode \in BOOLEAN
    /\ waiting \in BOOLEAN
    /\ pending \subseteq Calls
    /\ results \subseteq Calls
    /\ success \in BOOLEAN
    /\ total \in 0 .. MaxToolCalls
    /\ failed \in Nat
    /\ retry \in 0 .. Retries
    /\ owner \in [Calls -> 0 .. MaxTurns]
    /\ frames \in Seq(Frame)
    /\ async \subseteq Calls

\* The results collected for a round are results of its calls: neither the bus,
\* which brings every deferred result to every agent, nor a tool that was still
\* running when its turn was stopped adds one to the round of another turn.
ResultsOfThisTurn ==
    toolMode => results \subseteq pending /\ \A c \in pending : owner[c] = turn

\* A turn goes on only when its round is over: while its next request is under
\* way or due, no call of the turn runs or is still to report its result.
RoundOver ==
    busy /\ (request \/ posts # <<>>) =>
        /\ \A k \in 1 .. Len(frames) :
              frames[k].turn = turn => frames[k].rest = {} /\ frames[k].at = {}
        /\ \A c \in async : owner[c] # turn

\* The service never waits for nothing: something that is under way will go on
\* with the turn, and the agent will not ignore it.
TurnAdvances ==
    busy =>
        \/ posts # <<>>
        \/ request /\ (toolMode => waiting /\ Unresolved = {})
        \/ /\ toolMode /\ ~waiting
           /\ Unresolved # {}
           /\ \A c \in Unresolved :
                 \/ c \in async
                 \/ \E k \in 1 .. Len(frames) : c \in frames[k].rest \cup frames[k].at

\* A turn ends, whatever the model answers, however its tools fare and whatever
\* is left over from turns that were stopped.
TurnEnds == \A t \in 1 .. MaxTurns : (busy /\ turn = t) ~> ~(busy /\ turn = t)

-----------------------------------------------------------------------------
(* What the documentation says and the code does not do.                   *)

\* The vision document: a canceled task must have its network requests canceled;
\* no model request is under way when the service waits for none.
CanceledRequestStops == ~busy => ~request

\* The same sentence about tool calls: a tool is started only for the turn the
\* agent works on, never for one that was stopped before.
CanceledToolsStop == [][\A c \in Calls : StartTool(c) => owner[c] = turn]_vars
=============================================================================
