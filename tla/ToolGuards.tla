----------------------------- MODULE ToolGuards -----------------------------
(***************************************************************************)
(* The limits of the tool loop of LLMAgent.                                *)
(*                                                                         *)
(* A model may answer every request with further tool calls.  What makes   *)
(* the turn end then are the counters that submitToolResult looks at when  *)
(* the last result of a round is in: calls and web_fetch calls of the      *)
(* turn, rounds in a row without a success or without progress, time.      *)
(* They are compared with the limits of tool_loop_policy.json, which is    *)
(* read again for every turn and which the user may have edited.           *)
(*                                                                         *)
(* AgentLoop models how rounds, requests and stopped turns interleave;     *)
(* here one turn at a time is followed through its rounds.  Texts are      *)
(* abstracted to what the guards compare: a result is a success or not,    *)
(* has a summary, and carries the marks by which its failure is classed.   *)
(***************************************************************************)
EXTENDS Naturals, Integers, Sequences, FiniteSets

CONSTANTS
    Calls,          \* calls a model may make: records [tool, args]
    Outcomes,       \* results a tool may give: records [success, text, marks]
    Policies,       \* contents of the policy file: records [schema, of]
    Defaults,       \* defaultToolLoopPolicyObject: total, fetch, noProgress, failed, time
    Lowest,         \* kPolicyMin...
    Highest,        \* kPolicyMax...
    RoundMax,       \* bound: tool calls in one reply of the model
    RecentMax       \* summaries kept for the final reply (8)

VARIABLES
    file,           \* tool_loop_policy.json
    limits,         \* m_toolLoopPolicy
    phase,          \* "idle", "asked" (a request is under way) or "tools"
    calls,          \* m_pendingToolCalls
    at,             \* the next call executeToolCalls runs
    results,        \* m_toolResults and m_toolResultSuccess, by position of the call
    autofilled,     \* webFetchUrlAutofilled
    deferred,       \* m_deferredToolIds
    total,          \* m_totalToolCallsThisTurn
    fetches,        \* m_totalWebFetchCallsThisTurn
    failures,       \* m_totalToolFailuresThisTurn
    noProgress,     \* m_consecutiveNoProgressRounds
    failed,         \* m_consecutiveFailedToolRounds
    lastPlan,       \* m_lastToolRoundSignature
    lastOutcome,    \* m_lastToolOutcomeSignature
    seen,           \* m_seenWebFetchSignatures
    timed,          \* m_toolLoopTimer is valid
    recent,         \* m_recentToolSummaries
    ended,          \* how the turn before a pause ended, and what its reply says
    log             \* (history) the results of the turn, in order

round  == <<calls, at, results, autofilled, deferred>>
guards == <<total, fetches, failures, noProgress, failed, lastPlan, lastOutcome, seen, timed,
            recent>>
vars   == <<file, limits, phase, round, guards, ended, log>>

-----------------------------------------------------------------------------
(* The policy file.                                                        *)

Limit == DOMAIN Defaults

Absent == -1        \* no such key, or not a number
Schema == 5

Bounded(n, low, high) == IF n < low THEN low ELSE IF n > high THEN high ELSE n

\* loadToolLoopPolicyObject: what is read, which is also what the file holds
\* afterwards.  No file, a broken one and one without a schema have the schema
\* Absent; a file of another schema than the current one becomes the defaults.
LoadedPolicy ==
    IF file.schema # Schema
    THEN [schema |-> Schema, of |-> Defaults]
    ELSE [file EXCEPT !.of = [l \in Limit |-> IF @[l] = Absent THEN Defaults[l] ELSE @[l]]]

BoundedPolicy(of) == [l \in Limit |-> Bounded(of[l], Lowest[l], Highest[l])]

\* refreshToolLoopPolicy.
RefreshPolicy ==
    /\ file' = LoadedPolicy
    /\ limits' = BoundedPolicy(LoadedPolicy.of)

\* The policy as the settings dialog shows and saves it (ConfigService's
\* normalizeToolLoopPolicyObject).  It does not look at the schema, and a time
\* that is absent is read as 0.
ShownPolicy ==
    BoundedPolicy([l \in Limit |->
        IF file.of[l] # Absent THEN file.of[l] ELSE IF l = "time" THEN 0 ELSE Defaults[l]])

-----------------------------------------------------------------------------
(* Failures (ToolFailureSupport).                                          *)

\* inferFailureMetadata: the first class one of whose marks the text has.  The
\* second group is looked for in the results of execute_command only.
Category(tool, marks) ==
    LET command == tool = "execute_command"
        Has(m) == m \in marks
    IN  CASE Has("validation") -> "validation_error"
          [] command /\ Has("policy") -> "policy_blocked"
          [] command /\ Has("no_program") -> "executable_missing"
          [] command /\ Has("denied") -> "path_or_permission_error"
          [] command /\ Has("no_path") -> "environment_error"
          [] command /\ Has("timeout") -> "execution_timeout"
          [] command /\ Has("rejected") -> "user_confirmation_required"
          [] Has("denied") \/ Has("no_file") -> "path_or_permission_error"
          [] Has("no_path") \/ Has("no_program") -> "environment_error"
          [] OTHER -> "none"

\* What submitToolResult is given for a call that is refused before dispatch:
\* the three texts begin with an error word, so that they count as failures.
Refusal(why) == [success |-> FALSE, text |-> why, marks |-> {}]
NotAllowed == Refusal("not allowed")
MissingUrl == Refusal("missing url")
SentBefore == Refusal("sent before")

\* The result of a delegate status query that lists a running job.
StillRuns(o) == o.text = "running"

-----------------------------------------------------------------------------
(* The guards of a round.                                                  *)

\* Mutant of Forgotten: a reset of the guards leaves the last signatures.
ForgottenNot(signature) == signature

\* resetToolLoopGuards clears a signature.
Forgotten(signature) == <<>>

\* resetToolLoopGuards.
ResetGuards ==
    /\ total' = 0
    /\ fetches' = 0
    /\ failures' = 0
    /\ noProgress' = 0
    /\ failed' = 0
    /\ lastPlan' = Forgotten(lastPlan)
    /\ lastOutcome' = Forgotten(lastOutcome)
    /\ seen' = {}
    /\ timed' = FALSE
    /\ recent' = <<>>

\* resetToolState.
ResetState ==
    /\ calls' = <<>>
    /\ at' = 1
    /\ results' = <<>>
    /\ autofilled' = FALSE
    /\ deferred' = {}
    /\ ResetGuards

\* Mutant of Latest: the oldest summaries of the turn are kept.
LatestNot(s) == IF Len(s) > RecentMax THEN SubSeq(s, 1, RecentMax) ELSE s

\* The summaries that are kept for the final reply.
Latest(s) == IF Len(s) > RecentMax THEN Tail(s) ELSE s

\* A web_fetch is remembered before it is dispatched.
Remembered(known, signature) == known \cup {signature}

\* Every call of the round has its result.
AllDone(answered) == answered = DOMAIN calls

\* The calls of the turn, when one more has its result.
Counted(n, o) == n + 1

\* buildToolRoundSignature (the inputs added at run time are left out) and
\* buildToolOutcomeSignature.
Plan == [i \in DOMAIN calls |-> <<calls[i].tool, calls[i].args>>]
Outcome(res) ==
    [i \in DOMAIN calls |->
        <<calls[i].tool, res[i].success, Category(calls[i].tool, res[i].marks), res[i].text>>]

MonitorRound == \A i \in DOMAIN calls : calls[i].tool = "delegate_status"

\* The first limit that is reached, in the order of submitToolResult; "time" may
\* be reached whenever the timer runs.
Reached(n, web, idle, bad) ==
    IF n >= limits.total THEN {"total"}
    ELSE IF web >= limits.fetch THEN {"fetch"}
    ELSE IF idle >= limits.noProgress THEN {"noProgress"}
    ELSE IF bad >= limits.failed THEN {"failed"} ELSE {"none", "time"}

\* The turn ends with a reply of its own.  buildToolGuardFinalReply is called
\* before the counters are reset.
EndTurn(why, n, web, bad, summaries) ==
    /\ ended' = [why |-> why, total |-> n, fetches |-> web, failures |-> bad,
                 recent |-> summaries]
    /\ phase' = "idle"
    /\ ResetState

\* submitToolResult for call i.  While the round or the turn goes on, `next' is
\* the call executeToolCalls goes on with, and `known' and `filled' what it has
\* remembered of web_fetch.
Submit(i, o, next, known, filled) ==
    LET c    == calls[i]
        res  == [k \in DOMAIN results \cup {i} |-> IF k = i THEN o ELSE results[k]]
        n    == Counted(total, o)
        web  == IF c.tool = "web_fetch" THEN fetches + 1 ELSE fetches
        bad  == IF o.success THEN failures ELSE failures + 1
        last == Latest(Append(recent, <<o.success, c.tool>>))
        good == \E k \in DOMAIN res : res[k].success
        same == Plan = lastPlan /\ Outcome(res) = lastOutcome
        idle == IF good \/ ~same THEN 0 ELSE noProgress + 1
        row  == IF good THEN 0 ELSE failed + 1
        runs == MonitorRound /\ \E k \in DOMAIN res : StillRuns(res[k])
        Goes ==
            /\ results' = res
            /\ deferred' = deferred \ {i}
            /\ at' = next
            /\ seen' = known
            /\ autofilled' = filled
            /\ total' = n
            /\ fetches' = web
            /\ failures' = bad
            /\ recent' = last
            /\ UNCHANGED <<calls, ended>>
    IN  /\ log' = Append(log, [tool |-> c.tool, args |-> c.args, success |-> o.success,
                               ran |-> o \notin {NotAllowed, MissingUrl, SentBefore}])
        /\ \/ /\ ~AllDone(DOMAIN res)
              /\ Goes
              /\ UNCHANGED <<phase, noProgress, failed, lastPlan, lastOutcome, timed>>
           \/ /\ AllDone(DOMAIN res)
              /\ \E why \in IF runs THEN {"waiting"} ELSE Reached(n, web, idle, row) :
                    \/ /\ why = "none"
                       /\ Goes
                       /\ noProgress' = idle
                       /\ failed' = row
                       /\ lastPlan' = Plan
                       /\ lastOutcome' = Outcome(res)
                       /\ timed' = TRUE
                       /\ phase' = "asked"
                    \/ /\ why # "none"
                       /\ EndTurn(why, n, web, bad, last)

-----------------------------------------------------------------------------
(* A turn.                                                                 *)

Ended(why) == [why |-> why, total |-> 0, fetches |-> 0, failures |-> 0, recent |-> <<>>]

Init ==
    /\ file \in Policies
    /\ limits = Defaults
    /\ phase = "idle"
    /\ calls = <<>>
    /\ at = 1
    /\ results = <<>>
    /\ autofilled = FALSE
    /\ deferred = {}
    /\ total = 0
    /\ fetches = 0
    /\ failures = 0
    /\ noProgress = 0
    /\ failed = 0
    /\ lastPlan = <<>>
    /\ lastOutcome = <<>>
    /\ seen = {}
    /\ timed = FALSE
    /\ recent = <<>>
    /\ ended = Ended("none")
    /\ log = <<>>

\* The settings are saved in their dialog, with limits that the dialog accepts.
\* The file is read when a turn starts: saving it during a turn is as saving it
\* afterwards.
SavePolicy(of) ==
    /\ phase = "idle"
    /\ file' = [schema |-> Schema, of |-> BoundedPolicy(of)]
    /\ UNCHANGED <<limits, phase, round, guards, ended, log>>

\* sendRequest.
Send ==
    /\ phase = "idle"
    /\ RefreshPolicy
    /\ ResetGuards
    /\ phase' = "asked"
    /\ ended' = Ended("none")
    /\ log' = <<>>
    /\ UNCHANGED round

\* onToolCallsReceived, up to the loop of executeToolCalls.
ToolReply ==
    /\ phase = "asked"
    /\ \E n \in 1 .. RoundMax : calls' \in [1 .. n -> Calls]
    /\ at' = 1
    /\ results' = <<>>
    /\ autofilled' = FALSE
    /\ phase' = "tools"
    /\ UNCHANGED <<file, limits, deferred, guards, ended, log>>

\* onClientFinished, or onClientError without a retry: the guards are reset.
LastReply ==
    /\ phase = "asked"
    /\ phase' = "idle"
    /\ ended' = Ended("model")
    /\ ResetGuards
    /\ log' = <<>>
    /\ UNCHANGED <<file, limits, round>>

Running(i) == phase = "tools" /\ at = i /\ i \in DOMAIN calls

IsFetch(c) == c.tool = "web_fetch"

\* A web_fetch without url.
NoUrl(c) == IsFetch(c) /\ c.args = "none"

\* The first one of a round is given a search for the latest user message, when
\* there is one: then it is the call of the arguments "autofill".
Sent(c) == IF NoUrl(c) THEN "autofill" ELSE c.args

\* executeToolCalls refuses the next call: its tool is not allowed, a web_fetch
\* has no url, or was sent before in this turn.
Refuse(i) ==
    /\ Running(i)
    /\ LET c == calls[i]
           filled == autofilled \/ NoUrl(c)
       IN  \/ c.tool = "closed" /\ Submit(i, NotAllowed, i + 1, seen, autofilled)
           \/ NoUrl(c) /\ Submit(i, MissingUrl, i + 1, seen, autofilled)
           \/ /\ IsFetch(c) /\ ~(NoUrl(c) /\ autofilled)
              /\ Sent(c) \in seen
              /\ Submit(i, SentBefore, i + 1, seen, filled)
    /\ UNCHANGED <<file, limits>>

\* executeToolCalls dispatches the next call, which gives its result or defers
\* it.  A result that is classed as a failure is a failure.
Run(i) ==
    /\ Running(i)
    /\ LET c      == calls[i]
           filled == autofilled \/ NoUrl(c)
           known  == IF IsFetch(c) THEN Remembered(seen, Sent(c)) ELSE seen
       IN  /\ c.tool # "closed"
           /\ ~(NoUrl(c) /\ autofilled)
           /\ ~(IsFetch(c) /\ Sent(c) \in seen)
           /\ \/ \E o \in Outcomes : Submit(i, o, i + 1, known, filled)
              \/ /\ deferred' = deferred \cup {i}
                 /\ at' = i + 1
                 /\ seen' = known
                 /\ autofilled' = filled
                 /\ UNCHANGED <<phase, calls, results, total, fetches, failures, noProgress,
                                failed, lastPlan, lastOutcome, timed, recent, ended, log>>
    /\ UNCHANGED <<file, limits>>

\* The result of a deferred call comes once executeToolCalls has left its loop:
\* both run on the event loop.
DeferredResult(i) ==
    /\ phase = "tools"
    /\ at > Len(calls)
    /\ i \in deferred
    /\ \E o \in Outcomes : Submit(i, o, at, seen, autofilled)
    /\ UNCHANGED <<file, limits>>

\* abort.
Abort ==
    /\ phase # "idle"
    /\ phase' = "idle"
    /\ ended' = Ended("stopped")
    /\ ResetState
    /\ log' = <<>>
    /\ UNCHANGED <<file, limits>>

RunTools == \E i \in 1 .. RoundMax : Refuse(i) \/ Run(i)

Next ==
    \/ SavePolicy(ShownPolicy) \/ SavePolicy(Lowest)
    \/ Send \/ ToolReply \/ LastReply \/ Abort
    \/ RunTools
    \/ \E i \in 1 .. RoundMax : DeferredResult(i)

Spec == Init /\ [][Next]_vars

\* A provider answers or times out, handlers run, and a deferred tool reports its
\* result or its failure.  The model is free to ask for tools in every answer.
FairSpec ==
    /\ Spec
    /\ WF_vars(ToolReply \/ LastReply)
    /\ WF_vars(RunTools)
    /\ \A i \in 1 .. RoundMax : WF_vars(DeferredResult(i))

-----------------------------------------------------------------------------
\* Every variable has its type, and the limits are within their bounds whatever
\* the policy file says.
TypeOK ==
    /\ file.of \in [Limit -> Nat \cup {Absent}]
    /\ limits \in [Limit -> Nat]
    /\ \A l \in Limit : limits[l] \in Lowest[l] .. Highest[l]
    /\ phase \in {"idle", "asked", "tools"}
    /\ calls \in Seq(Calls)
    /\ at \in Nat
    /\ DOMAIN results \subseteq DOMAIN calls
    /\ autofilled \in BOOLEAN
    /\ deferred \subseteq DOMAIN calls
    /\ {total, fetches, failures, noProgress, failed} \subseteq Nat
    /\ timed \in BOOLEAN
    /\ Len(recent) <= RecentMax

Guard == {"total", "fetch", "noProgress", "failed", "time"}

\* The reply of a turn that the guards stop (buildToolGuardFinalReply) tells what
\* the turn did: as many calls, fetches and failures as gave a result since the
\* turn began, and its latest results in order, although the counters have been
\* kept over several rounds and are reset for the next turn at the same time.
Fetched(l) == {k \in DOMAIN l : IsFetch(l[k])}
Unsuccessful(l) == {k \in DOMAIN l : ~l[k].success}
Last(l) ==
    LET first == IF Len(l) > RecentMax THEN Len(l) - RecentMax + 1 ELSE 1
    IN  [k \in 1 .. Len(l) - first + 1 |-> <<l[first + k - 1].success, l[first + k - 1].tool>>]
ReplyTrue ==
    phase = "idle" /\ ended.why \in Guard =>
        /\ ended.total = Len(log)
        /\ ended.fetches = Cardinality(Fetched(log))
        /\ ended.failures = Cardinality(Unsuccessful(log))
        /\ ended.recent = Last(log)

\* However often the model asks for it, and in however many rounds, a web_fetch
\* with the same arguments runs once in a turn; one without url counts as the
\* search it is turned into.
FetchedOnce ==
    \A j, k \in DOMAIN log :
        log[j].ran /\ log[k].ran /\ IsFetch(log[j]) /\ log[j].tool = log[k].tool
            /\ log[j].args = log[k].args => j = k

\* A model that never stops asking for tools is stopped: no turn collects more
\* results than its limit and the rest of the round in which it is reached.
WithinLimits == Len(log) < limits.total + RoundMax

\* The first round of a turn always counts as progress, also when it repeats the
\* last round of the turn before: rounds without progress are fewer than the
\* rounds that failed in a row.
FirstRoundCounts == failed > 0 => noProgress < failed

-----------------------------------------------------------------------------
(* What makes them inductive.                                              *)

Entry == [tool : {c.tool : c \in Calls}, args : {c.args : c \in Calls},
          success : BOOLEAN, ran : BOOLEAN]

\* While the turn goes on its counters tell its results, and it is below its limit,
\* but for the results of the round.
CountersTrue ==
    /\ total = Len(log) /\ fetches = Cardinality(Fetched(log))
    /\ failures = Cardinality(Unsuccessful(log)) /\ recent = Last(log)
    /\ phase = "asked" => total < limits.total
    /\ phase = "tools" => total < limits.total + Cardinality(DOMAIN results)

\* A call of a round has its result, is deferred, or is not run yet.
RoundSound ==
    /\ Len(calls) \in 1 .. RoundMax
    /\ DOMAIN results \cup deferred = 1 .. at - 1 /\ DOMAIN results \cap deferred = {}
    /\ \A i \in DOMAIN results : results[i].success \in BOOLEAN

\* What a round without progress is compared with had a success, unless rounds failed.
ProgressSound ==
    /\ noProgress <= failed
    /\ failed = 0 => lastOutcome = <<>> \/ \E k \in DOMAIN lastOutcome : lastOutcome[k][2]

\* A web_fetch that ran or is deferred is remembered, and is the only one of its kind.
FetchSound ==
    /\ \A k \in DOMAIN log : log[k].ran /\ IsFetch(log[k]) => Sent(log[k]) \in seen
    /\ \A i \in deferred : IsFetch(calls[i]) =>
          /\ Sent(calls[i]) \in seen
          /\ \A j \in deferred : IsFetch(calls[j]) /\ Sent(calls[j]) = Sent(calls[i]) => j = i
          /\ \A k \in DOMAIN log : log[k].ran /\ IsFetch(log[k]) => Sent(log[k]) # Sent(calls[i])

GuardsSound ==
    /\ TypeOK /\ ReplyTrue /\ FetchedOnce /\ WithinLimits /\ FirstRoundCounts
    /\ file \in [schema : Int, of : [Limit -> Nat \cup {Absent}]]
    /\ log \in Seq(Entry)
    /\ phase # "idle" => CountersTrue /\ FetchSound
    /\ IF phase = "tools" THEN RoundSound ELSE deferred = {}
    /\ ProgressSound

\* What must come to an end: a turn, though the model answers every request with
\* further calls.
Waiting == phase # "idle"
=============================================================================
