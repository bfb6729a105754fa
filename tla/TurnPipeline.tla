---------------------------- MODULE TurnPipeline ----------------------------
(***************************************************************************)
(* The turn pipeline of TmAgent: ConversationService, its TurnManager, the *)
(* task state it publishes per session, and the part of WorkspaceService   *)
(* that removes and switches sessions.                                     *)
(*                                                                         *)
(* Everything runs on one Qt event loop, so a handler runs to completion,  *)
(* but handlers call each other: finishing a turn starts the next one, and *)
(* a start may fail synchronously, which finishes that turn inside the     *)
(* handler that is still finishing the previous one.  The variable `stack` *)
(* holds the calls that remain to be made by the handlers now running (the *)
(* innermost first).  Calls from outside (the user, the runtime's signals, *)
(* the delegate scheduler) happen only when it is empty.                   *)
(***************************************************************************)
EXTENDS Naturals, Sequences, FiniteSets

CONSTANTS
    Agents,          \* agent identities
    Sessions,        \* chat sessions that exist at start-up
    AgentOf,         \* the agent that serves a session (its first agent participant)
    NoSession,       \* an empty session id
    HardQueueDepth,  \* kHardQueueDepth
    MergeMax,        \* kQueueMergeMaxMergedMessages
    MaxTurns,        \* bound: turns accepted in a behaviour
    MaxJobs,         \* bound: delegate jobs of an agent running at a time
    MaxRemovals      \* bound: sessions the user removes

ASSUME PipelineAssumption ==
    /\ AgentOf \in [Sessions -> Agents]
    /\ NoSession \notin Sessions
    /\ HardQueueDepth \in Nat \ {0}
    /\ MergeMax \in Nat \ {0}
    /\ MaxTurns \in Nat
    /\ MaxJobs \in Nat
    /\ MaxRemovals \in Nat

VARIABLES
    live,       \* sessions the SessionManager knows
    current,    \* WorkspaceService::m_currentSessionId
    queue,      \* SessionPipeline::queue
    active,     \* SessionPipeline::activeTurn; NoTurn when hasActiveTurn is false
    lane,       \* m_agentActiveSession: the session an agent is working for
    runtime,    \* per agent: the session its signals are tagged with, the turn in flight
    task,       \* the task state of a session: its state and turn_id
    replied,    \* turns of a session whose reply is among the session's messages
    context,    \* turns whose reply was in the history handed to the active turn
    jobs,       \* number of delegate jobs of an agent that still run
    home,       \* the session a turn was accepted for
    terminal,   \* number of turn_completed/_failed/_cancelled events of a turn
    nextTurn,   \* the next turn to be accepted
    stack       \* calls still to be made by the running handlers

vars == <<live, current, queue, active, lane, runtime, task, replied, context,
          jobs, home, terminal, nextTurn, stack>>

-----------------------------------------------------------------------------
TurnIds == 1 .. MaxTurns
Sources == {"user", "internal"}     \* TurnSource: User; TeammateReply or System

\* A TurnTask.  `merged` is mergedMessageCount.
Turn == [id : Nat, source : Sources, merged : Nat]

\* TurnTask(), what activeTurn holds when hasActiveTurn is false.
NoTurn == [id |-> 0, source |-> "user", merged |-> 1]

\* The turn_id a turn carries: internal turns are enqueued without one.
TurnIdOf(t) == IF t.source = "internal" THEN 0 ELSE t.id

TaskStates == {"none", "queued", "running", "blocked", "done", "failed", "canceled"}

HasActive(s)  == active[s].id # 0
SessionsOf(a) == {s \in live : AgentOf[s] = a}
TotalDepth(s) == Len(queue[s]) + IF HasActive(s) THEN 1 ELSE 0

\* updateTaskStateForSession merges a patch: a turn without an id leaves the
\* turn_id that is already there.
TaskAfter(s, state, t) ==
    [task EXCEPT ![s] = [state |-> state,
                         turn  |-> IF TurnIdOf(t) = 0 THEN @.turn ELSE TurnIdOf(t)]]

-----------------------------------------------------------------------------
(* The calls a handler leaves on the stack.                                *)

TryStart(s)       == [call |-> "tryStart", session |-> s]
TryAgent(a, rest) == [call |-> "tryAgent", agent |-> a, rest |-> rest]
Send(s)           == [call |-> "send", session |-> s]
Finished(s, t)    == [call |-> "finished", session |-> s, turn |-> t]
Failed(s, t, transient) ==
    [call |-> "failed", session |-> s, turn |-> t, transient |-> transient]
Release(a, s)     == [call |-> "release", agent |-> a, session |-> s]

Quiet    == stack = <<>>
Next1(c) == stack # <<>> /\ Head(stack).call = c
Return   == stack' = Tail(stack)

\* Mutant of Restart: only the session whose turn has ended is tried again.
RestartSession(s) == <<TryStart(s)>>

\* What a handler calls after it has cleared a turn: the next turn of the same
\* session first, then the other sessions of the agent.  The agent of a session
\* that is gone is not known any more.
Restart(s) ==
    <<TryStart(s)>> \o IF s \in live THEN <<TryAgent(AgentOf[s], SessionsOf(AgentOf[s]))>>
                                     ELSE <<>>

\* Mutant of ClearTurn: the agent's lane is not released.
ClearTurnOnly(s) ==
    /\ active' = [active EXCEPT ![s] = NoTurn]
    /\ lane' = lane

\* clearActiveTurn and the release of the agent's lane.
ClearTurn(s) ==
    /\ active' = [active EXCEPT ![s] = NoTurn]
    /\ lane' = IF s \in live /\ lane[AgentOf[s]] = s
               THEN [lane EXCEPT ![AgentOf[s]] = NoSession]
               ELSE lane

-----------------------------------------------------------------------------
Init ==
    /\ live = Sessions
    /\ current \in Sessions \cup {NoSession}
    /\ queue = [s \in Sessions |-> <<>>]
    /\ active = [s \in Sessions |-> NoTurn]
    /\ lane = [a \in Agents |-> NoSession]
    /\ runtime = [a \in Agents |-> [session |-> NoSession, turn |-> 0]]
    /\ task = [s \in Sessions |-> [state |-> "none", turn |-> 0]]
    /\ replied = [s \in Sessions |-> {}]
    /\ context = [s \in Sessions |-> {}]
    /\ jobs = [a \in Agents |-> 0]
    /\ home = [i \in TurnIds |-> NoSession]
    /\ terminal = [i \in TurnIds |-> 0]
    /\ nextTurn = 1
    /\ stack = <<>>

-----------------------------------------------------------------------------
(* Messages arriving for a session.                                        *)

\* Whether a message may join the last queued turn, when it comes within the
\* merge window and the size limit.  Internal turns have no actor to match.
Mergeable(s) ==
    /\ queue[s] # <<>>
    /\ LET tail == queue[s][Len(queue[s])]
       IN  tail.source = "user" /\ tail.merged < MergeMax

Merged(t) == [t EXCEPT !.merged = @ + 1]

\* Mutant of Enqueued: the turn overtakes those that wait.
EnqueuedFirst(q, turn) == <<turn>> \o q

\* TurnManager::enqueueTurn.
Enqueued(q, turn) == Append(q, turn)

\* enqueueUserMessageAsImpl, when the message joins the last queued turn.
\* Only visible messages may (allowMerge), but they may join a reminder.
MergeMessage(s) ==
    /\ Quiet
    /\ s \in live
    /\ Mergeable(s)
    /\ LET n == Len(queue[s])
       IN  /\ queue' = [queue EXCEPT ![s][n] = Merged(@)]
           /\ task' = TaskAfter(s, "queued", queue[s][n])
    /\ UNCHANGED <<live, current, active, lane, runtime, replied, context, jobs,
                   home, terminal, nextTurn, stack>>

\* The same function, when the message (or a scheduled reminder) becomes a
\* turn of its own: it is not mergeable, or comes after the merge window.
EnqueueMessage(s) ==
    /\ Quiet
    /\ s \in live
    /\ TotalDepth(s) < HardQueueDepth
    /\ nextTurn <= MaxTurns
    /\ LET turn == [id |-> nextTurn, source |-> "user", merged |-> 1]
       IN  /\ queue' = [queue EXCEPT ![s] = Enqueued(@, turn)]
           /\ task' = TaskAfter(s, "queued", turn)
    /\ home' = [home EXCEPT ![nextTurn] = s]
    /\ nextTurn' = nextTurn + 1
    /\ stack' = <<TryStart(s)>>
    /\ UNCHANGED <<live, current, active, lane, runtime, replied, context, jobs, terminal>>

\* handleTeammateReply and enqueueTeammateReplyTurn: the reply becomes a turn
\* of the session that is shown, whatever its depth.
TeammateReply ==
    /\ Quiet
    /\ current # NoSession
    /\ nextTurn <= MaxTurns
    /\ queue' = [queue EXCEPT ![current] =
                    Enqueued(@, [id |-> nextTurn, source |-> "internal", merged |-> 1])]
    /\ home' = [home EXCEPT ![nextTurn] = current]
    /\ nextTurn' = nextTurn + 1
    /\ stack' = <<TryStart(current)>>
    /\ UNCHANGED <<live, current, active, lane, runtime, task, replied, context, jobs, terminal>>

-----------------------------------------------------------------------------
(* Starting turns.                                                         *)

\* Mutant of MayStart: the agent's lane is not checked.
MayStartAnyLane(s) == s \in live /\ ~HasActive(s) /\ queue[s] # <<>>

\* tryStartNextTurn's early returns.
MayStart(s) ==
    /\ s \in live
    /\ ~HasActive(s)
    /\ queue[s] # <<>>
    /\ lane[AgentOf[s]] \in {NoSession, s}

StartTurn ==
    /\ Next1("tryStart")
    /\ LET s == Head(stack).session
           a == AgentOf[s]
           turn == Head(queue[s])
       IN  /\ MayStart(s)
           /\ queue' = [queue EXCEPT ![s] = Tail(@)]
           /\ active' = [active EXCEPT ![s] = turn]
           /\ lane' = [lane EXCEPT ![a] = s]
           /\ runtime' = [runtime EXCEPT ![a].session = s]
           /\ context' = [context EXCEPT ![s] = replied[s]]
           /\ task' = TaskAfter(s, "running", turn)
           /\ stack' = <<Send(s)>> \o Tail(stack)
    /\ UNCHANGED <<live, current, replied, jobs, home, terminal, nextTurn>>

SkipStart ==
    /\ Next1("tryStart")
    /\ ~MayStart(Head(stack).session)
    /\ Return
    /\ UNCHANGED <<live, current, queue, active, lane, runtime, task, replied, context,
                   jobs, home, terminal, nextTurn>>

\* AgentRuntime::sendMessage accepted the request.  A request that was in flight
\* is dropped by LLMAgent without a signal.
SendAccepted ==
    /\ Next1("send")
    /\ LET s == Head(stack).session
       IN  runtime' = [runtime EXCEPT ![AgentOf[s]] = [session |-> s, turn |-> active[s].id]]
    /\ Return
    /\ UNCHANGED <<live, current, queue, active, lane, task, replied, context, jobs,
                   home, terminal, nextTurn>>

\* Mutant of SendRefused: the turn is cleared, but its failure is not reported.
SendRefusedSilently ==
    /\ Next1("send")
    /\ LET s == Head(stack).session
       IN  /\ runtime' = [runtime EXCEPT ![AgentOf[s]].turn = 0]
           /\ ClearTurn(s)
           /\ stack' = Restart(s) \o Tail(stack)
    /\ UNCHANGED <<live, current, queue, task, replied, context, jobs, home, terminal, nextTurn>>

\* No provider can be built for the request: errorOccurred is emitted before
\* sendMessage returns, and onRuntimeError runs here.
SendRefused ==
    /\ Next1("send")
    /\ LET s == Head(stack).session
       IN  /\ runtime' = [runtime EXCEPT ![AgentOf[s]].turn = 0]
           /\ ClearTurn(s)
           /\ stack' = Restart(s) \o <<Failed(s, active[s], FALSE)>> \o Tail(stack)
    /\ UNCHANGED <<live, current, queue, task, replied, context, jobs, home, terminal, nextTurn>>

\* tryStartNextTurnForAgent: the sessions in the order of a QHash, until the
\* agent has work.
OfferSession ==
    /\ Next1("tryAgent")
    /\ LET offer == Head(stack)
       IN  /\ lane[offer.agent] = NoSession
           /\ \E s \in offer.rest :
                 stack' = <<TryStart(s), TryAgent(offer.agent, offer.rest \ {s})>> \o Tail(stack)
    /\ UNCHANGED <<live, current, queue, active, lane, runtime, task, replied, context,
                   jobs, home, terminal, nextTurn>>

StopOffering ==
    /\ Next1("tryAgent")
    /\ Head(stack).rest = {} \/ lane[Head(stack).agent] # NoSession
    /\ Return
    /\ UNCHANGED <<live, current, queue, active, lane, runtime, task, replied, context,
                   jobs, home, terminal, nextTurn>>

-----------------------------------------------------------------------------
(* Turns ending.                                                           *)

\* onRuntimeFinished up to the end of finalizeTurnInternal.  The signal carries
\* the session the runtime was last switched to.
RuntimeFinished(a) ==
    /\ Quiet
    /\ runtime[a].turn # 0
    /\ LET s == runtime[a].session
       IN  /\ ClearTurn(s)
           /\ stack' = Restart(s) \o <<Finished(s, active[s])>>
    /\ runtime' = [runtime EXCEPT ![a].turn = 0]
    /\ UNCHANGED <<live, current, queue, task, replied, context, jobs, home, terminal, nextTurn>>

\* Mutant of KeepsTask: a task state with the id of another turn is kept too.
KeepsOtherTask(s, t) == task[s].state = "blocked" \/ task[s].turn # TurnIdOf(t)

\* onRuntimeFinished does not overwrite "blocked" when this very turn set it.
KeepsTask(s, t) == task[s].state = "blocked" /\ task[s].turn = TurnIdOf(t)

\* The rest of onRuntimeFinished: the task state, the reply, turn_completed.
\* Without a reply text no message is posted.
RecordFinished ==
    /\ Next1("finished")
    /\ LET s == Head(stack).session
           t == Head(stack).turn
       IN  /\ task' = IF KeepsTask(s, t) THEN task ELSE TaskAfter(s, "done", t)
           /\ \/ replied' = [replied EXCEPT ![s] = IF s \in live THEN @ \cup {t.id} ELSE @]
              \/ replied' = replied
           /\ terminal' = [i \in TurnIds |-> terminal[i] + IF i = t.id THEN 1 ELSE 0]
    /\ Return
    /\ UNCHANGED <<live, current, queue, active, lane, runtime, context, jobs, home, nextTurn>>

\* onRuntimeError up to the end of finalizeTurnInternal.
RuntimeFailed(a) ==
    /\ Quiet
    /\ runtime[a].turn # 0
    /\ \E transient \in BOOLEAN :
          LET s == runtime[a].session
          IN  /\ ClearTurn(s)
              /\ stack' = Restart(s) \o <<Failed(s, active[s], transient)>>
    /\ runtime' = [runtime EXCEPT ![a].turn = 0]
    /\ UNCHANGED <<live, current, queue, task, replied, context, jobs, home, terminal, nextTurn>>

\* The rest of onRuntimeError.  While delegate jobs run, a transient error is
\* answered with a reply and leaves the session blocked.
RecordFailed ==
    /\ Next1("failed")
    /\ LET s == Head(stack).session
           t == Head(stack).turn
           recovers == Head(stack).transient /\ s \in live /\ jobs[AgentOf[s]] > 0
       IN  /\ task' = TaskAfter(s, IF recovers THEN "blocked" ELSE "failed", t)
           /\ replied' = IF recovers THEN [replied EXCEPT ![s] = @ \cup {t.id}] ELSE replied
           /\ terminal' = [i \in TurnIds |-> terminal[i] + IF i = t.id THEN 1 ELSE 0]
    /\ Return
    /\ UNCHANGED <<live, current, queue, active, lane, runtime, context, jobs, home, nextTurn>>

\* abortCurrent and abortAndRollback, on a session with an active turn.  They
\* stop whatever the agent's runtime has in flight.
AbortTurn(s) ==
    /\ Quiet
    /\ s \in live
    /\ HasActive(s)
    /\ task' = TaskAfter(s, "canceled", active[s])
    /\ runtime' = [runtime EXCEPT ![AgentOf[s]].turn = 0]
    /\ ClearTurn(s)
    /\ terminal' = [i \in TurnIds |-> terminal[i] + IF i = active[s].id THEN 1 ELSE 0]
    /\ stack' = Restart(s)
    /\ UNCHANGED <<live, current, queue, replied, context, jobs, home, nextTurn>>

-----------------------------------------------------------------------------
(* Delegate jobs, as far as the pipeline sees them.                        *)

\* The tool events of an accepted delegate_task call: "started" publishes
\* running, "completed" publishes blocked unless the job has settled meanwhile.
DelegateAccepted(a) ==
    /\ Quiet
    /\ runtime[a].turn # 0
    /\ jobs[a] < MaxJobs
    /\ LET s == runtime[a].session
       IN  /\ s \in live
           /\ HasActive(s)
           /\ task' = TaskAfter(s, "blocked", active[s])
    /\ jobs' = [jobs EXCEPT ![a] = @ + 1]
    /\ UNCHANGED <<live, current, queue, active, lane, runtime, replied, context,
                   home, terminal, nextTurn, stack>>

\* A delegate_task call that fails: its session goes back to running, although
\* it may have been blocked on an earlier job.
DelegateRefused(a) ==
    /\ Quiet
    /\ MaxJobs > 0
    /\ runtime[a].turn # 0
    /\ LET s == runtime[a].session
       IN  /\ s \in live
           /\ HasActive(s)
           /\ task' = TaskAfter(s, "running", active[s])
    /\ UNCHANGED <<live, current, queue, active, lane, runtime, replied, context, jobs,
                   home, terminal, nextTurn, stack>>

\* An accepted call whose job settles before it is reported as accepted:
\* onDelegateJobSettled has then set the agent's primary session already.
DelegateAcceptedSettled(a) ==
    /\ Quiet
    /\ runtime[a].turn # 0
    /\ jobs[a] < MaxJobs
    /\ LET s == runtime[a].session
       IN  /\ s \in live
           /\ HasActive(s)
           /\ \E primary \in SessionsOf(a), state \in {"done", "failed"} :
                 task' = IF primary = s
                         THEN [TaskAfter(s, "running", active[s]) EXCEPT ![s].state = state]
                         ELSE [TaskAfter(s, "blocked", active[s]) EXCEPT ![primary].state = state]
    /\ UNCHANGED <<live, current, queue, active, lane, runtime, replied, context, jobs,
                   home, terminal, nextTurn, stack>>

\* Mutant of DelegateSettled: a job may settle when none is running any more.
DelegateSettledAgain(a) ==
    /\ Quiet
    /\ SessionsOf(a) # {}
    /\ jobs' = [jobs EXCEPT ![a] = @ - 1]
    /\ \E primary \in SessionsOf(a), state \in {"done", "failed"} :
          task' = [task EXCEPT ![primary].state = state]
    /\ UNCHANGED <<live, current, queue, active, lane, runtime, replied, context,
                   home, terminal, nextTurn, stack>>

\* onDelegateJobSettled: the outcome becomes the task state of the agent's
\* primary session, the one active last, whichever session delegated.
DelegateSettled(a) ==
    /\ Quiet
    /\ jobs[a] > 0
    /\ jobs' = [jobs EXCEPT ![a] = @ - 1]
    /\ IF SessionsOf(a) = {}
       THEN task' = task
       ELSE \E primary \in SessionsOf(a), state \in {"done", "failed"} :
               task' = [task EXCEPT ![primary].state = state]
    /\ UNCHANGED <<live, current, queue, active, lane, runtime, replied, context,
                   home, terminal, nextTurn, stack>>

-----------------------------------------------------------------------------
(* Sessions shown and removed.                                             *)

\* Mutant of SwitchSession: a runtime that works follows the user too.
SwitchBusy(s) ==
    /\ Quiet
    /\ s \in live
    /\ s # current
    /\ current' = s
    /\ runtime' = [runtime EXCEPT ![AgentOf[s]].session = s]
    /\ UNCHANGED <<live, queue, active, lane, task, replied, context, jobs, home,
                   terminal, nextTurn, stack>>

\* WorkspaceService::switchSession: an idle runtime follows the user.
SwitchSession(s) ==
    /\ Quiet
    /\ s \in live
    /\ s # current
    /\ current' = s
    /\ runtime' = IF runtime[AgentOf[s]].turn = 0
                  THEN [runtime EXCEPT ![AgentOf[s]].session = s]
                  ELSE runtime
    /\ UNCHANGED <<live, queue, active, lane, task, replied, context, jobs, home,
                   terminal, nextTurn, stack>>

\* removeSessionAs up to tryStartNextTurnForAgent.
RemoveSession(s) ==
    /\ Quiet
    /\ s \in live
    /\ Cardinality(Sessions \ live) < MaxRemovals
    /\ LET a == AgentOf[s]
           running == runtime[a].turn # 0 /\ lane[a] = s
       IN  /\ runtime' = IF running THEN [runtime EXCEPT ![a].turn = 0] ELSE runtime
           /\ lane' = IF running THEN [lane EXCEPT ![a] = NoSession] ELSE lane
           /\ stack' = <<TryAgent(a, SessionsOf(a) \ {s}), Release(a, s)>>
    /\ live' = live \ {s}
    /\ queue' = [queue EXCEPT ![s] = <<>>]
    /\ active' = [active EXCEPT ![s] = NoTurn]
    /\ task' = [task EXCEPT ![s] = [state |-> "none", turn |-> 0]]
    /\ replied' = [replied EXCEPT ![s] = {}]
    /\ UNCHANGED <<current, context, jobs, home, terminal, nextTurn>>

\* The rest of removeSessionAs.  releaseRuntimeIfUnused keeps the runtime of an
\* agent that has other sessions, but forgets the agent's lane in any case.
ReleaseRuntime ==
    /\ Next1("release")
    /\ LET a == Head(stack).agent
       IN  /\ lane' = [lane EXCEPT ![a] = NoSession]
           /\ runtime' = IF SessionsOf(a) = {}
                         THEN [runtime EXCEPT ![a] = [session |-> NoSession, turn |-> 0]]
                         ELSE runtime
           /\ current' = IF current = Head(stack).session THEN NoSession ELSE current
    /\ Return
    /\ UNCHANGED <<live, queue, active, task, replied, context, jobs, home, terminal, nextTurn>>

-----------------------------------------------------------------------------
\* The calls still to be made by the running handlers.
Step ==
    \/ StartTurn \/ SkipStart
    \/ SendAccepted \/ SendRefused
    \/ OfferSession \/ StopOffering
    \/ RecordFinished \/ RecordFailed
    \/ ReleaseRuntime

RuntimeEnds(a) == RuntimeFinished(a) \/ RuntimeFailed(a)

Next ==
    \/ Step
    \/ \E s \in Sessions : EnqueueMessage(s) \/ MergeMessage(s)
    \/ TeammateReply
    \/ \E a \in Agents : RuntimeEnds(a)
    \/ \E s \in Sessions : AbortTurn(s)
    \/ \E a \in Agents : \/ DelegateAccepted(a) \/ DelegateRefused(a)
                          \/ DelegateAcceptedSettled(a) \/ DelegateSettled(a)
    \/ \E s \in Sessions : SwitchSession(s) \/ RemoveSession(s)

Spec == Init /\ [][Next]_vars

\* A handler runs to completion, and a request that is in flight ends.
Fairness == WF_vars(Step) /\ \A a \in Agents : WF_vars(RuntimeEnds(a))

FairSpec == Spec /\ Fairness

-----------------------------------------------------------------------------
Calls ==
    [call : {"tryStart", "send"}, session : Sessions]
    \cup [call : {"tryAgent"}, agent : Agents, rest : SUBSET Sessions]
    \cup [call : {"finished"}, session : Sessions, turn : Turn]
    \cup [call : {"failed"}, session : Sessions, turn : Turn, transient : BOOLEAN]
    \cup [call : {"release"}, agent : Agents, session : Sessions]

\* Every variable has its type.
TypeOK ==
    /\ live \subseteq Sessions
    /\ current \in Sessions \cup {NoSession}
    /\ queue \in [Sessions -> Seq(Turn)]
    /\ active \in [Sessions -> Turn]
    /\ lane \in [Agents -> Sessions \cup {NoSession}]
    /\ runtime \in [Agents -> [session : Sessions \cup {NoSession}, turn : Nat]]
    /\ task \in [Sessions -> [state : TaskStates, turn : Nat]]
    /\ replied \in [Sessions -> SUBSET Nat]
    /\ context \in [Sessions -> SUBSET Nat]
    /\ jobs \in [Agents -> Nat]
    /\ home \in [TurnIds -> Sessions \cup {NoSession}]
    /\ terminal \in [TurnIds -> Nat]
    /\ nextTurn \in Nat
    /\ stack \in Seq(Calls)
-----------------------------------------------------------------------------
(* What the pipeline promises.                                             *)

\* No session of the agent has been removed yet.
Intact(a) == \A s \in Sessions : AgentOf[s] = a => s \in live

Queued(i) == \E s \in live : \E k \in 1 .. Len(queue[s]) : queue[s][k].id = i
Active(i) == \E s \in live : active[s].id = i
Ending(i) == \E k \in 1 .. Len(stack) :
                stack[k].call \in {"finished", "failed"} /\ stack[k].turn.id = i

Accepted == {i \in TurnIds : home[i] \in live}

\* An agent works on one turn at a time: while its sessions exist, a session
\* with an active turn holds the agent's lane (m_agentActiveSession).
OneTurnPerAgent ==
    \A s \in Sessions : HasActive(s) /\ Intact(AgentOf[s]) => lane[AgentOf[s]] = s

\* A request in flight is tagged with a session, and the lane of an agent is
\* forgotten only after one of its sessions has been removed: with these two the
\* type and OneTurnPerAgent are inductive.
RuntimeTagged == \A a \in Agents : runtime[a].turn # 0 => runtime[a].session \in Sessions

SafeCalls == {c \in Calls : c.call = "release" => ~Intact(c.agent)}

ReleaseAfterRemoval == stack \in Seq(SafeCalls)

IInv == TypeOK /\ RuntimeTagged /\ ReleaseAfterRemoval /\ OneTurnPerAgent

\* Between handlers the lane of an agent is either free or held by an existing
\* session of that agent which has an active turn, so that finishing that turn
\* will free it; also after sessions have been removed.
LaneHeldForATurn ==
    Quiet => \A a \in Agents :
        lane[a] # NoSession => lane[a] \in SessionsOf(a) /\ HasActive(lane[a])

\* Between handlers the active turn of a session is the one its agent's runtime
\* has in flight, tagged with that session: the signal that ends the request
\* will end that turn and no other.
ActiveTurnInFlight ==
    Quiet => \A s \in Sessions :
        HasActive(s) /\ Intact(AgentOf[s])
        => runtime[AgentOf[s]] = [session |-> s, turn |-> active[s].id]

\* A turn accepted for a session that still exists is queued, active, being
\* ended, or has had its one terminal event: handlers that start turns while
\* another turn ends neither lose a turn nor end one twice.
TurnsAccounted ==
    \A i \in Accepted :
        Cardinality({p \in {"queued", "active", "ending", "ended"} :
                        \/ p = "queued" /\ Queued(i)
                        \/ p = "active" /\ Active(i)
                        \/ p = "ending" /\ Ending(i)
                        \/ p = "ended"  /\ terminal[i] = 1}) = 1

\* Turns of a session start in the order in which they were accepted.
StartedInOrder ==
    \A i, j \in Accepted : i < j /\ home[i] = home[j] /\ Queued(i) => Queued(j)

\* At most one of the agent's sessions has been removed.
AtMostOneGone(a) == \A r, s \in Sessions \ live : AgentOf[r] = a /\ AgentOf[s] = a => r = s

\* No wake-up is lost: what frees an agent wakes the turns that wait for it.  When
\* no handler runs, whoever holds a lane will end a turn, and a queued turn waits
\* only for an active turn of its session's agent; also after one of the agent's
\* sessions has been removed (after two, see NoIdleAgent).
WakeUpsKept ==
    /\ LaneHeldForATurn
    /\ Quiet => \A s \in live :
           queue[s] # <<>> /\ AtMostOneGone(AgentOf[s])
           => \E r \in SessionsOf(AgentOf[s]) : HasActive(r)

\* A session without turns does not go on showing the task state of a turn that
\* waits or runs, in whatever order the nested handlers wrote it.
IdleSessionSettled ==
    Quiet => \A s \in live :
        TotalDepth(s) = 0 => task[s].state \notin {"queued", "running"}

\* Every turn accepted gets its terminal event, whatever the other sessions of
\* its agent do.
EveryTurnEnds ==
    \A i \in TurnIds : (home[i] # NoSession) ~> (terminal[i] > 0)

-----------------------------------------------------------------------------
(* What the documentation says and the code does not do.                   *)

\* The vision document's task states: a session with a turn in execution is not
\* shown as done.
DoneMeansIdle ==
    Quiet => \A s \in live : task[s].state = "done" => ~HasActive(s)

\* The architecture document's status table: a normally completed reply takes
\* part in the context of the next turn.
RepliesInContext ==
    Quiet => \A s \in live :
        HasActive(s) => {i \in replied[s] : i < active[s].id} \subseteq context[s]

\* The architecture document's turn states: a turn that runs reaches a terminal
\* state, here as long as its session exists.
TurnOfLiveSessionEnds ==
    \A i \in TurnIds : (home[i] # NoSession) ~> (terminal[i] > 0 \/ home[i] \notin live)

\* What every removal calls tryStartNextTurnForAgent for: no agent stays idle while
\* one of its sessions has a queued turn.  After two removals one may.
NoIdleAgent ==
    Quiet => \A s \in live :
        queue[s] # <<>> => \E r \in SessionsOf(AgentOf[s]) : HasActive(r)
=============================================================================
