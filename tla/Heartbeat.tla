------------------------------ MODULE Heartbeat ------------------------------
(***************************************************************************)
(* The background heartbeat of one agent: HeartbeatService with its state   *)
(* store, decisions and execution, the background tasks of AgentRuntime     *)
(* and the HealthMonitor that watches the provider of the agent.            *)
(*                                                                         *)
(* A request for a heartbeat is a ticket.  A tick of one second starts a    *)
(* cycle for the pending ticket or defers it; a cycle that asks the model   *)
(* ends when its background task does.  The runtime state is saved in       *)
(* app_state at every change and read when the service learns of the agent. *)
(*                                                                         *)
(* Times are kept only as far as the code compares them with now: the next  *)
(* due time is none, in the future or passed.  The calls a handler makes    *)
(* run to completion on the Qt event loop, so each is one action.           *)
(***************************************************************************)
EXTENDS Naturals, FiniteSets

CONSTANTS
    Summaries,   \* digests of summaries
    NoSummary,   \* an empty digest
    MaxStates    \* bound: AgentState objects allocated by one process

ASSUME HeartbeatAssumption ==
    /\ NoSummary \notin Summaries
    /\ MaxStates \in Nat \ {0}

VARIABLES
    phase,      \* of the process: "up", "closed", "overflow" (the stack), or
                \* "undefined" once freed memory was used
    policy,     \* HeartbeatPolicy, in heartbeat_policy.json: [enabled, llm]
    store,      \* HeartbeatRuntimeState in the app_state table
    agent,      \* the AgentState in m_agents; NoAgent if there is none
    states,     \* AgentState objects allocated by the process
    tasks,      \* background tasks that run: the object their handlers point to, the ticket
    lost,       \* the task the agent's cycle waits for is gone without a signal
    open,       \* the time is within the active hours
    known,      \* HealthMonitor::providerState
    probing,    \* m_providerProbeRunning
    runtime,    \* the agent has an AgentRuntime
    last,       \* the last summary posted to the user
    repeated    \* a summary was posted twice in a row

vars == <<phase, policy, store, agent, states, tasks, lost, open, known,
          probing, runtime, last, repeated>>

health == <<known, probing, runtime>>
shown  == <<last, repeated>>

-----------------------------------------------------------------------------
\* A HeartbeatTicket.  Nothing looks at requestedAtUtc, reason or payload.
Ticket(kind, priority, key) == [kind |-> kind, priority |-> priority, key |-> key]

NoTicket  == Ticket("none", 0, "")
Automatic == Ticket("auto", 1, "auto")
Manual    == Ticket("manual", 3, "manual")
Recovered == Ticket("event", 2, "provider_recovered")
JobSettled(success) == Ticket("event", IF success THEN 2 ELSE 3, "delegate_job_settled")

Tickets == {NoTicket, Automatic, Manual, Recovered, JobSettled(TRUE), JobSettled(FALSE)}

Dues == {"none", "future", "passed"}

\* HeartbeatRuntimeState.  `unfinished` says that the last start is later than
\* the last completion.  The lane state, the snapshot and the reasons, which are
\* shown but decide nothing here, are left out.
RuntimeState == [ticket : Tickets, unfinished : BOOLEAN, due : Dues,
                 digest : Summaries \cup {NoSummary}]

\* HeartbeatRuntimeState(), what an agent has that was never saved.
FreshState == [ticket |-> NoTicket, unfinished |-> FALSE, due |-> "none",
               digest |-> NoSummary]

\* An AgentState: its runtime state, and the part that is not saved.
\* `ready` says that startupReadyAtUtc has passed.
AgentState == [rs : RuntimeState, suppressed : BOOLEAN, running : BOOLEAN, ready : BOOLEAN,
               id : 1 .. MaxStates]

NoAgent == [id |-> 0]
Present == agent.id # 0

-----------------------------------------------------------------------------
(* Parts of the handlers.                                                  *)

\* scheduleNextDue.
Scheduled(rs, enabled) == [rs EXCEPT !.due = IF enabled THEN "future" ELSE "none"]

\* What restoreRuntimeState makes of the stored state, up to its early return
\* for a pending ticket.
Restored == IF store.due = "none" THEN Scheduled(store, policy.enabled) ELSE store

\* ensureAgent for an agent that is not in m_agents.
NewState == [rs |-> Restored, suppressed |-> FALSE, running |-> FALSE, ready |-> FALSE,
             id |-> states + 1]

\* An interrupted cycle or a missed one asks for a recovery ticket before
\* ensureAgent has inserted the agent: requestTicket calls ensureAgent, which
\* makes another AgentState and restores it from the same row, without end.
Overflows ==
    /\ ~Present
    /\ Restored.ticket = NoTicket
    /\ Restored.unfinished \/ Restored.due = "passed"

\* ensureAgent returns.
Ensured   == IF Present THEN agent ELSE NewState
MayEnsure == phase = "up" /\ ~Overflows /\ (Present \/ states < MaxStates)
Counted   == states' = Ensured.id

Save(a) == agent' = a /\ store' = a.rs

MergeLast(current, ticket) == ticket

\* requestTicket: one ticket is kept.
Merge(current, ticket) ==
    IF current.key = ticket.key
    THEN [current EXCEPT !.priority = IF ticket.priority > @ THEN ticket.priority ELSE @]
    ELSE IF ticket.priority > current.priority THEN ticket ELSE current

Requested(a, ticket) == [a EXCEPT !.rs.ticket = Merge(@, ticket)]

\* Mutant of Completed: the cycle is over, but its flag is not reset.
CompletedRunning(a, ticket) ==
    LET again == ticket.kind # "manual" \/ a.rs.due # "future"
        rs == IF again THEN Scheduled(a.rs, policy.enabled) ELSE a.rs
    IN  [a EXCEPT !.rs = [rs EXCEPT !.unfinished = FALSE]]

\* handleCycleCompleted but for the summary.
Completed(a, ticket) ==
    LET again == ticket.kind # "manual" \/ a.rs.due # "future"
        rs == IF again THEN Scheduled(a.rs, policy.enabled) ELSE a.rs
    IN  [a EXCEPT !.running = FALSE, !.rs = [rs EXCEPT !.unfinished = FALSE]]

\* Mutant of Deliver: the digest of what was posted is not kept.
DeliverOnly(a, summary) ==
    /\ Save(a)
    /\ last' = IF summary = a.rs.digest THEN last ELSE summary
    /\ repeated' = (repeated \/ (summary # a.rs.digest /\ summary = last))

\* handleCycleCompleted posts a summary unless it is the one posted last.
Deliver(a, summary) ==
    /\ Save([a EXCEPT !.rs.digest = summary])
    /\ last' = IF summary = a.rs.digest THEN last ELSE summary
    /\ repeated' = (repeated \/ (summary # a.rs.digest /\ summary = last))

\* handleCycleCompleted.  `told` is deliverToUser.
Complete(a, ticket, told) ==
    \/ /\ told
       /\ \E summary \in Summaries : Deliver(Completed(a, ticket), summary)
    \/ /\ ~told
       /\ Save(Completed(a, ticket))
       /\ UNCHANGED shown

-----------------------------------------------------------------------------
Init ==
    /\ phase = "closed"
    /\ policy = [enabled |-> TRUE, llm |-> TRUE]
    /\ store = FreshState
    /\ agent = NoAgent
    /\ states = 0
    /\ tasks = {}
    /\ lost = FALSE
    /\ open \in BOOLEAN
    /\ known = "unknown"
    /\ probing = FALSE
    /\ runtime = FALSE
    /\ last = NoSummary
    /\ repeated = FALSE

\* ApplicationServices::initialize loads the sessions and starts the heartbeat
\* of every agent.
Start ==
    /\ phase \in {"closed", "overflow"}
    /\ IF Overflows
       THEN phase' = "overflow" /\ UNCHANGED <<agent, store, states>>
       ELSE /\ phase' = "up"
            /\ states' = 1
            /\ IF policy.enabled THEN Save(NewState) ELSE agent' = NewState /\ store' = store
    /\ runtime' \in BOOLEAN
    /\ UNCHANGED <<policy, tasks, lost, open, known, probing, last, repeated>>

\* The process is closed or killed.  Nothing is saved on the way out.
Stop ==
    /\ phase = "up"
    /\ phase' = "closed"
    /\ agent' = NoAgent
    /\ states' = 0
    /\ tasks' = {}
    /\ lost' = FALSE
    /\ known' = "unknown"
    /\ probing' = FALSE
    /\ runtime' = FALSE
    /\ UNCHANGED <<policy, store, open, last, repeated>>

\* Any call of the service that makes it restore an agent that must recover.
Overflow ==
    /\ phase = "up"
    /\ Overflows
    /\ phase' = "overflow"
    /\ agent' = NoAgent
    /\ states' = 0
    /\ tasks' = {}
    /\ lost' = FALSE
    /\ known' = "unknown"
    /\ probing' = FALSE
    /\ runtime' = FALSE
    /\ UNCHANGED <<policy, store, open, last, repeated>>

-----------------------------------------------------------------------------
(* Requests.                                                               *)

\* requestManualHeartbeat and requestEventDrivenHeartbeat.
Request(ticket) ==
    /\ MayEnsure
    /\ Counted
    /\ Save(Requested(Ensured, ticket))
    /\ UNCHANGED <<phase, policy, tasks, lost, open, health, shown>>

\* startAgentHeartbeat, as it is called when a session of the agent is created.
StartAgent ==
    /\ MayEnsure
    /\ Counted
    /\ IF policy.enabled THEN Save(Ensured) ELSE agent' = Ensured /\ store' = store
    /\ UNCHANGED <<phase, policy, tasks, lost, open, health, shown>>

\* suppressAgentHeartbeat and unsuppressAgentHeartbeat, when a delegate tool
\* starts and ends.
Suppress(on) ==
    /\ MayEnsure
    /\ Counted
    /\ agent' = [Ensured EXCEPT !.suppressed = on]
    /\ store' = IF Ensured.rs.ticket = NoTicket THEN store ELSE Ensured.rs
    /\ UNCHANGED <<phase, policy, tasks, lost, open, health, shown>>

\* The settings dialog with the heartbeat enabled: updatePolicy, then
\* startAgentHeartbeat.
Enable(llm) ==
    /\ MayEnsure
    /\ Counted
    /\ policy' = [enabled |-> TRUE, llm |-> llm]
    /\ Save([Ensured EXCEPT !.rs = Scheduled(@, TRUE)])
    /\ UNCHANGED <<phase, tasks, lost, open, health, shown>>

\* The settings dialog with the heartbeat disabled: updatePolicy, then
\* stopAgentHeartbeat deletes the AgentState, whatever still points to it.
Disable ==
    /\ MayEnsure
    /\ Counted
    /\ policy' = [policy EXCEPT !.enabled = FALSE]
    /\ agent' = NoAgent
    /\ store' = Scheduled(Ensured.rs, FALSE)
    /\ lost' = FALSE
    /\ UNCHANGED <<phase, tasks, open, health, shown>>

-----------------------------------------------------------------------------
(* The tick.                                                               *)

\* The first conditions of onTick.
MayTick ==
    /\ phase = "up"
    /\ Present
    /\ policy.enabled \/ agent.rs.ticket # NoTicket
    /\ ~agent.running
    /\ agent.ready

\* What defers the pending ticket.
Blocked ==
    \/ agent.suppressed
    \/ ~open
    \/ known = "down" /\ agent.rs.ticket.kind # "manual"

\* deferTicket; outside the active hours the next due time is moved into them.
TickDefers ==
    /\ MayTick
    /\ agent.rs.ticket # NoTicket
    /\ Blocked
    /\ Save([agent EXCEPT !.rs.due = IF agent.suppressed \/ open THEN @ ELSE "future"])
    /\ UNCHANGED <<phase, policy, states, tasks, lost, open, health, shown>>

\* Without a ticket: a due heartbeat asks for one, a missing due time is set.
TickAsks ==
    /\ MayTick
    /\ agent.rs.ticket = NoTicket
    /\ agent.rs.due # "future"
    /\ Save(IF agent.rs.due = "none" THEN [agent EXCEPT !.rs = Scheduled(@, policy.enabled)]
                                     ELSE Requested(agent, Automatic))
    /\ UNCHANGED <<phase, policy, states, tasks, lost, open, health, shown>>

\* Mutant of Begun: the cycle is not recorded in the state that is saved.
BegunUnsaved == [agent EXCEPT !.running = TRUE]

\* beginCycle takes the ticket.
Begun == [agent EXCEPT !.running = TRUE,
                       !.rs = [@ EXCEPT !.ticket = NoTicket, !.unfinished = TRUE]]

\* HeartbeatDecisionEngine::evaluate: a manual ticket asks the model whenever
\* it may, the others when there is an actionable signal.
Escalates(ticket, signal) == policy.llm /\ (ticket.kind = "manual" \/ signal)

\* beginCycle without the model: the cycle ends at once.  A summary is made up
\* for a manual ticket and, when the policy says so, for signals.  The last two
\* disjuncts are a manual ticket with the provider down and a background task
\* that could not be made.
CycleQuick ==
    LET ticket == agent.rs.ticket
    IN  /\ MayTick
        /\ ticket # NoTicket
        /\ ~Blocked
        /\ \E signal, told, rejected \in BOOLEAN :
              /\ ~Escalates(ticket, signal) \/ known = "down" \/ rejected
              /\ ticket.kind = "manual" => told
              /\ ~signal /\ ticket.kind # "manual" => ~told
              /\ Complete(Begun, ticket, told)
              /\ runtime' = (runtime \/ (Escalates(ticket, signal) /\ known # "down"))
        /\ UNCHANGED <<phase, policy, states, tasks, lost, open, known, probing>>

\* beginCycle with the model: the cycle waits for its background task.
CycleAsks ==
    LET ticket == agent.rs.ticket
    IN  /\ MayTick
        /\ ticket # NoTicket
        /\ ~Blocked
        /\ Escalates(ticket, TRUE)
        /\ known # "down"
        /\ Save(Begun)
        /\ runtime' = TRUE
        /\ tasks' = tasks \cup {[id |-> agent.id, ticket |-> ticket]}
        /\ UNCHANGED <<phase, policy, states, lost, open, known, probing, shown>>

\* The same, when the request fails before sendMessage returns:
\* runBackgroundTask emits backgroundTaskError before beginCycle connects to
\* it, and returns a task id all the same.
CycleDeaf ==
    LET ticket == agent.rs.ticket
    IN  /\ MayTick
        /\ ticket # NoTicket
        /\ ~Blocked
        /\ Escalates(ticket, TRUE)
        /\ known # "down"
        /\ Save(Begun)
        /\ runtime' = TRUE
        /\ lost' = TRUE
        /\ UNCHANGED <<phase, policy, states, tasks, open, known, probing, shown>>

CycleBegins == CycleQuick \/ CycleAsks \/ CycleDeaf

Tick == TickDefers \/ TickAsks \/ CycleBegins

-----------------------------------------------------------------------------
(* Background tasks.                                                       *)

\* backgroundTaskFinished and backgroundTaskError.
TaskEnds(t) ==
    /\ phase = "up"
    /\ t \in tasks
    /\ t.id = agent.id
    /\ tasks' = tasks \ {t}
    /\ \E summary \in Summaries : Deliver(Completed(agent, t.ticket), summary)
    /\ UNCHANGED <<phase, policy, states, lost, open, health>>

\* The handlers of a task hold a plain pointer to the AgentState.
TaskOfRemoved(t) ==
    /\ phase = "up"
    /\ t \in tasks
    /\ t.id # agent.id
    /\ phase' = "undefined"
    /\ UNCHANGED <<policy, store, agent, states, tasks, lost, open, health, shown>>

\* AgentRuntime::abort, when the user stops a turn of the agent, cancels the
\* background tasks too; the runtime goes with the last session of the agent.
\* Neither emits a signal for them.
TasksDropped(gone) ==
    /\ phase = "up"
    /\ runtime
    /\ runtime' = ~gone
    /\ tasks' = {}
    /\ lost' = (lost \/ \E t \in tasks : t.id = agent.id)
    /\ UNCHANGED <<phase, policy, store, agent, states, open, known, probing, shown>>

-----------------------------------------------------------------------------
(* The health monitor.                                                     *)

\* onCheckTick probes the providers of the runtimes that exist.
CheckTick ==
    /\ phase = "up"
    /\ runtime
    /\ ~probing
    /\ probing' = TRUE
    /\ UNCHANGED <<phase, policy, store, agent, states, tasks, lost, open, known,
                   runtime, shown>>

\* The reply to a probe, and what onProviderRecovered makes of it.
ProbeEnds(ok) ==
    /\ phase = "up"
    /\ probing
    /\ probing' = FALSE
    /\ known' = IF ok THEN "ok" ELSE "down"
    /\ IF known = "down" /\ ok /\ Present THEN Save(Requested(agent, Recovered))
                                                 ELSE UNCHANGED <<agent, store>>
    /\ UNCHANGED <<phase, policy, states, tasks, lost, open, runtime, shown>>

-----------------------------------------------------------------------------
(* The environment.                                                        *)

GraceEnds ==
    /\ phase = "up"
    /\ Present
    /\ ~agent.ready
    /\ agent' = [agent EXCEPT !.ready = TRUE]
    /\ UNCHANGED <<phase, policy, store, states, tasks, lost, open, health, shown>>

\* The due time comes, whether or not the process runs.
Late(rs) == IF rs.due = "future" THEN [rs EXCEPT !.due = "passed"] ELSE rs

DueComes ==
    /\ store' = Late(store)
    /\ agent' = IF Present THEN [agent EXCEPT !.rs = Late(@)] ELSE agent
    /\ UNCHANGED <<phase, policy, states, tasks, lost, open, health, shown>>

HoursChange ==
    /\ open' = ~open
    /\ UNCHANGED <<phase, policy, store, agent, states, tasks, lost, health, shown>>

\* A message of the user makes the runtime (ensureRuntimeForAgent).
RuntimeMade ==
    /\ phase = "up"
    /\ runtime' = TRUE
    /\ UNCHANGED <<phase, policy, store, agent, states, tasks, lost, open, known,
                   probing, shown>>

Next ==
    \/ Start \/ Stop \/ Overflow
    \/ Request(Manual)
    \/ \E success \in BOOLEAN : Request(JobSettled(success))
    \/ StartAgent
    \/ \E on \in BOOLEAN : Suppress(on)
    \/ \E llm \in BOOLEAN : Enable(llm)
    \/ Disable
    \/ Tick
    \/ \E t \in tasks : TaskEnds(t) \/ TaskOfRemoved(t)
    \/ \E gone \in BOOLEAN : TasksDropped(gone)
    \/ CheckTick
    \/ \E ok \in BOOLEAN : ProbeEnds(ok)
    \/ GraceEnds \/ DueComes \/ HoursChange \/ RuntimeMade

Spec == Init /\ [][Next]_vars

\* The timers of the service and of the monitor tick, and requests to the model
\* and to the provider end, at the latest by their time-outs.  A provider that is
\* probed again and again answers in the end.
Fairness ==
    /\ WF_vars(Tick)
    /\ WF_vars(GraceEnds)
    /\ WF_vars(\E t \in tasks : TaskEnds(t))
    /\ WF_vars(CheckTick)
    /\ WF_vars(\E ok \in BOOLEAN : ProbeEnds(ok))
    /\ SF_vars(ProbeEnds(TRUE))

FairSpec == Spec /\ Fairness

-----------------------------------------------------------------------------
TypeOK ==
    /\ phase \in {"up", "closed", "overflow", "undefined"}
    /\ policy \in [enabled : BOOLEAN, llm : BOOLEAN]
    /\ store \in RuntimeState
    /\ agent \in AgentState \cup {NoAgent}
    /\ states \in 0 .. MaxStates
    /\ tasks \subseteq [id : 1 .. MaxStates, ticket : Tickets \ {NoTicket}]
    /\ {lost, open, probing, runtime, repeated} \subseteq BOOLEAN
    /\ known \in {"unknown", "ok", "down"}
    /\ last \in Summaries \cup {NoSummary}

\* The background lane of an agent is serial: a cycle waits for one task of its
\* own at most, and a task whose handlers reach the agent belongs to a cycle
\* that runs.
LaneSerial ==
    LET mine == {t \in tasks : t.id = agent.id}
    IN  /\ Cardinality(mine) <= 1
        /\ mine # {} => agent.running /\ ~lost

\* Whenever the process is killed, the row says what the next one has to know:
\* the ticket that waits, and that a cycle was under way.
RowTellsAll ==
    phase = "up" /\ Present =>
        /\ store.ticket = agent.rs.ticket
        /\ agent.running => store.unfinished

\* One cycle at a time, and a kill at any moment leaves a row that tells of it.
CyclesSound == TypeOK /\ LaneSerial /\ RowTellsAll

\* The user is not told the same twice in a row, restarts included: that is
\* what lastSummaryDigest is for.
NoRepeat == ~repeated

\* A ticket that waits, in memory or over a restart, is given up only for one
\* that is at least as urgent, or for the cycle it asks for.
TicketKept ==
    [][store.ticket # NoTicket =>
          \/ store'.ticket.priority >= store.ticket.priority
          \/ CycleBegins]_vars

\* A ticket that nothing defers gets its cycle, unless the cycle before it has
\* lost its background task.
TicketServed ==
    (phase = "up" /\ Present /\ agent.rs.ticket # NoTicket)
        ~> \/ phase # "up" \/ ~Present
           \/ agent.rs.ticket = NoTicket
           \/ Blocked
           \/ lost

\* A provider that answers again is found to, while a runtime needs it.
OutageEnds ==
    (phase = "up" /\ runtime /\ known = "down") ~> (phase # "up" \/ ~runtime \/ known # "down")

\* Heartbeats go on, after deferrals and outages.
BeatsGoOn == TicketServed /\ OutageEnds

\* "重启可恢复": whatever the last process has left, the next one starts.
RestartRecovers == phase # "overflow"

\* Every cycle ends, also one whose background task fails or is cancelled.
CycleEnds ==
    (phase = "up" /\ Present /\ agent.running)
        ~> (phase # "up" \/ ~Present \/ ~agent.running)
=============================================================================
