# TmAgent: specifications, model checking and proofs

TmAgent is a Qt desktop application (`src/src/ui`) and a set of command lines (`src/src/cli`)
around one core (`src/src/core`, `src/src/llm`): chat sessions in which agents answer with the
help of language models and tools, do things on their own (heartbeats, reminders), and hand work
to other processes (delegate jobs, teammates). This directory holds TLA+ specifications of the
core, the TLC configurations that check them on small instances, and proofs checked by TLAPS.

Paths below are relative to the repository (`src/...` in the tables of `PROJECT.json`); `CS` is
`src/core/service/ConversationService*.cpp`, and line numbers are those of the commit modelled.

## 1. The system

Almost everything lives on one Qt event loop. A handler therefore runs to completion, and the
difficulties come from handlers that call each other, timers and queued calls that fire later,
nested event loops that let other events in, work that leaves the loop (network replies, child
processes, thread pools) and comes back, and two processes (GUI and CLI) that share a database.

| Component | State it keeps | Operations | Talks to |
|---|---|---|---|
| Conversation service and `TurnManager` (`CS`, `TurnManager.*`) | per session: queue of turns, active turn; per agent: runtime, the session it works for (`m_agentActiveSession`, here the *lane*) | enqueue or merge a message, start the next turn, end a turn (finished, error, abort, rollback), teammate replies, release a runtime | runtime (send, signals), sessions (post), task states, heartbeat, scheduler |
| Agent runtime (`service/runtime/AgentRuntime.*`) | the session its signals are tagged with, running flag, background tasks | `setSessionId`, `sendMessage`, `abort`, `runBackgroundTask` | `LLMAgent`, tool dispatcher |
| Agent loop (`agent/LLMAgent.*`) | messages of the request, tool mode, pending calls and results, guards, dispatch token | `sendRequest`, replies, tool rounds, retries, abort | provider, tools, tool event bus |
| Task state and context of a session (`TaskStateService`, `ConversationContextService`) | per session: a row, a cache in each process, an old file; snapshot, checkpoint and resume packet | load, merge a patch, clear; leave a context at the end of a turn | turns, delegate jobs, persistence |
| Message routing (`MessageRouter`) | none: participants and names | mentions, broadcast, default route | enqueue |
| Workspace service | current session, last synchronised row and saved count per session | create, switch, remove, load, poll every 5 s, append messages | database, conversation service, UI |
| Chat state repository and persistence | SQLite: identities, sessions, messages, pending turns | `saveState`, `loadState`, `appendMessage` | shared by GUI and CLI processes |
| Delegate scheduler (`agent/DelegateTaskScheduler.*`) | jobs, child sessions, activity times | submit, settle, cancel, watchdog, prune | backends (plugins), memory service |
| Tool dispatch (`ToolDispatcher`, `ToolPluginManager`, `McpToolProvider`) | index from tool names to providers, MCP servers with their state and calls under way | rebuild, connect, refresh, call, fail | agents, governance, servers |
| Heartbeat (`service/background/Heartbeat*`, `HealthMonitor`) | per agent: policy, ticket, row of the running cycle, background task; whether the provider is up | request, tick, decide, run, complete, suppress, restore | runtime background task, memory service, app state |
| Scheduler (`service/background/SchedulerService`) | jobs (once, cron), in memory and in `scheduled_jobs.json` | add, change, pause, remove, tick, fire, end of the turn | conversation service (enqueue) |
| Teammates and backends (`TeammateManager`, `plugins/backends`) | mates with thread, turn, timer; one app-server process with requests under way | create, send, reply, fail, time out, remove | conversation service, JSON-RPC |
| Long-term memory (`core/memory`, `plugins/tools/memory`) | documents, an FTS index, a semantic index | retain, write, reflect, promote, forget, search | end of a turn, heartbeat, tools |
| Model providers (`src/llm`) | the request in flight: received lines, fragments of tool calls, attempts | post, receive, retry, time out, abort, report | agent loop |
| Registry of agents (`AgentManager`, `ChatStateRepository`) | identities, their directories and memories, legacy files | create, save, remove, clean up | database, files, both processes |
| Tools (`plugins/tools`) | files of the workspace, command policy, language servers and their download | read, edit, patch, search, run, ask a language server | agent loop, outside processes |
| Settings and models (`governance/ConfigService`, `ui/dialogs`) | `models.yaml`, keys, `memory_policy.json`, `user.md`, command policy, heartbeat policies | load, edit, save, migrate | dialogs, tools, services |
| Journal (`core/logging`, `logcli`) | rows of events, what is held back | append, throttle, flush, import, query, follow | conversation service, database |
| Desktop and terminals (`ui/views`, `QChatWidget`, `src/cli`) | per identity view: session, bubbles, whether a reply is received; per terminal: mode, lines read | events of turns, switch, send, approve, close | services |

Calls and messages that matter most:

* UI → `enqueueUserMessage` → queue → `tryStartNextTurn` → `AgentRuntime::sendMessage` →
  `LLMAgent::sendRequest` → provider; back: `finished` / `errorOccurred` →
  `onRuntimeFinished` / `onRuntimeError` → `finalizeTurnInternal` → `tryStartNextTurn` of the same
  session and of the other sessions of the agent, *before* the first handler has written the task
  state, posted the reply and reported the end of its turn.
* A send can fail before it returns (no provider can be built). `onRuntimeError` then runs inside
  the start, which ran inside the end of another turn.
* A runtime is shared by all sessions of its agent and its signals carry the session it was last
  switched to; nothing in the signal names the turn.
* A tool may wait in a nested event loop (`web_fetch`, external search, MCP, a teammate). The user
  can stop the turn and start another one inside that loop.
* Removing a session clears its pipeline, may stop the runtime and always forgets the agent's lane.

What makes each part correct:

* *Turn pipeline*: one turn of an agent at a time; the signal that ends a request ends the turn it
  was sent for; turns of a session start in order of acceptance; none is lost or ended twice; no
  queued turn is left without a wake-up; every turn ends; the task state shown fits the turns.
* *Agent loop*: results stay with the round they belong to; a turn goes on only when its round is
  over; the service never waits for nothing; the loop is bounded; a stopped turn has no effect.
* *Persistence*: a process never undoes what another one did; every message reaches every process
  once; a queued turn survives a restart and is executed once.
* *Delegate scheduler*: bounded number of running jobs, each settles exactly once and its child is
  stopped; a cancelled job is never reported as completed; every accepted job settles.
* *Heartbeat*: one cycle of an agent at a time, a row that tells of it wherever the process dies, no ticket
  given up for a lesser one, no summary told twice, and heartbeats go on after an outage.
* *Scheduler*: a once job fires once per arming, a cron job at its times; no armed job is forgotten.
* *Teammates*: whatever ends the turn of a mate, the one who asked is told; no mate stays busy.
* *Tools and providers*: each call is answered once, also by servers that stop, lie or say nothing; a reply
  becomes its calls whole, one attempt per message; every request pairs calls and results.
* *Records*: what was written is found, by its writer and by every reader; a crash between two steps leaves
  what the next start can repair; what one process saves another does not undo.
* *Views*: the view of a session shows each of its messages once or says why not (left out as older than the last 300, not for the
  chat, posted without an event for the view), and does not go on sending when the turn is over.

The list of hazards, each at its line, with the properties that cover it or the reason why none
does, is `hazards` in `PROJECT.json`.

## 2. Modules

A module models one component. The smaller components share no state with each other, so their
instances are run side by side in two MC modules, as said in section 3. `RecordParts` holds the instances of those
components of `MCRecords` that are proved about, so that their proofs need no other.

| Module | What it models | Checked by |
|---|---|---|
| `TurnPipeline` | conversation service, turn manager, task state per session, removal and switching of sessions | `MCTurnPipeline`: `core`, `removal`, `live` |
| `TurnPipelineProofs` | the inductive invariants `IInv` and `AccountsInv` and what follows from them | TLAPS |
| `DelegateSchedulerProofs`, `HeartbeatProofs`, `ReminderProofs`, `TeammatesProofs`, `SharedStoreProofs` | the same for the components they are named for | TLAPS |
| `AgentLoopProofs`, `RecordsProofs` | the same for `AgentLoop` and the components that run beside it in `MCAgentLoop`, and for the seven of `RecordParts` | TLAPS |
| `AgentLoop` | `LLMAgent`: requests, retries, tool rounds, nested loops, abort | `MCAgentLoop`: `loop` |
| `ToolGuards` | the counters by which `LLMAgent` ends a turn or makes the model answer, and `tool_loop_policy.json` | `loop` |
| `ReplyStream` | a request of the OpenAI, DeepSeek or Anthropic protocol: lines, fragments of calls, reasoning, the two layers of retries | `loop` (ends), `records` (content) |
| `RequestHistory` | from the messages of a session to the request of each round: sanitising, compacting, merging, trimming | `records` |
| `SharedStore` | the SQLite database shared by desktop and command line: sessions, messages, waiting turns; saves, polls, restarts, crashes | `MCSharedStore`: `sync`, `restart`, `lost` |
| `Database` | the same file at the level of statements: opening, migrations, transactions, tab state | `records` |
| `AgentRegistry` | identities, sessions and directories of agents over saves, deletions, crashes and the legacy files | `records` |
| `DelegateScheduler`, `JobBoard` | delegate jobs and their two backends; what the scheduler promises | `jobs` |
| `Heartbeat` | heartbeats of one agent with store, execution and health monitor | `MCHeartbeat`: `beat` |
| `CronSchedule`, `ReminderScheduler` | the next time of a cron expression; once and cron jobs up to the end of their turns | `MCReminders`: `reminders` |
| `Teammates` | mates of both backends, nested creation, an app-server that may do anything | `MCTeammates`: `mates` |
| `ToolCatalog` | the index of tools, plugins and MCP servers, nested waits | `loop` |
| `LspSessions` | calls to a language server and the download of one | `loop` |
| `Terminals`, `CommandLine`, `AppServerClient` | the interactive terminals, the one-shot command line, the client of `codex app-server` and its probe | `loop` |
| `LongTermMemory`, `SearchTools` | documents and two indexes of the memory; the two search tools | `records` |
| `ModelCatalog` | `models.yaml`, keys and default model, edited by two programs | `records` |
| `InformationSettings` | the settings dialog beside hand-edited files and the agents' own tools | `records` |
| `ShellCommands` | the command policy and what becomes of a command | `records` |
| `WorkspaceFiles` | file and patch tools, and files sent into a session | `records` |
| `EventJournal` | events of turns as they are stored, imported, searched and followed | `records` |
| `ChatViews` | the views of the desktop over all events of a turn, and messages that reach the session without one; what a view is filled with from the session | `records` |
| `MessageRouter` | for whom a message is, and who answers it | `records` |
| `SessionContext` | task state over cache, row and old file; what a finished turn leaves for the next one | `records` |

The comment at the head of each module says what stands for what and what is left out; the variables carry
the names of the members they stand for in their declarations. The three that need more are described here.

### TurnPipeline

| Variable | In the code |
|---|---|
| `live`, `current` | sessions of the `SessionManager`; `m_currentSessionId` |
| `queue`, `active` | `SessionPipeline::queue`, `activeTurn`/`hasActiveTurn` |
| `lane` | `m_agentActiveSession` |
| `runtime[a]` | the session id of the runtime and the turn in flight in its `LLMAgent` (0: none) |
| `task` | task state per session: `state` and `turn_id` |
| `replied`, `context` | turns whose reply is among the messages of the session; those in the history given to the active turn |
| `jobs` | delegate jobs of the agent that run |
| `home`, `terminal`, `nextTurn` | observation: where a turn was accepted, its terminal events, numbering |
| `stack` | the calls that the handlers now on the C++ stack have still to make |

A handler is cut where it calls `tryStartNextTurn`, because everything after that call runs after
the nested start: `RuntimeFinished` is `onRuntimeFinished` up to and including
`clearActiveTurn` and the release of the lane; it leaves on `stack` the start of the next turn of the
session, the offer to the other sessions of the agent (`tryStartNextTurnForAgent`) and
`Finished`, the rest of the handler (task state, reply, event). `StartTurn`/`SkipStart` take one start off
the stack; `Send` follows and is either accepted or refused, and a refusal pushes the handling of
the error. External actions need an empty stack (`Quiet`). This is exact: between two elements of the
stack no event is delivered, because none of these functions opens a nested event loop. It is what
makes the order of the writes visible, which is where the findings below come from.

Abstractions: a message is its turn; texts, histories and participants are left out; merging keeps
the count of merged messages and makes the window and size conditions a free choice; the
order of a `QHash` of sessions is a free choice; which of an agent's sessions is *primary* when a
delegate job settles is a free choice among them (it is the one active last); whether a finished reply is posted (its text may be empty) and whether an error is
transient are free choices.

### AgentLoop

`turn`/`busy` stand for the service: it sends only when it is not waiting, as `TurnPipeline` does.
`request` is a model request whose token is the current one (others are dropped when they answer),
`posts` the zero timers of `QTimer::singleShot(0, ...)`, `frames` the calls of `executeToolCalls` on the
C++ stack, each with the calls it has still to run and the one it waits for, `async` the deferred calls whose
result comes over the tool event bus, `pending` … `retry` the members of `LLMAgent`. `owner` is an observation:
the turn in whose reply a call was made. A tool answers at once, defers its
answer, or waits in a nested event loop (`Frame.at`); other events are delivered only when `Idle`. An `abort` changes the agent's members
but neither timers nor frames, as in the code.

The limits on web_fetch calls, on rounds without progress and on elapsed time appear here as the choice to end a
round, `ToolGuards` has them exactly; those on calls and failed rounds are exact in both, so that `TurnEnds` rests on them alone. The provider gives distinct ids to the calls of one reply, and does not use again an
id that a deferred call or a frame still refers to: this is an assumption on
providers: the code registers an id that occurs twice in a reply twice and answers it once (`LLMAgent.cpp:843`).

### SharedStore

| Variable | In the code |
|---|---|
| `stored`, `rows`, `pending` | the tables `sessions`, `messages` (row id, message, `seq`, 0 if unset), `pending_turns` |
| `phase`, `left` | whether a process is down, in its event loop, in `saveState`, or in its last `saveState`; the sessions that save has not reached |
| `known`, `mem` | sessions of its `SessionManager`, and the messages of each with their `seq` |
| `saved`, `synced` | `m_lastSavedMessageCounts`, `m_lastSyncRowIds` |
| `queue`, `active` | the turns of the process (one agent serves all its sessions) |
| `issued`, `executed`, `created`, `removed`, `crashes`, `failures` | observation: what each message is, how often a turn was started (up to two), what happened |

A handler is one step, a save is one step per session (`SaveSession`) and one for the purge
(`Purge`), so that the other process and a crash come in between. `SaveSession` puts the three
transactions of a session (its row, its messages, its turns) into one step. The properties do not
depend on what lies between them, except that a crash there leaves some of the three old, which a
crash just before or after the step does as well for the properties checked. `Load` reads in one step, `Poll`
polls one session: what it does for one session neither reads nor writes what belongs to another. The
insert that follows the posting of a polled message finds its row and writes nothing.
Which sessions of the command line end with a save (`InteractiveCli.cpp:318-321`: the one it shows) is a free choice, and so is the
order of sessions in a save and on a start (that of a hash). Inserts of messages may fail
(`MaxFailures`), other statements do not. `Made` restricts which kinds of messages an instance
makes. The desktop is one process (the Qt constraints demand a single instance), the command line
is the other.

### How they fit

`TurnPipeline` sees a request as something that ends once (`RuntimeFinished`, `RuntimeFailed`) or is
stopped (`AbortTurn`, `RemoveSession`). `AgentLoop` shows what stands behind it: `EndTurn` happens
at most once per `Send` unless a request outlives an abort. The findings `ghost` and `nested` are
the places where the code does not keep that promise, so the results about the pipeline hold for
executions in which no zero timer outlives an abort and no nested tool loop outlives its turn.
`SharedStore` has the queues of `TurnPipeline` with one agent and without the order inside handlers:
a start is one step with the end or the message that causes it, and removal always stops the turn of the session.

What one module leaves open, another has: `ReplyStream` shows that the request `AgentLoop` waits for ends in a
report, `ToolGuards` that its rounds are bounded, `ToolCatalog` and `LspSessions` that the calls it waits for return;
`RequestHistory` takes any order of messages that `TurnPipeline` and `AgentLoop` may post. `ReminderScheduler`,
`Teammates`, `DelegateScheduler` and `Heartbeat` end in a turn or a message of the pipeline; there it is an accepted
message, a reply or a settled job, here only its end matters. `Heartbeat` assumes of a background task what
`AgentRuntime` shows: it ends with a signal, unless it is cancelled or fails before anybody listens. Settings
meet in files only: `InformationSettings` writes what `Heartbeat` and `ReminderScheduler` take as given.

`DelegateScheduler` implements `JobBoard` (`KeepsBoard`, by `INSTANCE JobBoard WITH`): slots, one outcome that does
not change, told once, and, by the watchdog alone, every accepted job settled. The mapping takes the status of a job while its
runtime is not settled for *active*, so that the board's single `Settle` is the moment at which the code decides the outcome,
whoever calls it, and the board's counter of tellings is the signal `jobSettled`.

## 3. Runs

The smaller components, which share no state, are run in two instances, `loop` and `records`: a variable `part` says which component a behaviour is one
of, `w1`, `w2`, ... are that component's variables, and the others rest. The state space is then the sum of
those of the components, not their product, and a property of such a run is the conjunction of what each of its
components promises, each under the name it has in its module.

| Run | Instance | Shows |
|---|---|---|
| `core` | 1 agent, 2 sessions, 3 turns, depth 2, merges, one delegate job | types, one turn per agent, the end of a request ends its own turn, order, no hanging task state |
| `removal` | 1 agent, 3 sessions, 3 turns, up to two sessions removed at any time | every turn accounted for, wake-ups kept: no lane without a turn and no queued turn that nothing will start |
| `live` | 2 agents (2 + 1 sessions), 2 turns | every accepted turn ends |
| `loop` | `AgentLoop` with 2 requests, 4 call ids, rounds of up to 2 calls, 3 calls per turn, 2 failed rounds, 1 retry; and, as parts, `ReplyStream`, `ToolGuards`, `ToolCatalog`, `LspSessions`, `Terminals`, `CommandLine`, `AppServerClient` | results stay with their round, a round is over before the next request, never waiting for nothing, every turn ends; guards fire when their counts say so (`GuardsTrue`); calls go where they belong and are not lost (`CallsTrue`); answers and lines are given once (`FrontsTrue`); every wait ends (`WaitsEnd`) |
| `sync` | desktop and command line, 1 session, 4 messages, 1 crash | each process sees the messages of the other without gap, repetition or reversal, and every stored message arrives |
| `restart` | desktop, 1 session and a second one created, 3 messages of all kinds, 1 failing insert, 1 removal, no crash | a message and a row id occur once, a turn of the user waits until it is started, once (`RestoredWhole`) |
| `jobs` | 3 jobs, 2 slots, 2 kept in the history, time-outs of 1 and 2 steps | records of a job agree (`JobsSound`), a cancelled job is told as cancelled, and the scheduler implements the board |
| `beat` | 1 agent, 2 summaries, restarts, kills, outages | one cycle and a true row (`CyclesSound`), no summary twice, no ticket given up for a lesser one, heartbeats go on |
| `reminders` | 2 reminders, 3 cron expressions, 4 minutes, a calendar of short days and months, restarts | reminders fire when due and as often as armed, and none that waits is forgotten |
| `mates` | 3 mates (2 codex, 1 built in), 2 messages each, 2 starts of the server | nobody waits for a mate that is not busy, and no mate is busy for ever |
| `records` | the fourteen components named in section 2 | `MemoryTrue`, `StoredTrue`, `ExchangeTrue`, `WritesTrue`, `ViewsTrue`, `ViewsOnce`, `NothingLost`: see below |
| `lost` | desktop and command line, 2 sessions, 3 messages | a finding of section 6 as a counterexample: a session made by the command line is deleted |

What the conjunctions of `records` say:

* `MemoryTrue`: a search after a write finds it, whichever index was stale; no fact is kept twice, none without the
  turn it came from; what is shown is the best of what was found, and all of it while there is room.
* `StoredTrue`: a stored session has its agent; the default model is listed; the settings a user made are those in
  the file after saves by dialog, tools and hand; a command runs only as the policy that was saved allows; a migration
  stopped anywhere leaves a schema the next start completes; saved turns and tabs are those of one save; the task state
  of a session is what the updates that succeeded make of it, whether cached, stored or moved from the old file, and
  the snapshot given to a turn is of one that finished.
* `ExchangeTrue`: in each request calls and answers pair, and the first of a turn ends with its prompt; a reply
  becomes its calls whole, one attempt per message, its reasoning goes back with the results; a message is for those
  its mentions name, each mention is resolved or reported, and one that names nobody is for all.
* `WritesTrue`: a refused edit changes nothing, an insertion keeps every line there was, and a search that does not say its list was cut
  missed nothing (a failing write that leaves a truncated file is modelled and allowed); the journal holds the whole
  reply, the last progress and each old line once, and following it shows what searching it shows.
* `ViewsTrue`: a view does not go on sending when no turn runs, and the active view accounts for every message of its session:
  a bubble shows it; or it is not for the chat, or has nothing to show (calls and results of tools, empty texts, incomplete files);
  or it is older than the last `HistoryLimit` visible ones and a notice says that earlier ones are left out; or it was
  posted without the view being told (`late`: replies of mates, notices of delegate jobs and recovered replies reach the session
  only, and are shown when the view is next filled). Left out is a view that was filled anew while a reply was streamed into it (`apart`).
* `ViewsOnce`: no view shows a message in two bubbles. Files the agent sends and replies are both added as they arrive and restored
  from the session, so that a fill which does not clear the view, or a reply added to what was just filled, would break it.
* `NothingLost`: no save, crash or clean-up loses the memory of an agent or the key of a provider that nobody removed.

The other findings of section 6 are reproduced by hand: TLC reports the violation when one of these is put into the
configuration beside it. `DoneMeansIdle`, `RepliesInContext`, `NoIdleAgent` and, with `FairSpec` and without symmetry,
`TurnOfLiveSessionEnds`: `MCTurnPipeline_removal.cfg`; `CanceledRequestStops` and `CanceledToolsStop`: `MCAgentLoop_loop.cfg`;
`CycleEnds` and `RestartRecovers`: `MCHeartbeat_beat.cfg`; `UpdateHolds`: `MCReminders_reminders.cfg`. `MCRecords_divergences.cfg` has those of
`records`, to be run one at a time.

Bounds. `MaxTurns` bounds what is accepted in a behaviour (ids are never reused), `MaxJobs` and
`MaxRemovals` what the environment does; they appear only in the guards of actions from outside.
Two sessions are enough for competition about an agent's lane, a third is needed so that, after one is removed, two
still compete; three turns allow one that ends, one that starts inside that end and one that
waits; depth 2 reaches the limit and `MergeMax = 2` a full merge. `WakeUpsKept` is about agents that have lost one
session at most (`AtMostOneGone`): this is what the code guarantees after a removal has happened, and the instance
allows two, after which the agent may be left with turns that nothing will start (`NoIdleAgent`, in the divergences);
`OneTurnPerAgent` and `ActiveTurnInFlight` are restricted to agents whose
sessions are all there (`Intact`), because removal breaks them (finding `stuck`). The `loop` instance has
as many calls as two overlapping rounds, one from a stopped turn and one from the next. Symmetry is
used only in safety runs in which what is permuted is interchangeable.

In `sync` messages are notices: a turn adds states but nothing the poll can see. Four messages give one
process two before and after one of the other's, with polls, saves, restarts and a crash anywhere between.
Order is claimed without failing inserts (with them it does not hold, see the hazards), and turns are claimed to
survive for one process without crashes, for the same reason. Starts and closings are unbounded in all three
instances; `executed` counts up to two, because a second start already violates `RestoredWhole`.

Three jobs for two slots refuse one, and a history of two prunes a settled job while others run. In `reminders` two
minutes make an hour and two hours a day, so that every field of an expression comes round within the horizon, but
one expression has a next time beyond it, so that a cron job may be left without one; a
third mate is created only while one of the others has not been (`OneBeside`), enough for two creations that nest in
the loop of each other. `HistoryLimit` is 300 in the code (`IdentityView::restoreChatFromSession`) and 1 in `records`, so that the second visible message
already pushes the first one out and the notice appears; messages that are not for the chat or have nothing to show come in between, because the code counts
the limit after dropping the former and before dropping the latter. `FewBubbles` is a state constraint: a view that is not filled anew
only gathers bubbles. The thinking indicator is not modelled: it has no part in what a bubble holds.
The parts of `loop` and `records` have two of each thing that competes (calls, servers,
terminal requests, processes, sessions, providers, paths) and as many steps, edits or lines as the longest hazard
listed for them takes; their limits (`MaxEdits`, `MaxCalls`, `MaxSends`, ...) bound the outside world only. `Writers` and
`MayFail` are the processes that share a task state and what may fail there: one process, whose reads succeed, in
`records`; two in the configuration of the divergences. The
stream has two events per reply in `loop`, where its end is asked, and four in `records`, where its content is.

`CHECK_DEADLOCK FALSE` stands where the modelled system may really stop: in `loop` and `records`, when requests, calls
or edits have been made and have ended; in `jobs`, when all jobs are settled; in `removal`, when every session is gone or the agent is left idle
(`NoIdleAgent`); in `mates`, when all mates are gone; and in
`beat`, `mates` and the LSP part after freed memory was used (`undefined`), of which nothing can be said.

Fairness. *Pipeline*: `Step` is the rest of a running handler, which runs by itself; `RuntimeEnds(a)`: every
request in flight ends, because each provider request has a time-out (`src/llm/LLMProvider.cpp`) and the tool loop is
bounded, which is what `TurnEnds` and `WaitsEnd` show. *Agent loop*: timers fire, handlers return, a provider answers or
times out, a nested loop is left by its own timer, and a deferred tool reports a result or a failure. *Store*: a save runs
to its end, and the poll is strongly fair: a save disables it for a while, but the timer stays due and the event loop
serves it when the handler has returned; a process may still be closed and started for ever, so `Delivered` ends with the
message or with the closing. *Delegate jobs*: time passes and the watchdog's timer fires; nothing is asked of a backend.
*Heartbeat*: the tick and the check fire, a background task ends (its request has a time-out), and a provider that is probed for ever
answers some time (strong fairness of `ProbeEnds(TRUE)`: `OutageEnds` is about finding out that it does).
*Reminders*: the minute timer fires and a turn ends, which is what `live` shows. *Mates*: the turn timer of a mate fires, a
built-in mate's request ends, a queued removal runs; nothing is asked of the app-server. *Streams, servers, terminals,
command line*: the timers the code starts fire, a nested loop at the top returns when what it waits for is there, the
reader thread and the main thread take their turns. Nothing is assumed of the user or the model anywhere.

## 4. Proofs

TLAPS checks the theorems below for every value of the constants that the assumption of the module allows
(`PipelineAssumption`, `AgentLoopAssumption`, `SchedulerAssumption`, `HeartbeatAssumption`, `ReminderAssumption`,
`TeammatesAssumption`, `StoreAssumption`, `CallsAssumption`, `FrontsAssumption`, `GuardsAssumption`, `RecordsAssumption`): any sets of agents, processes, sessions, calls, jobs and mates, any numbers of turns, messages, crashes, requests, slots or
retries. The assumptions only give the constants types and, where something is counted, finiteness; those that bound the environment (`MaxTurns`, `MaxCalls`, ...)
are arbitrary numbers, so that nothing rests on them. `GuardsAssumption` says of the limits what `LLMAgent.h` makes true of its own: a default
lies between its least and its greatest value, and the least number of tool calls is not zero. `RecordsAssumption` says that the default policy, and what a user types into
the dialog, has every key, that a missing key is not a key, that the user is not an agent and has a view, that each session has an agent, and that a view is filled with at least one message; that the file of the database is of a version there was; and that the
task states in old files are such as the updates leave. The components beside `AgentLoop` and those of `RecordParts` are instantiated with
CONSTANTS of these modules, to which the configurations give values, so that the theorems are about every instance.

Each module states an invariant that is inductive, a lemma per action or per conjunct, and the theorems of the
specification. The invariants were checked with TLC, on the instances of the runs, before they were proved; the runs that stay check the properties.

| Module | Theorem | Property |
|---|---|---|
| `TurnPipelineProofs` | `Invariant`, `TypeCorrect`, `OneTurnAtATime` | the inductive invariant `IInv`; `TypeOK`, `OneTurnPerAgent` |
| | `EndsItsOwnTurn`, `WakesUp`, `IdleIsSettled`, `InOrder`, `EveryTurnAccounted` | `ActiveTurnInFlight`, `WakeUpsKept`, `IdleSessionSettled`, `StartedInOrder`, `TurnsAccounted` |
| `AgentLoopProofs` | `LoopTypes`, `ResultsStay`, `RoundsEnd`, `Advances` | `TypeOK`, `ResultsOfThisTurn`, `RoundOver`, `TurnAdvances` |
| | `ToolCalls`, `Fronts`, `ToolLimits` | `CallsTrue`, `FrontsTrue`, `GuardsTrue` |
| `DelegateSchedulerProofs` | `JobsAgree`, `CancelIsKept`, `ImplementsBoard` | `JobsSound`, `CancelKept`, the steps of `KeepsBoard` |
| `HeartbeatProofs` | `Cycles`, `NothingTwice`, `TicketsWait` | `CyclesSound`, `NoRepeat`, `TicketKept` |
| `ReminderProofs` | `Firings`, `NotForgotten` | `FiringsSound`, `ArmedKept` |
| `TeammatesProofs` | `ToldOfTheEnd` | `NoSilentMate` |
| `SharedStoreProofs` | `TypesHold`, `SeenHolds`, `RestoredHolds` | `TypeOK`, `SeenInOrder`, `RestoredWhole` for one process |
| `RecordsProofs` | `RecordsStored` | `StoredTrue`, for one program at the registry and one process at the task state |
| | `RecordsSettings`, `RecordsContext`, `RecordsDatabase` | its parts, each under its own hypothesis: none for the database |
| | `RecordsNothingLost` | `NothingLost`, for one program at the registry |
| | `RecordsViews` | `ViewsTrue`, for every `HistoryLimit` |

### One turn of an agent (`TurnPipelineProofs`)

`OneTurnPerAgent` says that an active turn's session holds the lane of its agent, as long as the agent's
sessions are all there. It is not inductive alone. Starting a turn takes the lane only if it
is free or already the session's own, so another session with an active turn would hold it; the end of a
turn frees it only for its own session. But `ReleaseRuntime` frees the lane whoever holds it: for that step one needs that
a pending release belongs to an agent that has lost a session (`ReleaseAfterRemoval`), and since `live` only
shrinks (`LiveShrinks`) this stays true while the call waits on the stack. And the end of a request acts on the session the runtime is tagged with,
so the type of `active` is kept only if a request in flight is tagged with a session
(`RuntimeTagged`). Hence `IInv == TypeOK /\ RuntimeTagged /\ ReleaseAfterRemoval /\ OneTurnPerAgent`.
The proof has a lemma per conjunct (`TypeStep`, `TaggedStep`, `ReleaseStep`, `OneTurnStep`), and each lemma a
step per action; `InsertCall` and its neighbours say that what a handler pushes on the stack is a sequence of calls.
`TypeOK` and `OneTurnPerAgent` are checked in the run `core`; the other two conjuncts only serve the proof and are no properties of a run.

### Where every turn is (`AccountsInv`)

The other properties of the pipeline speak of states between handlers, while the code passes through states in which
they do not hold. The invariant `AccountsInv` therefore says what the calls on the stack will still do. For the lane and the runtime
(`CallsSound`): a turn is sent by the first call of the stack, by none further down (`SendsFirst`); the active turn is in flight or is what
that call sends; a lane is held for an active turn, or is about to be forgotten; a queued turn has a turn of its agent ahead of it
or a call on the stack that offers the agent to its session; a session that shows a turn it does not have has a call that will record
its end. For single turns: the ids in a queue grow and are open turns of their session, a turn the stack will record has left
the queue, and each turn is in one of these places. The proof goes over the kinds of calls a handler leaves
(`StartTurn`, `Send`, offers, releases, the two ends), and one lemma gives what all handlers that post several calls have in common.

`WakeUpsKept` turned out to be false for two removals in one agent when the proof was tried (the second one may forget a lane that
is held for a turn that was removed, with a queued turn behind it, and offers it to nobody): TLC confirmed it, the property is now stated for agents that
lost one session at most, and the consequence is in the findings (`NoIdleAgent`).

### Rounds (`AgentLoopProofs`)

`ResultsOfThisTurn` and `RoundOver` rest on where a call is (`Placed`): a frame of `executeToolCalls` has still to run it
or waits for it, or its result is still to come from the bus, and it is in one of these places only, because an id is not used again
while something refers to it. `TurnAdvances` needs in addition that a turn the service waits for is in one of two
phases: a request is under way or due and the last round is over, or the calls without a result are exactly those that are in one of these
places (`Phases`). An `abort` leaves timers and frames, so that both phases must hold for the turn to which a leftover does not belong as well: this is
why the frames carry their turn.

### Limits of the tool loop (`GuardsSound`)

The answer to a turn that is stopped gives counts of its results. `CountersTrue` says that the counters agree with the results at every moment
of the turn, and that their number is below the limit but for the results of the round that runs: the limit is looked at between rounds only. `RoundSound` says where each
call of a round is: it has its result, is deferred, or has not been run. That the same `web_fetch` runs once needs the deferred ones as well, which
are neither in the results nor in what is to come (`FetchSound`): what is remembered are those that ran and those that are deferred, and no two of these are alike. That
the first round never counts as one without progress rests on what a round is compared with: it has a success unless rounds have failed (`ProgressSound`). The counts
follow from lemmas about the cardinality of the positions with a property in a list that grows at its end, those about the last results from the list's definition.

### Calls of tools (`IndexSound`, `LspSound`)

`PluginsFirst` and `OnlyConfigured` are about the index, but calls wait in event loops nested in each other, in which a list is saved and the index is built again;
when the wait returns, the handler goes on where it was. `IndexSound` says of each frame what it still needs (`Fits`): a caller to answer, and, while the list it
began with is still the configured one, a next server that is in it. The proof attempt showed that a tool may be offered by several active plugins, and
`PluginsFirst` now says that it goes to one of them. In `LspSound` a call to a language server is in at most one place: a nested loop, a
notification that has still to be given to it, or the list of those that wait for a download; the state of the call says which, so that each is answered once.

### Terminals, command line and app-server client

An approval that is shown has no answer yet, and a terminal shows one at most, which is what the next line typed answers (`TerminalSound`): `AnsweredOnce` follows for answers typed, ends of turns and
further requests in any order. The command line notes of each call a start and an end; `NotesSound` says that a call it has noted has an end exactly
if it is not pending, so that the entries added when the timer stops a run complete each of them once. `ServerSound` follows the lines of an app-server
through pipe and buffer: those handled, then those complete in the buffer and in the pipe, are those that were written, whatever pieces a read delivers. Lines
are found by rank (the place of a line is the number of line ends before it), not by a fold, so that this too is counting.

### Delegate jobs (`DelegateSchedulerProofs`)

`Sound` relates the fields of a job's runtime (status, settled, the session and its steps, the wish to cancel, who was told);
every operation on a runtime either leaves it as the board sees it or settles it (`Goes`), and an operation is the same
whoever calls it, so that the actions of the scheduler, of the two backends, of the user and of the clock reduce to the lemmas about
operations. That a working job is never pruned from the history needs a count: at most `MaxStored` jobs are
kept and the oldest settled one goes first (`OrderSound`). `ImplementsBoard` is the refinement without its liveness: the initial
states map to the board's, every step to a step of the board or a stutter; `CancelKept` is what the board does not see.

### Heartbeats, reminders, teammates

`BeatInv` says that the agent in memory and its row agree (`Agrees`), that a background task with the id of the agent's present object
belongs to its running cycle, and that ids of objects grow: tasks of removed agents go on, and answer an object that is gone.
`TicketKept` follows, since the row has the ticket of the memory whenever a process may die.

`ReminderInv` follows a job into the file and back: what the file has is what a restart needs to come to the same job
(`SameTerms`), a once job that has fired since it was armed is spent in both, and a cron job waits for the first minute that matches after now
or one that has come. `NextFireTime` is treated by the definition of the search: the least matching minute in its horizon, by
well-founded induction on minutes (`Least`), for any calendar. The first form of `ArmedKept` asked that a restart
finds the next time that is written in the file; the proof failed for a cron job saved without a next time, which TLC then found with an
expression whose next time is beyond the horizon. A start computes the times anew (`loadJobs`), and the property now says
what is to come by the job that is stored.

`MateInv` says that whoever waits does so for a mate that is busy and that its end reaches. What could break it is
an answer taken for another's: request ids start anew with each run of the app-server, while entries of the earlier runs stay. `Threads`
shows that the request for the thread of a mate is made once, and its entry is gone once the thread is known, so that a refusal which finds
such an entry finds a mate nobody waits for; all other entries are of turns, whose refusal is told. The loops of
`createTeammate` are followed by index (`Within`, `LoopAdded`): they are of different mates, so that the one that
returns is the only one for its mate.

### The shared store (`SharedStoreProofs`)

`SeenInOrder` is about a list each process keeps for itself, while the others write to the table between its steps. What
relates them is the order of the table: while no insert fails, every message is stored by the step that posts it, so the rows of a
session are in the order of its messages, none missing (`RowsInOrder`). A process has its own messages and all
rows up to its watermark, and nothing that is not stored (`Received`); the watermark is zero or the id of a row (`Marked`); and it has no gap
in the messages of an author (`InOrder`). A polled row then comes after everything the process has of its author, and
posting does not move the watermark past a row it has not seen. A save of a process writes nothing new in such a session, and its
deletions spare it, because the processes know the sessions that were there at the start (`HomeInv`). The conditions of
the property are the ones the code needs: after a failed insert a later save stores the message out of order (a hazard with a
note), and a session made later may be deleted by the save of a process that does not know it (`lost`).

`RestoredWhole` is about one process that is not killed; with crashes, or with a second process that starts while turns wait,
the code executes turns again. `Alone` follows a turn of the user through closing and starting: while the process runs the sessions it knows are
those that exist, and a turn that was not started is in its queue; while it saves before it ends, the table has what the sessions it has passed
have queued; while it is down, the table has it all. Failing inserts and removals are allowed.

Rows are sorted, and several messages inserted, by rank (`Sorted`, `Insert`: the place of an entry is the number of
those before it), not by a fold: `SortedLists` and `Inserted` then follow from counting, for lists of any length.

### Records (`RecordsProofs`)

The theorems are about `RecordsSpec`: whatever other parts there are, a behaviour of one of these seven components begins and goes on as the
component does. `PartSpec` of `MCRecords`, which the run checks, is a case of it, since its initial states and its steps are `RecordsInit` and
`RecordsNext` or those of another part.

*Registry*: a save is a series of statements, and the program may be killed between any two. `SaveSound` says what the steps that are left presuppose of those that were made,
`ProgramSound` what a running program knows of the database: all sessions stored are of its own agents, and one whose
memory it removes has no session any more. A program that does not run knows nothing (`Resting`), a database that was never written is empty. *`RecordsSettings` and `RecordsNothingLost` assume one program* (`Programs = {p}`): a second
one that starts while the first is storing its agents reads some of them only, and its save removes the directories of the others with their memories;
this is the finding `lost` one level down, and `SessionHasAgent` and `MemoryStep` do not hold then. *Models*: a desktop that runs has migrated the file it
found, and a file without providers has no default (`CatalogSound`). *Settings*: what a dialog shows is of the user and has agents, jobs and values (`SettingsSound`); that what the
user made is in the file is itself inductive. *Policy*: two processes may write the file at once; unless it was lost, what the user saved is either what a load reads while nobody writes, or what
the only writer is about to write (`PolicySound`). `StoredSound` is the conjunction of these four, each where its component runs.

*Database* (`Database!DatabaseSound`; any number of processes, each stopped or started between any two statements). That a file which calls itself current is whole
(`SchemaWhole`) depends on what every process still has to do: `TodoSound` says of the statements a process is left with that each
table and the column is in the file or is made by one of them, and by one that comes before the version is written. It is kept by the steps of the
others, because these only add, and by its own: the query, which comes last, is replaced by a migration that looks for the column before it writes version 3 (`MigrationFacts`,
`TodoRead`), the look by the statement that adds it (`TodoAlter`), any other is made (`TodoTail`). A process that has nobody beside it adds a column
that is missing (`AloneSound`), so that only one that migrates beside another fails (`AloneReady`). What a transaction has written and what it is left with are the turns it
was given (`WriterSound`), and the saved tabs are those saved last or those of the old file while there are none (`TabsSound`).

*Task state and snapshot* (`SessionContext!ContextSound`, for one process whose reads succeed: *`RecordsContext` assumes* `Writers = {p}` and that `"read"` is not among
the failures; with a second process, or a read that fails, an old state overwrites a newer one, which is `OneTruth` among the divergences). What a process loads
is what was told, wherever it finds it (`LoadFacts`), so an update merges into the right state, and an update that says a task is done clears what it waited for
(`GoodPatch`, `MergedSound`). That a snapshot is of the last turn that finished needs the order of turns: a start may happen inside the end of
a turn, whose handler writes after it, and so may ends of turns that fail at once. `TurnsSound` says that only the lowest end on the stack is of a
turn that finished, that it is not older than the last snapshot, and that the active turn and those that wait are younger and in order (`OrderedEnd`, `OrderedStart`, `OrderedPop`).

*Views* (`ChatViews!ViewsSound`; nothing is assumed of the programs, and there may be any number of views, sessions and messages). That a
view which receives a reply shows a session with a turn (`ViewSound`) is kept because whatever ends a turn reaches every view that *lists* the session, not only
the one that shows it; so the invariant also says that a view lists the session it shows as long as that is there, which `Listed` establishes
from the sessions themselves, and that a view shows only sessions its identity takes part in, so that the events of a session go to it.
`AllShown`, the active view accounts for each message of the session (`Accounted`; unless `apart`: the view was filled anew during a reply), would be
lost if a piece of a reply were written into the bubble of a message. `RowSound` excludes it: the row a view writes to (`pending`) is empty or begins with a
piece, and only the active view has such a row (`ViewsSound`, last lines), because leaving a view resets it. The steps of a view are then of two kinds: those that keep
it (`Kept`: bubbles grow, in the sense of `Grown`, and the row stays or is given up), and those that fill it anew from the session (`ActivatedGood`, `SwitchedGood`,
`RestoredGood`). What a fill gives is `HistoryFacts`: a recent message that has something to show is a bubble, because the bubbles are the recent messages by rank
(`SortedFacts`), and the notice is there if any visible message is not recent. A message posted later only pushes others out (`RecentAppend`), and then
either the view was not filled since, and its bubble is still there, or the fill has left the notice. That no message is shown twice (`ViewsOnce`) is not proved.

### Only model-checked

* Liveness under fairness (`EveryTurnEnds`, `TurnEnds`, `WaitsEnd`, `Delivered`, `BeatsGoOn`, `ReminderFires`, `BusyEnds`, the
  fairness of `KeepsBoard`) and ENABLED are out of the prover's reach.
* What a fold, a sort or a filter computes for sequences of any length (`ReplyStream!Merged`,
  `RequestHistory!Normalized`, the searches), because the induction theorems of the library cannot be instantiated.
* `ViewsOnce`, which needs that numbers of messages are new and different in every list of bubbles and messages.
* The conjunctions `MemoryTrue`, `ExchangeTrue` and `WritesTrue` of `records`. Most of their parts are about what folds, sorts and filters of
  sequences give (searches, the history of a request, merged fragments, texts of files, the answer of a query of the journal), which is
  induction over data.

## 5. Plan

What is left:

1. Proofs: `ViewsOnce`; `DeltasWhole` and `ImportedOnce` of the journal once their filters and folds are written as functions by rank, as in
   `SharedStore`; `ThinkingCarried` of `ReplyStream`.
2. Models: an abstract log of messages that `SharedStore` implements while no insert fails; the
   composition of a reminder with the queue that merges a message into its turn (the hazard at `SchedulerService.cpp:366`).

## 6. Where the code and its documents disagree

Found while modelling; `findings` in `PROJECT.json` quotes code and document for each and names its configuration or property.

* `stuck`: removing a session forgets the lane of its agent although another session holds it; two
  turns then share one runtime and one of them never ends (`TurnOfLiveSessionEnds`). After two removals the agent may
  also be left idle with a turn in a queue (`NoIdleAgent`).
* `done`: the next turn starts before the task state of the previous one is written; a working session shows done
  (`DoneMeansIdle`).
* `context`: the next turn takes its history before the previous reply is posted (`RepliesInContext`).
* `ghost`: the zero timer of a retry or tool round survives `abort` and sends a request for a stopped turn
  (`CanceledRequestStops`).
* `nested`: a tool loop that was interrupted in a nested event loop goes on when the next turn is in tool mode
  (`CanceledToolsStop`).
* `lost`: a save of the desktop deletes the session, with its messages, that the command line created after the
  desktop was started: it is in the database and the desktop does not know it.
* `beat`: a start after an interrupted heartbeat recurses between `restoreRuntimeState` and `requestTicket` (`RestartRecovers`).
* `cycle`: a background task that fails at once, or is cancelled, leaves its heartbeat cycle running for ever (`CycleEnds`).
* `snooze`: the end of the turn of an earlier firing removes a once reminder that was given a new time meanwhile
  (`UpdateHolds`).
* `divergences`: a long tool round drops the prompt of its own turn from the request (`PromptShown`); reasoning left by a failed
  reply goes with a later one (`OwnThinking`); the file tools answer OK to edits that were not made (`OkMeansDone`); a
  process whose migration lost a race goes on without its database (`RunsWithDatabase`); a failed migration is followed by the removal of
  the old data (`LegacyKept`); a tool taken from an agent comes back at the next start (`LimitKept`); the dialog of the command
  policy promises what the plugin does not do (`DialogTrue`); the first agent of a group answers whoever is mentioned
  (`MentionObeyed`); a second process, or a row that could not be read, undoes task states (`OneTruth`). `OneReport` shows beside them that a request which runs out of
  time is reported twice (`LLMProvider.cpp:24`), and `ContextAgrees` that a snapshot may carry the goal of a turn queued
  meanwhile, a resume packet that of a snapshot that was not saved, and that a removed session may leave its task
  state; no document says that they may not.

Observed, but without a configuration, because no document says what is right: see the hazards with a note.

## 7. Not modelled

* How a text is cut into words and mentions, and mentions that are handed to the router ready-made, which only
  tests do.
* Texts: prompts, summaries, titles, formats of rows and requests, the similarity of texts in a search. They are data of the
  models, or choices.
* Layout and styles of the user interface and the widgets that only show; discovery of plugins; sinks of debug
  messages; the parser of sources and fetching of pages, which change no state of the program.
* `src/core/tools` repeats most of the files of `src/plugins/tools`; the map names one of each.
* Failures of the disk, and of statements of SQLite other than a message insert or a migration.
* Nothing under `src/src` submits a delegate job: plugins may, and the tests do, so the behaviours with `MaxJobs > 0` and
  those of `DelegateScheduler` are those of an installation with such a plugin.
