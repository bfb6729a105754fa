---------------------------- MODULE AgentRegistry ----------------------------
(***************************************************************************)
(* The agents of a user: their rows in the table identities, their sessions, *)
(* and their directories, which hold their long-term memory and were, before *)
(* the database, also where they were stored.                                *)
(*                                                                         *)
(* WorkspaceService loads all of it once and ChatStateRepository::saveState   *)
(* writes all of it at every save, one statement at a time, and removes what  *)
(* its process does not know.  The desktop and the command line share the     *)
(* files; either may be killed between two statements.  Messages and turns    *)
(* are in SharedStore.  Each agent has one session here.                     *)
(***************************************************************************)
EXTENDS FiniteSets

CONSTANTS
    Processes,  \* programs that may run
    Agents,     \* identities of agents
    Manifests,  \* what may be on the disk at first: "none", "old", "current"
    NoAgent

VARIABLES
    stored,     \* app_state or identities has a row
    rows,       \* agents in identities
    limited,    \* those of them whose allowedTools leave a tool out
    sessions,   \* agents whose session is in the table sessions
    dirs,       \* agents that have a directory
    memories,   \* those of them whose directory has memories in it
    manifest,   \* the manifest of the legacy files
    legacy,     \* agents with a profile among the legacy files
    running,    \* processes that run
    mine,       \* per process: agents of IdentityManager
    reduced,    \* those of them the user has taken a tool from
    open,       \* per process: sessions of SessionManager
    todo,       \* per process: the statements a save has yet to make
    leaving     \* per process: the agent being deleted, and the step it is at

disk == <<stored, rows, limited, sessions, dirs, memories, legacy>>
process == <<running, mine, reduced, open, todo, leaving>>
vars == <<disk, manifest, process>>

TypeOK ==
    /\ stored \in BOOLEAN
    /\ limited \subseteq rows /\ rows \subseteq Agents
    /\ sessions \subseteq Agents
    /\ memories \subseteq dirs /\ legacy \subseteq dirs /\ dirs \subseteq Agents
    /\ manifest \in Manifests
    /\ running \subseteq Processes
    /\ \A p \in Processes :
          /\ reduced[p] \subseteq mine[p] /\ mine[p] \subseteq Agents /\ open[p] \subseteq Agents
          /\ todo[p] \subseteq ({"begin", "identities", "agents", "dirs", "sessions"} \cup Agents)
          /\ leaving[p].agent \in Agents \cup {NoAgent}
          /\ leaving[p].step \in {"none", "session", "memory", "identity"}

Staying == [agent |-> NoAgent, step |-> "none"]

Init ==
    /\ stored = FALSE /\ rows = {} /\ limited = {} /\ sessions = {}
    /\ manifest \in Manifests
    /\ legacy = (IF manifest = "none" THEN {} ELSE Agents)
    /\ dirs = legacy /\ memories = legacy
    /\ running = {}
    /\ mine = [p \in Processes |-> {}] /\ reduced = mine /\ open = mine /\ todo = mine
    /\ leaving = [p \in Processes |-> Staying]

Idle(p) == p \in running /\ todo[p] = {}
Calm(p) == Idle(p) /\ leaving[p] = Staying

WholeSave == {"begin", "identities", "agents", "dirs", "sessions"}

----------------------------------------------------------------------------
(* A start: loadSessionsFromDisk.                                          *)

\* ensureMemoryInitializedForAgent
WithDirs(agents) == dirs \cup agents

\* mergedAllowedTools gives every agent the tools it does not have.
AfterMerge(agents) == {}

Load(p, agents, its) ==
    /\ mine' = [mine EXCEPT ![p] = agents]
    /\ open' = [open EXCEPT ![p] = its]
    /\ reduced' = [reduced EXCEPT ![p] = AfterMerge(agents)]
    /\ dirs' = WithDirs(agents)

\* loadStateFromDb: the tables are used as soon as they have a row.
LoadTables(p) == stored /\ Load(p, rows, sessions) /\ UNCHANGED todo

\* loadStateFromLegacyFiles reads the directories of the agents when the manifest is the
\* current one, and a save follows.
LoadFiles(p) ==
    \/ /\ ~stored /\ manifest = "current" /\ Load(p, legacy, legacy)
       /\ todo' = [todo EXCEPT ![p] = WholeSave]
    \/ ~stored /\ manifest # "current" /\ Load(p, {}, {}) /\ UNCHANGED todo

Start(p) ==
    /\ p \notin running /\ running' = running \cup {p}
    /\ LoadTables(p) \/ LoadFiles(p)
    /\ UNCHANGED <<stored, rows, limited, sessions, memories, legacy, manifest, leaving>>

----------------------------------------------------------------------------
(* saveState, statement by statement.                                      *)

\* The save may be taken up by no other call: nothing in it waits.
Done(p, step) == todo' = [todo EXCEPT ![p] = @ \ {step}]

\* saveManifestAndAppState, the row of the user, then those of the agents.
SaveUser(p) ==
    /\ "begin" \in todo[p] /\ stored' = TRUE
    /\ todo' = [todo EXCEPT ![p] = (@ \ {"begin"}) \cup mine[p]]
    /\ UNCHANGED <<rows, limited, sessions, dirs, memories, legacy, manifest, running, mine,
                   reduced, open, leaving>>

SaveAgent(p, a) ==
    /\ {"identities", a} \subseteq todo[p] /\ "begin" \notin todo[p]
    /\ rows' = rows \cup {a}
    /\ limited' = IF a \in reduced[p] THEN limited \cup {a} ELSE limited \ {a}
    /\ Done(p, a)
    /\ UNCHANGED <<stored, sessions, dirs, memories, legacy, manifest, running, mine, reduced,
                   open, leaving>>

\* saveIdentities removes each row it does not know.
PurgeAgents(p) ==
    /\ "identities" \in todo[p] /\ "begin" \notin todo[p] /\ todo[p] \cap Agents = {}
    /\ rows' = rows \cap mine[p] /\ limited' = limited \cap mine[p]
    /\ Done(p, "identities")
    /\ UNCHANGED <<stored, sessions, dirs, memories, legacy, manifest, running, mine, reduced,
                   open, leaving>>

\* cleanupStaleAgentDirs
\* Mutant of CleanDirs: directories without a session are removed.
CleanDirsClosed(p) ==
    /\ "dirs" \in todo[p] /\ "identities" \notin todo[p]
    /\ dirs' = dirs \cap open[p] /\ memories' = memories \cap open[p] /\ legacy' = legacy \cap open[p]
    /\ todo' = [todo EXCEPT ![p] = (@ \ {"dirs"}) \cup open[p]]
    /\ UNCHANGED <<stored, rows, limited, sessions, manifest, running, mine, reduced, open, leaving>>
CleanDirs(p) ==
    /\ "dirs" \in todo[p] /\ "identities" \notin todo[p]
    /\ dirs' = dirs \cap mine[p] /\ memories' = memories \cap mine[p] /\ legacy' = legacy \cap mine[p]
    /\ todo' = [todo EXCEPT ![p] = (@ \ {"dirs"}) \cup open[p]]
    /\ UNCHANGED <<stored, rows, limited, sessions, manifest, running, mine, reduced, open, leaving>>

SaveSession(p, a) ==
    /\ a \in todo[p] /\ "dirs" \notin todo[p]
    /\ sessions' = sessions \cup {a} /\ Done(p, a)
    /\ UNCHANGED <<stored, rows, limited, dirs, memories, legacy, manifest, running, mine, reduced,
                   open, leaving>>

PurgeSessions(p) ==
    /\ "sessions" \in todo[p] /\ "dirs" \notin todo[p] /\ todo[p] \cap Agents = {}
    /\ sessions' = sessions \cap open[p]
    /\ todo' = [todo EXCEPT ![p] = {}]
    /\ UNCHANGED <<stored, rows, limited, dirs, memories, legacy, manifest, running, mine, reduced,
                   open, leaving>>

----------------------------------------------------------------------------
(* What a user does.                                                       *)

\* createNewSession; createAgentFromDialog with createSessionForIdentityAs.
CreateAgent(p, a) ==
    /\ Calm(p) /\ a \notin mine[p] \cup rows \cup dirs
    /\ mine' = [mine EXCEPT ![p] = @ \cup {a}]
    /\ dirs' = WithDirs({a})
    /\ open' = [open EXCEPT ![p] = @ \cup {a}]
    /\ todo' = [todo EXCEPT ![p] = WholeSave]
    /\ UNCHANGED <<stored, rows, limited, sessions, memories, legacy, manifest, running, reduced,
                   leaving>>

\* The agent notes something.
Remember(p, a) ==
    /\ Calm(p) /\ a \in mine[p] /\ a \notin memories
    /\ dirs' = dirs \cup {a} /\ memories' = memories \cup {a}
    /\ UNCHANGED <<stored, rows, limited, sessions, legacy, manifest, process>>

\* InformationSettingsDialog: setAllowedTools and a save.
TakeTool(p, a) ==
    /\ Calm(p) /\ a \in mine[p] \ reduced[p]
    /\ reduced' = [reduced EXCEPT ![p] = @ \cup {a}]
    /\ todo' = [todo EXCEPT ![p] = WholeSave]
    /\ UNCHANGED <<disk, manifest, running, mine, open, leaving>>

\* A turn, the end of the program or a timer.
Save(p) ==
    /\ Calm(p) /\ todo' = [todo EXCEPT ![p] = WholeSave]
    /\ UNCHANGED <<disk, manifest, running, mine, reduced, open, leaving>>

\* deleteAgentWithConfirmation: removeSessionAs with its own save, removeAgentMemoryAs,
\* which may fail and end it, removeAgent and a save.
RemoveAgent(p, a) ==
    /\ Calm(p) /\ a \in mine[p]
    /\ leaving' = [leaving EXCEPT ![p] = [agent |-> a, step |-> "session"]]
    /\ UNCHANGED <<disk, manifest, running, mine, reduced, open, todo>>

RemoveItsSession(p) ==
    /\ Idle(p) /\ leaving[p].step = "session"
    /\ open' = [open EXCEPT ![p] = @ \ {leaving[p].agent}]
    /\ sessions' = sessions \ {leaving[p].agent}
    /\ todo' = [todo EXCEPT ![p] = IF leaving[p].agent \in open[p] THEN WholeSave ELSE {}]
    /\ leaving' = [leaving EXCEPT ![p].step = "memory"]
    /\ UNCHANGED <<stored, rows, limited, dirs, memories, legacy, manifest, running, mine, reduced>>

RemoveItsMemory(p) ==
    /\ Idle(p) /\ leaving[p].step = "memory"
    /\ LET a == leaving[p].agent IN
       \/ /\ dirs' = dirs \ {a} /\ memories' = memories \ {a} /\ legacy' = legacy \ {a}
          /\ leaving' = [leaving EXCEPT ![p].step = "identity"]
       \/ leaving' = [leaving EXCEPT ![p] = Staying] /\ UNCHANGED <<dirs, memories, legacy>>
    /\ UNCHANGED <<stored, rows, limited, sessions, manifest, running, mine, reduced, open, todo>>

RemoveItsIdentity(p) ==
    /\ Idle(p) /\ leaving[p].step = "identity"
    /\ mine' = [mine EXCEPT ![p] = @ \ {leaving[p].agent}]
    /\ reduced' = [reduced EXCEPT ![p] = @ \ {leaving[p].agent}]
    /\ todo' = [todo EXCEPT ![p] = WholeSave]
    /\ leaving' = [leaving EXCEPT ![p] = Staying]
    /\ UNCHANGED <<disk, manifest, running, open>>

\* The end of the program, whatever it is doing.
Stop(p) ==
    /\ p \in running /\ running' = running \ {p}
    /\ mine' = [mine EXCEPT ![p] = {}] /\ reduced' = [reduced EXCEPT ![p] = {}]
    /\ open' = [open EXCEPT ![p] = {}] /\ todo' = [todo EXCEPT ![p] = {}]
    /\ leaving' = [leaving EXCEPT ![p] = Staying]
    /\ UNCHANGED <<disk, manifest>>

Next == \E p \in Processes :
    \/ Start(p) \/ Stop(p)
    \/ SaveUser(p) \/ PurgeAgents(p) \/ CleanDirs(p) \/ PurgeSessions(p) \/ Save(p)
    \/ RemoveItsSession(p) \/ RemoveItsMemory(p) \/ RemoveItsIdentity(p)
    \/ \E a \in Agents :
          \/ SaveAgent(p, a) \/ SaveSession(p, a)
          \/ CreateAgent(p, a) \/ Remember(p, a) \/ TakeTool(p, a) \/ RemoveAgent(p, a)

Spec == Init /\ [][Next]_vars

----------------------------------------------------------------------------
(* Properties.                                                             *)

\* A session that is stored can be answered: its agent is stored too.  A program may be
\* stopped between any two statements of a save or of a deletion.
SessionHasAgent == sessions \subseteq rows

\* The memory of an agent that is stored goes only when the user deletes that agent.
MemoryStep == \A a \in rows \cap memories :
    a \notin memories' => \E p \in Processes : leaving[p] = [agent |-> a, step |-> "memory"]
MemoryKept == [][MemoryStep]_vars

\* A migration that fails leaves the old data as it was
\* (docs/10_方案/10-架构升级设计方案.md, 迁移可回滚): what the legacy files hold stays there until
\* it is stored, or the user deletes it.
LegacyStep == \A a \in legacy \ rows :
    a \notin legacy' => \E p \in Processes : leaving[p].agent = a
LegacyKept == [][LegacyStep]_vars

\* A tool the user has taken from an agent stays taken after a restart: permissions belong
\* to the identity.
LimitStep == \A p \in Processes : \A a \in limited :
    (p \notin running /\ p \in running') => a \in reduced'[p]
LimitKept == [][LimitStep]_vars

----------------------------------------------------------------------------
(* The inductive invariant, for a program that has the files to itself.    *)

Steps == {"begin", "identities", "agents", "dirs", "sessions"}

Typed ==
    /\ stored \in BOOLEAN /\ running \subseteq Processes
    /\ rows \subseteq Agents /\ limited \subseteq rows /\ sessions \subseteq Agents
    /\ dirs \subseteq Agents /\ memories \subseteq dirs /\ legacy \subseteq dirs
    /\ manifest \in Manifests
    /\ mine \in [Processes -> SUBSET Agents] /\ reduced \in [Processes -> SUBSET Agents]
    /\ open \in [Processes -> SUBSET Agents]
    /\ todo \in [Processes -> SUBSET (Steps \cup Agents)]
    /\ leaving \in [Processes -> [agent : Agents \cup {NoAgent},
                                  step : {"none", "session", "memory", "identity"}]]

\* Where a save is: its statements come in their order, and what it has written is there.
SaveSound(p) ==
    /\ "begin" \in todo[p] => "identities" \in todo[p] /\ todo[p] \cap Agents = {}
    /\ "identities" \in todo[p] => "dirs" \in todo[p]
    /\ "identities" \in todo[p] /\ "begin" \notin todo[p] => mine[p] \subseteq rows \cup todo[p]
    /\ todo[p] # {} /\ "identities" \notin todo[p] => rows = mine[p]
    /\ "identities" \notin todo[p] /\ "dirs" \in todo[p] => todo[p] \cap Agents = {}
    /\ "dirs" \notin todo[p] => todo[p] \cap Agents \subseteq open[p]
    /\ todo[p] # {} /\ "begin" \notin todo[p] => stored

\* A program shows the sessions of its agents, knows the stored ones, and has forgotten the
\* session of an agent whose memory it removes.
ProgramSound(p) ==
    /\ reduced[p] \subseteq mine[p] /\ open[p] \subseteq mine[p] /\ sessions \subseteq mine[p]
    /\ leaving[p].step \in {"memory", "identity"} =>
          leaving[p].agent \notin open[p] \cup sessions
    /\ SaveSound(p)

Resting(p) ==
    /\ mine[p] = {} /\ reduced[p] = {} /\ open[p] = {} /\ todo[p] = {}
    /\ leaving[p] = Staying

RegistrySound ==
    /\ Typed /\ SessionHasAgent
    /\ ~stored => rows = {} /\ sessions = {}
    /\ \A p \in Processes : IF p \in running THEN ProgramSound(p) ELSE Resting(p)
=============================================================================
