---------------------------- MODULE RecordParts ----------------------------
(***************************************************************************)
(* The components that keep the rows, files and views of the program, any  *)
(* of each: the registry of agents, the models, the settings, the command  *)
(* policy, the database, the task of a session and the views of the        *)
(* desktop.                                                                *)
(*                                                                         *)
(* These components share no state, so a behaviour is one of a single      *)
(* component: `part' says which, w1, w2, ... are its variables, and those  *)
(* it does not need stay 0.  MCRecords has further parts of the kind.      *)
(***************************************************************************)
EXTENDS Integers, Sequences

CONSTANTS
    None, Env, Absent, Bad,        \* values of their own
    user,                          \* the user, beside the agents
    Programs, Owners, Manifests,   \* AgentRegistry: programs, agents, files of old
    ProviderIds, Models, MaxModelEdits,          \* ModelCatalog
    SettingJobs, SettingValues, MaxSettingEdits, \* InformationSettings
    ShellPrograms, Commands, Default, Edits, MaxSaves,   \* ShellCommands
    BaseProcesses, BaseTurns, TurnLists, ShownTabs, FormerTabs, OldVersions, \* Database
    ViewSessions, ViewAgents, SessionAgent, OpenedViews, \* ChatViews
    MaxPosts, MaxPieces, MaxQueued, HistoryLimit,
    Writers,                       \* SessionContext: processes that write to a session
    MayFail,                       \* what may fail there
    Delegated, FormerTasks, MaxTasks, MaxMishaps

VARIABLES part,
    w1, w2, w3, w4, w5, w6, w7, w8, w9, w10, w11, w12, w13, w14, w15, w16, w17, w18

-----------------------------------------------------------------------------
Registry == INSTANCE AgentRegistry WITH
    Processes <- Programs, Agents <- Owners, Manifests <- Manifests,
    NoAgent <- None, stored <- w1, rows <- w2, limited <- w3, sessions <- w4,
    dirs <- w5, memories <- w6, manifest <- w7, legacy <- w8, running <- w9,
    mine <- w10, reduced <- w11, open <- w12, todo <- w13, leaving <- w14

Catalog == INSTANCE ModelCatalog WITH
    Ids <- ProviderIds, Models <- Models, MaxEdits <- MaxModelEdits, file <- w1, keychain <- w2,
    saved <- w3, up <- w4, factory <- w5, current <- w6, edits <- w7

Settings == INSTANCE InformationSettings WITH
    Agents <- Owners, Jobs <- SettingJobs, Values <- SettingValues,
    MaxEdits <- MaxSettingEdits, policy <- w1,
    user <- w2, beats <- w3, lanes <- w4, profiles <- w5, jobs <- w6, form <- w7,
    edits <- w8, byHand <- w9, unsaved <- w10

Policy == INSTANCE ShellCommands WITH
    Processes <- ShellPrograms, Commands <- Commands, Default <- Default,
    Edits <- Edits, Nothing <- None, NoCommand <- None, MaxSaves <- MaxSaves,
    file <- w1, writing <- w2, saves <- w3, wish <- w4, ended <- w5

Base == INSTANCE Database WITH
    Processes <- BaseProcesses, TurnLists <- TurnLists, Tabs <- ShownTabs,
    LegacyTabs <- FormerTabs, NoTabs <- None, NoWriter <- None,
    OldVersions <- OldVersions, versions <- w1, tables <- w2, column <- w3,
    proc <- w4, rows <- w5, writer <- w6, whole <- w7, tabState <- w8, wish <- w9,
    shown <- w10

Views == INSTANCE ChatViews WITH
    Sessions <- ViewSessions, Agents <- ViewAgents, AgentOf <- SessionAgent,
    User <- user, Opened <- OpenedViews, NoSession <- None, MaxMessages <- MaxPosts,
    MaxPieces <- MaxPieces, QueueLimit <- MaxQueued, HistoryLimit <- HistoryLimit, session <- w1, view <- w2, active <- w3,
    posted <- w4

Context == INSTANCE SessionContext WITH
    Procs <- Writers, Jobs <- Delegated, Legacy <- {Absent, Bad} \cup FormerTasks,
    NoFile <- Absent, Damaged <- Bad, Null <- None, Failures <- MayFail,
    MaxTurns <- MaxTasks, MaxFailures <- MaxMishaps, row <- w1, file <- w2, cache <- w3,
    loaded <- w4, told <- w5, queue <- w6, active <- w7, turns <- w8, open <- w9,
    snapshot <- w10, checkpoint <- w11, packet <- w12, given <- w13, done <- w14,
    stale <- w15, failures <- w16, removed <- w17, ending <- w18

-----------------------------------------------------------------------------
(* What the values of the constants must be like.                          *)

\* What a save has left to do is a step or an agent to remove, not both.
RegistryAssumption == Registry!Steps \cap Owners = {}

\* A missing key is not a key, and no provider is not a provider.
CatalogAssumption ==
    /\ Absent \notin {None, Env} \cup Models
    /\ None \notin ProviderIds
    /\ MaxModelEdits \in Nat

\* The user is not an agent.
SettingsAssumption == "user" \notin Owners

\* The default policy has every key and none of the patterns of older versions, what the
\* user types has every key, and none of them is no policy.
PolicyAssumption ==
    /\ Default = Policy!Normalized(Default) /\ Default # None
    /\ \A e \in Edits :
          /\ DOMAIN e = Policy!Switches \cup Policy!Lists
          /\ Policy!Typed(e) # None /\ Policy!Normalized(Policy!Typed(e)) # None
    /\ MaxSaves \in Nat

\* Each session has its agent, the user's view is open, the user is not an agent, and a
\* view is filled with one message at least.
ViewsAssumption ==
    /\ SessionAgent \in [ViewSessions -> ViewAgents]
    /\ user \in OpenedViews /\ user \notin ViewAgents
    /\ None \notin ViewSessions
    /\ HistoryLimit \in Nat \ {0}

\* The file is of one of the versions there were.
BaseAssumption == OldVersions \subseteq 0 .. Base!CurrentVersion /\ TurnLists \subseteq Seq(BaseTurns)

\* The task states of the old files are such as the updates leave, and a file that is not
\* there, a damaged one and the value that removes a key are nothing else.
ContextAssumption ==
    /\ MaxTasks \in Nat /\ MaxMishaps \in Nat
    /\ None \notin Context!States
    /\ \A f \in FormerTasks : Context!TaskSound(f)
    /\ Absent \notin Context!Snapshots /\ Bad \notin Context!Snapshots

ASSUME RecordsAssumption ==
    /\ RegistryAssumption /\ CatalogAssumption /\ SettingsAssumption /\ PolicyAssumption
    /\ ViewsAssumption /\ BaseAssumption /\ ContextAssumption

-----------------------------------------------------------------------------
Spare4 == <<w5, w6, w7, w8, w9, w10, w11, w12, w13, w14, w15, w16, w17, w18>>
Spare5 == <<w6, w7, w8, w9, w10, w11, w12, w13, w14, w15, w16, w17, w18>>
Spare7 == <<w8, w9, w10, w11, w12, w13, w14, w15, w16, w17, w18>>
Spare10 == <<w11, w12, w13, w14, w15, w16, w17, w18>>
Spare14 == <<w15, w16, w17, w18>>

Zero14 == w15 = 0 /\ w16 = 0 /\ w17 = 0 /\ w18 = 0
Zero10 == w11 = 0 /\ w12 = 0 /\ w13 = 0 /\ w14 = 0 /\ Zero14
Zero7 == w8 = 0 /\ w9 = 0 /\ w10 = 0 /\ Zero10
Zero5 == w6 = 0 /\ w7 = 0 /\ Zero7
Zero4 == w5 = 0 /\ Zero5

RecordsInit ==
    \/ part = "agents" /\ Registry!Init /\ Zero14
    \/ part = "models" /\ Catalog!Init /\ Zero7
    \/ part = "settings" /\ Settings!Init /\ Zero10
    \/ part = "commands" /\ Policy!Init /\ Zero5
    \/ part = "database" /\ Base!Init /\ Zero10
    \/ part = "views" /\ Views!Init /\ Zero4
    \/ part = "context" /\ Context!Init

RecordsNext ==
    \/ part = "agents" /\ Registry!Next /\ UNCHANGED Spare14
    \/ part = "models" /\ Catalog!Next /\ UNCHANGED Spare7
    \/ part = "settings" /\ Settings!Next /\ UNCHANGED Spare10
    \/ part = "commands" /\ Policy!Next /\ UNCHANGED Spare5
    \/ part = "database" /\ Base!Next /\ UNCHANGED Spare10
    \/ part = "views" /\ Views!Next /\ UNCHANGED Spare4
    \/ part = "context" /\ Context!Next

parts == <<part, w1, w2, w3, w4, w5, w6, w7, w8, w9, w10, w11, w12, w13, w14, w15, w16, w17, w18>>

RecordNames ==
    {"agents", "models", "settings", "commands", "database", "views", "context"}

\* What a behaviour of one of these components is, whatever other parts there are.
RecordsSpec ==
    /\ part \in RecordNames => RecordsInit
    /\ [][part' = part /\ (part \in RecordNames => RecordsNext)]_parts

-----------------------------------------------------------------------------
(* Properties: what each component promises, where it is the one that runs.  *)

\* What is stored is whole and is what was stored.  Stored sessions have their agents,
\* the default model is listed, the settings are those that were made and the saved
\* policy decides; the schema is whole wherever a migration was stopped, saved turns and
\* tabs are those of one save, and what is stored of a task is what its updates make of
\* it (AgentRegistry, ModelCatalog, InformationSettings, ShellCommands, Database,
\* SessionContext).
StoredTrue ==
    CASE part = "agents"   -> Registry!TypeOK /\ Registry!SessionHasAgent
      [] part = "models"   -> Catalog!TypeOK /\ Catalog!DefaultListed
      [] part = "settings" -> Settings!TypeOK /\ Settings!SettingsKept
      [] part = "commands" -> Policy!TypeOK /\ Policy!SavedObeyed
      [] part = "database" -> Base!TypeOK /\ Base!SchemaWhole /\ Base!AloneReady
                                /\ Base!TurnsWhole /\ Base!TabsLatest
      [] part = "context"  -> Context!TypeOK /\ Context!TaskKept /\ Context!DoneIsClean
                                /\ Context!SnapshotOfLast /\ Context!GivenFinished
      [] OTHER             -> TRUE

\* No step loses the memory of an agent the user has not deleted, or the reference
\* to the key of a provider nobody edits (AgentRegistry, ModelCatalog).
NothingLost ==
    [][/\ part = "agents" => Registry!MemoryStep
       /\ part = "models" => Catalog!KeyStep]_parts

\* The active view accounts for every message of its session and no view is locked but
\* while a turn runs.  A message counts if a bubble shows it, if it is not for the chat or
\* has nothing to show, if it is older than the last HistoryLimit and a notice says that
\* such are left out, or if it came without the view being told; nothing is said of a
\* view that was filled anew while a reply was streamed into it (ChatViews).
ViewsTrue == part = "views" => Views!TypeOK /\ Views!NoStuckSending /\ Views!MessagesShown

\* No view shows a message twice (ChatViews).
ViewsOnce == part = "views" => Views!MessagesShownOnce
=============================================================================
