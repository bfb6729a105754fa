----------------------------- MODULE MCAgentLoop -----------------------------
(***************************************************************************)
(* The instance of AgentLoop for TLC, with instances of the components in  *)
(* which somebody else waits for an answer: the requests to a model, the   *)
(* guards of the tool loop, the language servers, the terminals, the       *)
(* command line and the client of an app-server.                           *)
(*                                                                         *)
(* These components share no state, so a behaviour is one of a single      *)
(* component: `part' says which, w1, w2, ... are its variables, and those  *)
(* it does not need stay 0.  AgentLoop has variables of its own, which rest*)
(* in the behaviours of the others.                                        *)
(***************************************************************************)
EXTENDS AgentLoop, Integers, TLC

CONSTANTS
    c1, c2, c3, c4, NoRequest, Mcp, a1, n1, n2, g1, v1, v2,   \* values of their own
    ToolNames, ToolAgents, ToolPlugins, ToolServers,    \* ToolCatalog
    PluginTools, ServerTools, AsyncServers, Configurations, ToolEdits, CallsPerAgent, ToolDepth,
    LspCalls, LspRequests,                              \* LspSessions
    Approvals, MaxTyped,                                \* Terminals
    CommandCalls, CommandRound,                         \* CommandLine
    MaxLines, MaxStarts,                                \* AppServerClient
    GuardCalls, GuardOutcomes, GuardPolicies, GuardDefaults, GuardLowest, GuardHighest,
    GuardRound, GuardRecent                             \* ToolGuards

VARIABLES part,
    w1, w2, w3, w4, w5, w6, w7, w8, w9, w10, w11, w12, w13, w14, w15, w16, w17, w18, w19, w20

-----------------------------------------------------------------------------
\* Two fetches, one without url, a status query of a delegate job and a tool that
\* is not allowed.
SomeCalls ==
    {[tool |-> "web_fetch", args |-> a] : a \in {"u", "none"}} \cup
    {[tool |-> t, args |-> "a"] : t \in {"delegate_status", "closed"}}

SomeOutcomes ==
    {[success |-> TRUE, text |-> t, marks |-> {}] : t \in {"done", "running"}} \cup
    {[success |-> FALSE, text |-> "error", marks |-> m] : m \in {{}, {"policy"}}}

SomeDefaults == [time |-> 300, total |-> 3, fetch |-> 3, noProgress |-> 2, failed |-> 2]
SomeLowest   == [time |-> 5, total |-> 2, fetch |-> 1, noProgress |-> 1, failed |-> 1]
SomeHighest  == [time |-> 300, total |-> 3, fetch |-> 3, noProgress |-> 2, failed |-> 2]

\* No readable file, and one with a key missing, a limit below and one above what
\* is accepted.
SomePolicies ==
    {[schema |-> -1, of |-> [l \in DOMAIN SomeDefaults |-> -1]],
     [schema |-> 5, of |-> [time |-> 60, total |-> 0, fetch |-> 9, noProgress |-> -1, failed |-> 1]]}

\* A server offers a tool under the name of one of the plugin.
ToolsOfPlugins == g1 :> {n1}
ToolsOfServers == v1 :> {n1, n2} @@ v2 :> {n2}
SomeConfigurations == {<<>>, <<v2, v1>>}

Stream == INSTANCE ReplyStream WITH
    Kinds <- {"openai", "deepseek", "anthropic"}, Indexes <- {0, 1},
    MaxAttempts <- 1, Retries <- 1, MaxSends <- 2, MaxEvents <- 2, kind <- w1,
    phase <- w2, sends <- w3, exchange <- w4, stream <- w5, attempts <- w6,
    retry <- w7, text <- w8, thinking <- w9, history <- w10, body <- w11,
    reports <- w12

Guards == INSTANCE ToolGuards WITH
    Calls <- GuardCalls, Outcomes <- GuardOutcomes, Policies <- GuardPolicies,
    Defaults <- GuardDefaults, Lowest <- GuardLowest, Highest <- GuardHighest,
    RoundMax <- GuardRound, RecentMax <- GuardRecent, file <- w1, limits <- w2, phase <- w3,
    calls <- w4, at <- w5, results <- w6, autofilled <- w7, deferred <- w8,
    total <- w9, fetches <- w10, failures <- w11, noProgress <- w12, failed <- w13,
    lastPlan <- w14, lastOutcome <- w15, seen <- w16, timed <- w17, recent <- w18,
    ended <- w19, log <- w20

Index == INSTANCE ToolCatalog WITH
    Names <- ToolNames, Agents <- ToolAgents, Plugins <- ToolPlugins,
    PluginTools <- PluginTools, Servers <- ToolServers, Offers <- ServerTools,
    Async <- AsyncServers, Nobody <- NoRequest, ServerLists <- Configurations,
    MaxEdits <- ToolEdits, MaxCalls <- CallsPerAgent, MaxDepth <- ToolDepth,
    servers <- w1, storage <- w2,
    tools <- w3, cache <- w4, known <- w5, working <- w6, enabled <- w7,
    owner <- w8, frames <- w9, call <- w10, made <- w11, undefined <- w12

Lsp == INSTANCE LspSessions WITH
    Calls <- LspCalls, MaxSteps <- LspRequests, state <- w1, given <- w2, clangd <- w3,
    download <- w4, waiters <- w5, client <- w6, callbacks <- w7, asked <- w8,
    sent <- w9, frames <- w10, undefined <- w11

Terminal == INSTANCE Terminals WITH
    Lines <- {"text", "quit", "switch"}, Requests <- Approvals, Nothing <- NoRequest,
    MaxTyped <- MaxTyped, mode <- w1, phase <- w2, results <- w3, stdin <- w4, typed <- w5,
    closed <- w6, readers <- w7, posted <- w8, waiting <- w9, turn <- w10,
    shown <- w11, asked <- w12, replies <- w13

Command == INSTANCE CommandLine WITH
    Calls <- CommandCalls, MaxRound <- CommandRound, args <- w1, phase <- w2, pending <- w3,
    asked <- w4, timer <- w5, entries <- w6, printed <- w7, exit <- w8

Server == INSTANCE AppServerClient WITH
    MaxLines <- MaxLines, MaxStarts <- MaxStarts, process <- w1, ended <- w2, written <- w3,
    pipe <- w4, buffer <- w5, handled <- w6, nextId <- w7, ready <- w8, probe <- w9

-----------------------------------------------------------------------------
(* What the values of the constants must be like.                          *)

ASSUME CallsAssumption ==
    /\ PluginTools \in [ToolPlugins -> SUBSET ToolNames]
    /\ ServerTools \in [ToolServers -> SUBSET ToolNames]
    /\ Configurations \subseteq Seq(ToolServers)
    /\ Mcp \notin ToolPlugins /\ Mcp # NoRequest
    /\ NoRequest \notin ToolPlugins \cup ToolServers
    /\ ToolEdits \in Nat /\ CallsPerAgent \in Nat /\ LspRequests \in Nat

\* The limits of LLMAgent.h are such numbers.
ASSUME GuardsAssumption ==
    LET Limit == {"time", "total", "fetch", "noProgress", "failed"}
    IN  /\ GuardDefaults \in [Limit -> Nat] /\ GuardLowest \in [Limit -> Nat] /\ GuardHighest \in [Limit -> Nat]
        /\ \A l \in Limit : GuardDefaults[l] \in GuardLowest[l] .. GuardHighest[l]
        /\ GuardLowest.total > 0
        /\ GuardPolicies \subseteq [schema : Int, of : [Limit -> Nat \cup {-1}]]
        /\ \A o \in GuardOutcomes : o.success \in BOOLEAN
        /\ GuardRound \in Nat /\ GuardRecent \in Nat \ {0}

ASSUME FrontsAssumption ==
    /\ NoRequest \notin Approvals
    /\ IsFiniteSet(CommandCalls)
    /\ MaxTyped \in Nat /\ MaxLines \in Nat /\ MaxStarts \in Nat

-----------------------------------------------------------------------------
Spare0 == <<w1, w2, w3, w4, w5, w6, w7, w8, w9, w10, w11, w12, w13, w14, w15, w16, w17, w18, w19, w20>>
Spare8 == <<w9, w10, w11, w12, w13, w14, w15, w16, w17, w18, w19, w20>>
Spare9 == <<w10, w11, w12, w13, w14, w15, w16, w17, w18, w19, w20>>
Spare11 == <<w12, w13, w14, w15, w16, w17, w18, w19, w20>>
Spare12 == <<w13, w14, w15, w16, w17, w18, w19, w20>>
Spare13 == <<w14, w15, w16, w17, w18, w19, w20>>

Zero13 == w14 = 0 /\ w15 = 0 /\ w16 = 0 /\ w17 = 0 /\ w18 = 0 /\ w19 = 0 /\ w20 = 0
Zero12 == w13 = 0 /\ Zero13
Zero11 == w12 = 0 /\ Zero12
Zero9 == w10 = 0 /\ w11 = 0 /\ Zero11
Zero8 == w9 = 0 /\ Zero9
Zero0 == w1 = 0 /\ w2 = 0 /\ w3 = 0 /\ w4 = 0 /\ w5 = 0 /\ w6 = 0 /\ w7 = 0 /\
         w8 = 0 /\ Zero8

PartInit ==
    /\ Init
    /\ \/ part = "loop" /\ Zero0
       \/ part = "stream" /\ Stream!Init /\ Zero12
       \/ part = "guards" /\ Guards!Init
       \/ part = "tools" /\ Index!Init /\ Zero12
       \/ part = "lsp" /\ Lsp!Init /\ Zero11
       \/ part = "terminal" /\ Terminal!Init /\ Zero13
       \/ part = "command" /\ Command!Init /\ Zero8
       \/ part = "server" /\ Server!Init /\ Zero9

PartNext ==
    /\ \/ part = "loop" /\ Next /\ UNCHANGED Spare0
       \/ part = "stream" /\ Stream!Next /\ UNCHANGED <<Spare12, vars>>
       \/ part = "guards" /\ Guards!Next /\ UNCHANGED vars
       \/ part = "tools" /\ Index!Next /\ UNCHANGED <<Spare12, vars>>
       \/ part = "lsp" /\ Lsp!Next /\ UNCHANGED <<Spare11, vars>>
       \/ part = "terminal" /\ Terminal!Next /\ UNCHANGED <<Spare13, vars>>
       \/ part = "command" /\ Command!Next /\ UNCHANGED <<Spare8, vars>>
       \/ part = "server" /\ Server!Next /\ UNCHANGED <<Spare9, vars>>
    /\ UNCHANGED part

PartSpec == PartInit /\ [][PartNext]_<<part, vars, Spare0>>

-----------------------------------------------------------------------------
StreamVars == <<w1, w2, w3, w4, w5, w6, w7, w8, w9, w10, w11, w12>>
GuardsVars == <<w1, w2, w3, w4, w5, w6, w7, w8, w9, w10, w11, w12, w13, w14, w15, w16, w17, w18, w19, w20>>
IndexVars == <<w1, w2, w3, w4, w5, w6, w7, w8, w9, w10, w11, w12>>
LspVars == <<w1, w2, w3, w4, w5, w6, w7, w8, w9, w10, w11>>
TerminalVars == <<w1, w2, w3, w4, w5, w6, w7, w8, w9, w10, w11, w12, w13>>
CommandVars == <<w1, w2, w3, w4, w5, w6, w7, w8>>
ServerVars == <<w1, w2, w3, w4, w5, w6, w7, w8, w9>>

\* The fairness of each component, as its module states it.
PartFairness ==
    /\ Fairness
    /\ WF_StreamVars(part = "stream" /\ Stream!TimeUp)
    /\ WF_StreamVars(part = "stream" /\ Stream!SendAgain)
    /\ WF_GuardsVars(part = "guards" /\ (Guards!ToolReply \/ Guards!LastReply))
    /\ WF_GuardsVars(part = "guards" /\ Guards!RunTools)
    /\ \A i \in 1 .. GuardRound : WF_GuardsVars(part = "guards" /\ Guards!DeferredResult(i))
    /\ WF_IndexVars(part = "tools" /\ Index!Returns)
    /\ \A i \in 1 .. ToolDepth : WF_IndexVars(part = "tools" /\ Index!Fails(i))
    /\ \A a \in ToolAgents : WF_IndexVars(part = "tools" /\ Index!Replies(a))
    /\ WF_LspVars(part = "lsp" /\ Lsp!LoopEnds)
    /\ WF_LspVars(part = "lsp" /\ Lsp!Returns)
    /\ WF_LspVars(part = "lsp" /\ Lsp!DownloadEnds)
    /\ WF_TerminalVars(part = "terminal" /\ Terminal!Reads)
    /\ WF_TerminalVars(part = "terminal" /\ Terminal!Chooses)
    /\ WF_TerminalVars(part = "terminal" /\ Terminal!Handles)
    /\ WF_CommandVars(part = "command" /\ Command!Parse)
    /\ WF_CommandVars(part = "command" /\ Command!Command)
    /\ WF_CommandVars(part = "command" /\ Command!Run)
    /\ WF_CommandVars(part = "command" /\ Command!OnTimeout)
    /\ WF_ServerVars(part = "server" /\ Server!TimeUp)
    /\ WF_ServerVars(part = "server" /\ Server!Shutdown)
    /\ WF_ServerVars(part = "server" /\ Server!PrintResult)

PartFairSpec == PartSpec /\ PartFairness

-----------------------------------------------------------------------------
(* Properties: what each component promises, where it is the one that runs.  *)

\* What the guards of the tool loop say of a turn they end, and when they end it.
GuardsTrue ==
    part = "guards" =>
        Guards!TypeOK /\ Guards!ReplyTrue /\ Guards!FetchedOnce /\ Guards!WithinLimits
            /\ Guards!FirstRoundCounts

\* A tool of active plugins goes to one of them, one of a server to one that is
\* configured now, and a call to a language server is never forgotten.
CallsTrue ==
    /\ part = "tools" => Index!TypeOK /\ Index!PluginsFirst /\ Index!OnlyConfigured
    /\ part = "lsp" => Lsp!NoLostCall

\* Codex gets one answer at most to what it asks the user at a terminal; the exit
\* code and the printed result of the command line agree with the run; the lines of
\* an app-server are handled whole and in order, and its client is ready only after
\* the answer to this start.
FrontsTrue ==
    /\ part = "terminal" => Terminal!TypeOK /\ Terminal!AnsweredOnce
    /\ part = "command" => Command!TypeOK /\ Command!ResultTrue
    /\ part = "server" => Server!TypeOK /\ Server!LinesInOrder /\ Server!HandshakeTrue

\* Nobody waits for ever: neither a model request, nor a turn the guards watch,
\* nor a call of a tool or to a language server, nor a terminal whose input is closed, nor a
\* run of the command line, nor a probe of an app-server.
Waiting ==
    \/ part = "stream" /\ Stream!Waiting
    \/ part = "guards" /\ Guards!Waiting
    \/ part = "tools" /\ \E a \in ToolAgents : Index!Waiting(a)
    \/ part = "lsp" /\ \E c \in LspCalls : Lsp!InLoop(c)
    \/ part = "terminal" /\ Terminal!Waiting
    \/ part = "command" /\ Command!Waiting
    \/ part = "server" /\ Server!Waiting

WaitsEnd == Waiting ~> ~Waiting
=============================================================================
