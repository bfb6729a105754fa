----------------------------- MODULE ToolCatalog -----------------------------
(***************************************************************************)
(* Where a tool call goes: the index of ToolDispatcher, filled from the      *)
(* plugins of ToolPluginManager and from the MCP servers of                  *)
(* McpToolProvider, and rebuilt by GovernanceService and ConfigService.      *)
(*                                                                         *)
(* Asking an MCP server waits in a nested event loop.  There the user may    *)
(* save another configuration and other agents call tools; only the          *)
(* innermost loop goes on.  Servers are outside the repository.              *)
(***************************************************************************)
EXTENDS Naturals, Sequences, SequencesExt

CONSTANTS
    Names,          \* names of tools
    Agents,         \* callers, one call at a time each
    Plugins,        \* plugin ids
    PluginTools,    \* PluginTools[p]: the names of a plugin's tools
    Servers,        \* MCP servers
    Offers,         \* Offers[s]: the names a server's tools are exposed under
    Async,          \* servers called without waiting
    Mcp,            \* the provider "mcp"
    Nobody,         \* a name that is not indexed
    ServerLists,    \* configurations the user may save
    MaxEdits,       \* bound: configurations saved
    MaxCalls,       \* bound: calls of each agent
    MaxDepth        \* bound: nested loops

VARIABLES
    servers,    \* m_servers
    storage,    \* the configuration m_servers was filled for; clearServers ends the last
    tools,      \* m_toolIndex of the MCP provider: the server of each name
    cache,      \* m_cacheTimer: "none", "fresh" or "old"
    known,      \* m_plugins; a plugin is never unloaded
    working,    \* plugins that made a provider
    enabled,    \* plugins the applied configuration enables
    owner,      \* m_toolOwners of the dispatcher
    frames,     \* waits for a server, innermost last
    call,       \* per agent: "idle", "running" or "deferred"
    made,       \* per agent: calls made
    undefined   \* observation: a server of a cleared list was read

vars == <<servers, storage, tools, cache, known, working, enabled, owner, frames, call, made,
          undefined>>
catalog == <<servers, storage, known, working, enabled>>

\* What a wait is for: a reply to tools/list, with what follows when the last
\* server has replied, or a reply to tools/call.
Afterwards == {"index", "infos", "ready", "again"}
Callers == [agent : Agents, name : Names] \cup {Nobody}
Overs == {"no", "replied", "failed"}   \* whether the loop of a wait has been told to quit
Lists == [wait : {"list"}, over : Overs, storage : Nat, next : Nat, size : Nat,
          then : Afterwards, for : Callers]
Waits == [wait : {"call"}, over : Overs, for : Callers]

TypeOK ==
    /\ servers \in ServerLists /\ storage \in 0..MaxEdits
    /\ tools \in [Names -> Servers \cup {Nobody}]
    /\ cache \in {"none", "fresh", "old"}
    /\ known \subseteq Plugins /\ working \subseteq known /\ enabled \subseteq Plugins
    /\ owner \in [Names -> Plugins \cup {Mcp, Nobody}]
    /\ \A i \in DOMAIN frames : frames[i] \in Lists \cup Waits
    /\ call \in [Agents -> {"idle", "running", "deferred"}]
    /\ made \in [Agents -> 0..MaxCalls]
    /\ undefined \in BOOLEAN

----------------------------------------------------------------------------
(* The index.                                                              *)

NoTools == [n \in Names |-> Nobody]

\* indexToolSchema: the first owner of a name keeps it.
IndexMcp(o, ts) == [n \in Names |-> IF o[n] = Nobody /\ ts[n] # Nobody THEN Mcp ELSE o[n]]

\* refreshProvider forgets the names of the provider before it indexes it again.
Forget(o) == [n \in Names |-> IF o[n] = Mcp THEN Nobody ELSE o[n]]

\* rebuildToolProviders: the index is cleared, then come the active plugins.
IndexPlugins(active, o) ==
    [n \in Names |-> IF \E p \in active : n \in PluginTools[p]
                     THEN CHOOSE p \in active : n \in PluginTools[p] ELSE Nobody]

Active == working \cap enabled

\* A loop that was told to quit takes no further event.
MayNest == Len(frames) < MaxDepth /\ (frames # <<>> => Last(frames).over = "no")

\* refreshTools: nothing is known until the servers of the list have replied; with
\* no server there is no reply to wait for and the cache stays as it was.
ListTools(ss, st, then, for, below) ==
    /\ tools' = NoTools
    /\ frames' = IF ss = <<>> THEN below
                 ELSE Append(below, [wait |-> "list", over |-> "no", storage |-> st, next |-> 1,
                                     size |-> Len(ss), then |-> then, for |-> for])

Init ==
    \E S \in ServerLists, K, W, E \in SUBSET Plugins :
        /\ W \subseteq K
        /\ servers = S /\ storage = 0
        /\ tools = NoTools /\ cache = "none"
        /\ known = K /\ working = W /\ enabled = E
        /\ owner = IndexPlugins(W \cap E, NoTools)
        /\ frames = IF S = <<>> THEN <<>>
                    ELSE <<[wait |-> "list", over |-> "no", storage |-> 0, next |-> 1,
                            size |-> Len(S), then |-> "index", for |-> Nobody]>>
        /\ call = [a \in Agents |-> "idle"] /\ made = [a \in Agents |-> 0]
        /\ undefined = FALSE

----------------------------------------------------------------------------
(* Configuration.                                                          *)

\* The MCP dialog: applyMcpConfig clears the servers, adds those of the new
\* configuration and refreshes the provider.
ApplyMcpConfig(S) ==
    /\ storage < MaxEdits /\ MayNest
    /\ servers' = S /\ storage' = storage + 1 /\ cache' = "none"
    /\ owner' = Forget(owner)
    /\ ListTools(S, storage + 1, "index", Nobody, frames)
    /\ UNCHANGED <<known, working, enabled, call, made, undefined>>

\* The plugin dialog: reloadToolPlugins loads the files that are new, applies the
\* configuration and rebuilds the index, with the MCP tools last.
ReloadToolPlugins(E, found, made_) ==
    /\ E # enabled \/ found # {}
    /\ known' = known \cup found /\ working' = working \cup made_ /\ enabled' = E
    /\ LET o == IndexPlugins((working \cup made_) \cap E, owner) IN
       \/ /\ cache = "fresh" /\ owner' = IndexMcp(o, tools)
          /\ UNCHANGED <<tools, frames>>
       \/ /\ cache # "fresh" /\ MayNest
          /\ owner' = o
          /\ ListTools(servers, storage, "index", Nobody, frames)
    /\ UNCHANGED <<servers, storage, cache, call, made, undefined>>

\* toolPluginInfos, for a dialog that shows the plugins.
ShowPlugins ==
    /\ cache # "fresh" /\ servers # <<>> /\ MayNest
    /\ ListTools(servers, storage, "infos", Nobody, frames)
    /\ UNCHANGED <<catalog, cache, owner, call, made, undefined>>

\* The time to live of the list ends.
CacheExpires ==
    /\ cache = "fresh" /\ cache' = "old"
    /\ UNCHANGED <<catalog, tools, owner, frames, call, made, undefined>>

----------------------------------------------------------------------------
(* Calls.                                                                  *)

Answer(a) == call' = [call EXCEPT ![a] = "idle"]

\* execute, once the list is there: the call is sent to the server of the tool.
Send(c, ts, below) ==
    /\ tools' = ts
    /\ IF ts[c.name] \in Async
       THEN call' = [call EXCEPT ![c.agent] = "deferred"] /\ frames' = below
       ELSE /\ call' = [call EXCEPT ![c.agent] = "running"]
            /\ frames' = Append(below, [wait |-> "call", over |-> "no", for |-> c])

\* execute after refreshToolsIfNeeded: without any tool the call fails; a name that
\* is not there is looked for once more.
Execute(c, ts, below) ==
    \/ /\ ts = NoTools /\ Answer(c.agent) /\ tools' = ts /\ frames' = below
    \/ /\ ts # NoTools /\ ts[c.name] = Nobody
       /\ call' = [call EXCEPT ![c.agent] = IF servers = <<>> THEN "idle" ELSE "running"]
       /\ ListTools(servers, storage, "again", c, below)
    \/ ts[c.name] # Nobody /\ Send(c, ts, below)

\* dispatch: the owner of the name runs the call.  Tools of plugins answer here.
Dispatch(a, n) ==
    /\ call[a] = "idle" /\ made[a] < MaxCalls
    /\ made' = [made EXCEPT ![a] = @ + 1]
    /\ \/ owner[n] # Mcp /\ UNCHANGED <<tools, frames, call>>
       \/ /\ owner[n] = Mcp /\ cache = "fresh" /\ MayNest
          /\ Execute([agent |-> a, name |-> n], tools, frames)
       \/ /\ owner[n] = Mcp /\ cache # "fresh" /\ MayNest
          /\ call' = [call EXCEPT ![a] = IF servers = <<>> THEN "idle" ELSE "running"]
          /\ ListTools(servers, storage, "ready", [agent |-> a, name |-> n], frames)
    /\ UNCHANGED <<catalog, cache, owner, undefined>>

\* The reply of an asynchronous server, or the abort by its timer.
DeferredReply(a) ==
    /\ call[a] = "deferred" /\ Answer(a)
    /\ UNCHANGED <<catalog, tools, cache, owner, frames, made, undefined>>

----------------------------------------------------------------------------
(* The innermost loop returns.                                             *)

Top == Last(frames)

\* What follows a list that is complete, over the frames below.
Complete(f, ts, below) ==
    /\ cache' = "fresh"
    /\ \/ /\ f.then = "index" /\ owner' = IndexMcp(owner, ts)
          /\ tools' = ts /\ frames' = below /\ UNCHANGED call
       \/ /\ f.then = "infos" /\ tools' = ts /\ frames' = below /\ UNCHANGED <<owner, call>>
       \/ f.then = "ready" /\ Execute(f.for, ts, below) /\ UNCHANGED owner
       \/ /\ f.then = "again" /\ UNCHANGED owner
          /\ \/ /\ ts[f.for.name] = Nobody /\ Answer(f.for.agent)
                /\ tools' = ts /\ frames' = below
             \/ ts[f.for.name] # Nobody /\ Send(f.for, ts, below)

\* refreshTools goes to the next server, reading the list it began with.
NextServer(f, ts) ==
    \/ /\ f.next = f.size /\ Complete(f, ts, Front(frames)) /\ UNCHANGED undefined
    \/ /\ f.next < f.size /\ f.storage = storage
       /\ tools' = ts
       /\ frames' = [frames EXCEPT ![Len(frames)] = [f EXCEPT !.next = @ + 1, !.over = "no"]]
       /\ UNCHANGED <<cache, owner, call, undefined>>
    \/ /\ f.next < f.size /\ f.storage # storage /\ undefined' = TRUE
       /\ UNCHANGED <<tools, cache, owner, call, frames>>

\* The first server to offer a name has it.
Added(s) == [n \in Names |-> IF n \in Offers[s] /\ tools[n] = Nobody THEN s ELSE tools[n]]

\* The tools a server lists are read under its name; one without an answer is skipped.
ListReturns ==
    /\ Top.wait = "list" /\ Top.over # "no"
    /\ \/ Top.over = "failed" /\ NextServer(Top, tools)
       \/ /\ Top.over = "replied" /\ Top.storage = storage
          /\ NextServer(Top, Added(servers[Top.next]))
       \/ /\ Top.over = "replied" /\ Top.storage # storage /\ undefined' = TRUE
          /\ UNCHANGED <<tools, cache, owner, call, frames>>

CallReturns ==
    /\ Top.wait = "call" /\ Top.over # "no"
    /\ Answer(Top.for.agent) /\ frames' = Front(frames)
    /\ UNCHANGED <<tools, cache, owner, undefined>>

Return == frames # <<>> /\ (ListReturns \/ CallReturns) /\ UNCHANGED <<catalog, made>>

\* The reply to the request of a wait, however deep, or the end of its timer, an
\* error or a reply that is no list.
Over(i, how) ==
    /\ i <= Len(frames) /\ frames[i].over = "no"
    /\ frames' = [frames EXCEPT ![i].over = how]
    /\ UNCHANGED <<catalog, tools, cache, owner, call, made, undefined>>
Replied(i) == Over(i, "replied")
Failed(i) == Over(i, "failed")

Next ==
    /\ ~undefined
    /\ \/ \E S \in ServerLists : ApplyMcpConfig(S)
       \/ \E E, found \in SUBSET Plugins : \E ok \in SUBSET found :
             found \cap known = {} /\ ReloadToolPlugins(E, found, ok)
       \/ ShowPlugins \/ CacheExpires
       \/ \E a \in Agents, n \in Names : Dispatch(a, n)
       \/ \E a \in Agents : DeferredReply(a)
       \/ Return
       \/ \E i \in 1..MaxDepth : Replied(i) \/ Failed(i)

Spec == Init /\ [][Next]_vars

\* Each request to a server has a timer (postJson, execute); a loop that was told to
\* quit returns.
Returns    == ~undefined /\ Return
Fails(i)   == ~undefined /\ Failed(i)
Replies(a) == ~undefined /\ DeferredReply(a)

Fairness ==
    /\ WF_vars(Returns)
    /\ \A i \in 1..MaxDepth : WF_vars(Fails(i))
    /\ \A a \in Agents : WF_vars(Replies(a))

FairSpec == Spec /\ Fairness

----------------------------------------------------------------------------
(* Properties.                                                             *)

\* A tool of active plugins goes to one of them, the one that was indexed first, and no
\* other name goes to a plugin: a plugin that is disabled is never called, and no MCP
\* server takes the name of a tool of an enabled one, whatever was saved while the
\* index was being rebuilt.
PluginsFirst ==
    \A n \in Names :
        LET offer == {p \in Active : n \in PluginTools[p]}
        IN  owner[n] \in (IF offer = {} THEN {Mcp, Nobody} ELSE offer)

\* What the dispatcher sends to the MCP provider, and what the provider sends to a
\* server, is a tool of a server that is configured now, however the replies to
\* configurations saved one within the other come in.
OnlyConfigured ==
    \A n \in Names :
        /\ tools[n] # Nobody => tools[n] \in ToSet(servers)
        /\ owner[n] = Mcp => \E s \in ToSet(servers) : n \in Offers[s]

\* What a wait still needs when it returns: a caller, if there is one to answer, and, while
\* the list it began with is the configured one, a next server that is in it.
Asks == [agent : Agents, name : Names]
Fits(f, ss, st) ==
    /\ f.wait = "call" \/ f.then \in {"ready", "again"} => f.for \in Asks
    /\ f.wait = "list" => /\ f.next \in 1..f.size /\ f.storage <= st
                          /\ (f.storage = st => f.size = Len(ss))

GoodFrames(fs, ss, st) ==
    /\ fs \in Seq(Lists \cup Waits)
    /\ \A i \in DOMAIN fs : Fits(fs[i], ss, st)

\* The invariant behind the two properties: a name that is known to the MCP provider
\* is offered by a configured server.
IndexSound ==
    /\ TypeOK /\ PluginsFirst /\ OnlyConfigured
    /\ GoodFrames(frames, servers, storage)
    /\ \A n \in Names : tools[n] # Nobody => n \in Offers[tools[n]]

\* What must come to an end: a call of a tool is answered, whether servers reply or not and whatever is
\* nested in its loops.
Waiting(a) == call[a] # "idle" /\ ~undefined
=============================================================================
