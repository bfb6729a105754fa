----------------------------- MODULE LspSessions -----------------------------
(***************************************************************************)
(* The lsp tool: LspTool, LspServerManager, LspClient, JsonRpcTransport and  *)
(* LspDownloader, for the C++ files of one project root.                     *)
(*                                                                         *)
(* A call waits in nested event loops, first for the language server, then   *)
(* for its answer; meanwhile other calls begin, and only the innermost loop  *)
(* returns.  Without clangd the call is deferred and run again by the        *)
(* download when it ends.  Server and network are outside the repository.    *)
(***************************************************************************)
EXTENDS Naturals, Sequences, SequencesExt

CONSTANTS
    Calls,      \* calls of the tool
    MaxSteps    \* bound: requests sent to servers

VARIABLES
    state,      \* per call: "new", "running", "deferred" or "done"
    given,      \* per call: results returned or posted to the bus
    clangd,     \* "missing", "found" or "directory" (what a download registers)
    download,   \* "no", "loading" or "unpacking"
    waiters,    \* m_clangdWaiters
    client,     \* the client of the root: "none", "initializing", "ready" or "stopped"
    callbacks,  \* m_callbacks of the client: requests of calls
    asked,      \* requests the server has not answered
    sent,       \* requests sent so far; they number the requests
    frames,     \* nested loops and waiter notifications, innermost last
    undefined   \* observation: an answer was written to a stack frame that is gone

vars == <<state, given, clangd, download, waiters, client, callbacks, asked, sent, frames,
          undefined>>

Requests == [id : 1..MaxSteps, call : Calls]
Loops == [at : {"init", "answer"}, call : Calls, over : BOOLEAN]
Notices == [at : {"notify"}, rest : Seq(Calls), success : BOOLEAN]

TypeOK ==
    /\ state \in [Calls -> {"new", "running", "deferred", "done"}]
    /\ given \in [Calls -> Nat]
    /\ clangd \in {"missing", "found", "directory"}
    /\ download \in {"no", "loading", "unpacking"}
    /\ waiters \in Seq(Calls)
    /\ client \in {"none", "initializing", "ready", "stopped"}
    /\ callbacks \subseteq Requests /\ asked \subseteq Requests
    /\ sent \in 0..MaxSteps
    /\ \A i \in DOMAIN frames : frames[i] \in Loops \/ frames[i] \in Notices
    /\ undefined \in BOOLEAN

Init ==
    /\ state = [c \in Calls |-> "new"] /\ given = [c \in Calls |-> 0]
    /\ clangd \in {"missing", "found"}
    /\ download = "no" /\ waiters = <<>>
    /\ client = "none" /\ callbacks = {} /\ asked = {} /\ sent = 0
    /\ frames = <<>> /\ undefined = FALSE

----------------------------------------------------------------------------
(* Running a call over the frames below it.                                *)

Top == Last(frames)

\* A result is returned to the dispatcher, or posted if the call was deferred.
Result(c) ==
    /\ state' = [state EXCEPT ![c] = "done"]
    /\ given' = [given EXCEPT ![c] = @ + 1]

Ends(c, below) ==
    /\ Result(c) /\ frames' = below
    /\ UNCHANGED <<client, callbacks, asked, sent>>

Wait(at, c) == [at |-> at, call |-> c, over |-> FALSE]

\* The document is opened, unless the file cannot be read, and the request sent.
Ask(c, below) ==
    /\ client = "ready"
    /\ \/ Ends(c, below)
       \/ /\ sent < MaxSteps
          /\ LET r == [id |-> sent + 1, call |-> c] IN
             /\ callbacks' = callbacks \cup {r} /\ asked' = asked \cup {r}
          /\ sent' = sent + 1
          /\ frames' = Append(below, Wait("answer", c))
          /\ state' = [state EXCEPT ![c] = "running"]
          /\ UNCHANGED <<client, given>>

\* getClientForFile: a client is started once.  What a download registers is the
\* directory it unpacked, which no process can be started from.
Start(c, below) ==
    \/ /\ client = "none" /\ clangd \in {"found", "directory"} /\ Ends(c, below)
    \/ /\ client = "none" /\ clangd = "found"
       /\ client' = "initializing"
       /\ frames' = Append(below, Wait("init", c))
       /\ state' = [state EXCEPT ![c] = "running"]
       /\ UNCHANGED <<given, callbacks, asked, sent>>
    \/ /\ client \in {"initializing", "stopped"}
       /\ frames' = Append(below, Wait("init", c))
       /\ state' = [state EXCEPT ![c] = "running"]
       /\ UNCHANGED <<given, client, callbacks, asked, sent>>
    \/ Ask(c, below)

\* execute, called by the dispatcher.
Execute(c) ==
    /\ state[c] = "new"
    /\ \/ /\ clangd # "missing" /\ Start(c, frames)
          /\ UNCHANGED <<waiters, download>>
       \/ /\ clangd = "missing"
          /\ state' = [state EXCEPT ![c] = "deferred"]
          /\ waiters' = Append(waiters, c)
          /\ download' = IF download = "no" THEN "loading" ELSE download
          /\ UNCHANGED <<given, client, callbacks, asked, sent, frames>>
    /\ UNCHANGED <<clangd, undefined>>

----------------------------------------------------------------------------
(* Loops.                                                                  *)

Quit(cs) ==
    [i \in DOMAIN frames |->
        IF frames[i].at = "init" /\ frames[i].call \in cs
        THEN [frames[i] EXCEPT !.over = TRUE] ELSE frames[i]]

\* Mutant of LoopTimeout: only the wait for the server is limited.
LoopTimeoutInit(i) ==
    /\ frames[i].at = "init" /\ ~frames[i].over
    /\ frames' = [frames EXCEPT ![i].over = TRUE]
    /\ UNCHANGED <<state, given, clangd, download, waiters, client, callbacks, asked, sent,
                   undefined>>

\* A loop gives up after five or eight seconds.
LoopTimeout(i) ==
    /\ frames[i].at # "notify" /\ ~frames[i].over
    /\ frames' = [frames EXCEPT ![i].over = TRUE]
    /\ UNCHANGED <<state, given, clangd, download, waiters, client, callbacks, asked, sent,
                   undefined>>

\* After the first loop the request is sent, if the server is ready by now; after
\* the second the call returns.  Its callback stays if there was no answer.
Return ==
    /\ frames # <<>> /\ Top.at # "notify" /\ Top.over
    /\ \/ Top.at = "init" /\ Ask(Top.call, Front(frames))
       \/ Top.at = "init" /\ client # "ready" /\ Ends(Top.call, Front(frames))
       \/ Top.at = "answer" /\ Ends(Top.call, Front(frames))
    /\ UNCHANGED <<clangd, download, waiters, undefined>>

\* notifyClangdWaiters calls one waiter after the other; each runs its call.
NextWaiter ==
    /\ frames # <<>> /\ Top.at = "notify"
    /\ IF Top.rest = <<>>
       THEN frames' = Front(frames) /\ UNCHANGED <<state, given, client, callbacks, asked, sent>>
       ELSE LET below == Append(Front(frames), [Top EXCEPT !.rest = Tail(@)]) IN
            IF Top.success THEN Start(Head(Top.rest), below) ELSE Ends(Head(Top.rest), below)
    /\ UNCHANGED <<clangd, download, waiters, undefined>>

----------------------------------------------------------------------------
(* The server.                                                             *)

\* The answer to initialize; an error leaves the client initializing for ever.
Initialized ==
    /\ client = "initializing"
    /\ client' \in {"initializing", "ready"}
    /\ frames' = Quit(Calls)
    /\ UNCHANGED <<state, given, clangd, download, waiters, callbacks, asked, sent, undefined>>

Waiting(c) == \E i \in DOMAIN frames : frames[i].at = "answer" /\ frames[i].call = c

\* The callback fills the result and quits the loop, or sends the second request
\* of a call hierarchy.  It refers to the stack of its call.  An error only
\* removes it.
Answered(r) ==
    /\ asked' = asked \ {r} /\ callbacks' = callbacks \ {r}
    /\ \/ /\ r \in callbacks /\ Waiting(r.call)
          /\ frames' = [i \in DOMAIN frames |->
                 IF frames[i].at = "answer" /\ frames[i].call = r.call
                 THEN [frames[i] EXCEPT !.over = TRUE] ELSE frames[i]]
          /\ UNCHANGED <<sent, undefined>>
       \/ /\ r \in callbacks /\ ~Waiting(r.call)
          /\ undefined' = TRUE
          /\ UNCHANGED <<frames, sent>>
       \/ /\ frames' = Quit(Calls) \* an error, which those who wait for the server hear too
          /\ UNCHANGED <<sent, undefined>>

SecondRequest(r) ==
    /\ r \in callbacks /\ Waiting(r.call) /\ sent < MaxSteps
    /\ LET s == [id |-> sent + 1, call |-> r.call] IN
       /\ asked' = (asked \ {r}) \cup {s} /\ callbacks' = (callbacks \ {r}) \cup {s}
    /\ sent' = sent + 1
    /\ UNCHANGED <<frames, undefined>>

Answer ==
    /\ client = "ready"
    /\ \E r \in asked : Answered(r) \/ SecondRequest(r)
    /\ UNCHANGED <<state, given, clangd, download, waiters, client>>

\* The server exits: the client stays in m_clients, stopped.  A message that
\* cannot be parsed is an error only.
ServerExits ==
    /\ client \in {"initializing", "ready"}
    /\ \/ client' = "stopped" /\ asked' = {}
       \/ UNCHANGED <<client, asked>>
    /\ frames' = Quit(Calls)
    /\ UNCHANGED <<state, given, clangd, download, waiters, callbacks, sent, undefined>>

----------------------------------------------------------------------------
(* The download.                                                           *)

Notify(success) ==
    /\ download' = "no"
    /\ waiters' = <<>>
    /\ frames' = Append(frames, [at |-> "notify", rest |-> waiters, success |-> success])

\* Mutant of DownloadFails: those who wait are forgotten.
DownloadFailsSilently ==
    /\ download # "no"
    /\ download' = "no" /\ waiters' = <<>>
    /\ UNCHANGED <<state, given, clangd, client, callbacks, asked, sent, undefined, frames>>

\* Any step of it may fail: the release list, a redirect, the archive, unpacking.
DownloadFails ==
    /\ download # "no"
    /\ Notify(FALSE)
    /\ UNCHANGED <<state, given, clangd, client, callbacks, asked, sent, undefined>>

Downloaded ==
    /\ download = "loading"
    /\ download' = "unpacking"
    /\ UNCHANGED <<state, given, clangd, waiters, client, callbacks, asked, sent, frames, undefined>>

Installed ==
    /\ download = "unpacking"
    /\ clangd' = "directory"
    /\ Notify(TRUE)
    /\ UNCHANGED <<state, given, client, callbacks, asked, sent, undefined>>

----------------------------------------------------------------------------
Next ==
    /\ ~undefined
    /\ \/ \E c \in Calls : Execute(c)
       \/ \E i \in DOMAIN frames : LoopTimeout(i)
       \/ Return \/ NextWaiter \/ Initialized \/ Answer \/ ServerExits
       \/ DownloadFails \/ Downloaded \/ Installed

Spec == Init /\ [][Next]_vars

\* Timers fire and loops that are over return.  Network requests end; nothing
\* is assumed of unpacking, whose program may not start.
LoopEnds == ~undefined /\ \E i \in DOMAIN frames : LoopTimeout(i)
Returns == ~undefined /\ (Return \/ NextWaiter)
DownloadEnds == ~undefined /\ download = "loading" /\ (DownloadFails \/ Downloaded)

Fairness ==
    /\ WF_vars(LoopEnds)
    /\ WF_vars(Returns)
    /\ WF_vars(DownloadEnds)

FairSpec == Spec /\ Fairness

----------------------------------------------------------------------------
(* Properties.                                                             *)

InNotice(c) ==
    \E i \in DOMAIN frames : frames[i].at = "notify" /\ c \in ToSet(frames[i].rest)

\* A call has one result, and a deferred one is never forgotten: it is in the list
\* of a download that goes on, or of the notification that ended one.
NoLostCall ==
    \A c \in Calls :
        /\ given[c] = IF state[c] = "done" THEN 1 ELSE 0
        /\ state[c] = "deferred" =>
               \/ c \in ToSet(waiters) /\ download # "no"
               \/ InNotice(c)

\* Where a call is held: by a loop, which makes it running, or by a notification, which
\* has it deferred; by one of them at most, and by no list of waiters beside it.
Holds(f, c) == IF f.at = "notify" THEN c \in ToSet(f.rest) ELSE f.call = c
HeldBy(f) == IF f.at = "notify" THEN "deferred" ELSE "running"

\* The invariant behind NoLostCall.
LspSound ==
    /\ NoLostCall
    /\ state \in [Calls -> {"new", "running", "deferred", "done"}] /\ given \in [Calls -> Nat]
    /\ waiters \in Seq(Calls) /\ IsInjective(waiters)
    /\ frames \in Seq(Loops \cup Notices)
    /\ \A i \in DOMAIN frames : frames[i].at = "notify" => IsInjective(frames[i].rest)
    /\ \A c \in ToSet(waiters) : state[c] = "deferred"
    /\ \A c \in Calls : \A i \in DOMAIN frames : Holds(frames[i], c) =>
           /\ state[c] = HeldBy(frames[i]) /\ c \notin ToSet(waiters)
           /\ \A j \in DOMAIN frames : Holds(frames[j], c) => j = i

\* What must come to an end: a call that waits in a loop returns, whatever the server does and however many
\* calls begin above it, unless a late answer has hit a dead stack.
InLoop(c) == state[c] = "running" /\ ~undefined
=============================================================================
