------------------------------ MODULE Teammates ------------------------------
(***************************************************************************)
(* Teammates: TeammateManager with its two backends.  A tmagent mate is an  *)
(* LLMAgent of this process; the codex mates share one app-server process,  *)
(* reached by JSON-RPC through CodexAppServerClient, in which each has a    *)
(* thread.                                                                  *)
(*                                                                         *)
(* Creating a codex mate waits twice in a nested event loop, for the server *)
(* and for its thread; everything else goes on meanwhile, other creations   *)
(* too, and only the innermost loop can return.  The server is outside the  *)
(* repository: it may answer, refuse, report or stop at any time.           *)
(***************************************************************************)
EXTENDS Naturals, Sequences, SequencesExt

CONSTANTS
    Mates,      \* teammates that may be created, each under an id of its own
    Codex,      \* those whose backend is codex; the others are tmagent mates
    Temporary,  \* those with autoCleanup
    MaxSends,   \* bound: messages accepted per mate
    MaxStarts,  \* bound: starts of the app-server
    MaxIds      \* bound: request ids used in one run of the app-server

ASSUME TeammatesAssumption ==
    /\ Codex \subseteq Mates /\ Temporary \subseteq Mates
    /\ MaxSends \in Nat /\ MaxStarts \in Nat /\ MaxIds \in Nat \ {0}

VARIABLES
    phase,      \* per mate: "new", "creating" (in m_teammates, without a session), "live", "gone"
    status,     \* Teammate::Status: "idle", "busy" or "error"
    thread,     \* a thread id is known, so that m_threadToMate leads to the mate
    active,     \* activeTurnId; 0 if empty
    timer,      \* m_turnTimeoutTimers has a timer for the thread
    sends,      \* messages accepted so far: they number the turns
    frames,     \* nested loops of createTeammate, innermost last
    server,     \* the app-server: "down", "up" or "ready" (m_serverReady)
    starts,     \* starts of the app-server so far
    nextId,     \* m_nextRequestId
    pending,    \* m_pendingRequests
    asked,      \* requests the running app-server has not answered
    running,    \* turns that run in the app-server
    cleanup,    \* mates whose removal is queued on the event loop
    waiting,    \* observation: mates with a message accepted and no reply since
    spare,      \* observation: mates that replied when no message waited
    undefined   \* observation: memory of a deleted mate was used

client == <<phase, status, thread, active, timer, sends>>
vars == <<client, frames, server, starts, nextId, pending, asked, running, cleanup,
          waiting, spare, undefined>>

Requests == [id : 1..MaxIds, kind : {"initialize", "thread", "turn", "interrupt"},
             mate : Mates, turn : 0..MaxSends]

TypeOK ==
    /\ phase \in [Mates -> {"new", "creating", "live", "gone"}]
    /\ status \in [Mates -> {"idle", "busy", "error"}]
    /\ thread \in [Mates -> BOOLEAN] /\ timer \in [Mates -> BOOLEAN]
    /\ active \in [Mates -> 0..MaxSends] /\ sends \in [Mates -> 0..MaxSends]
    /\ frames \in Seq([mate : Mates, at : {"ready", "thread"}, id : 0..MaxIds, over : BOOLEAN])
    /\ server \in {"down", "up", "ready"} /\ starts \in 0..MaxStarts
    /\ nextId \in 1..(MaxIds + 1)
    /\ pending \subseteq Requests /\ asked \subseteq Requests
    /\ running \subseteq [mate : Codex, turn : 1..MaxSends]
    /\ cleanup \subseteq Temporary
    /\ waiting \subseteq Mates /\ spare \subseteq Mates
    /\ undefined \in BOOLEAN

Init ==
    /\ phase = [m \in Mates |-> "new"] /\ status = [m \in Mates |-> "idle"]
    /\ thread = [m \in Mates |-> FALSE] /\ timer = [m \in Mates |-> FALSE]
    /\ active = [m \in Mates |-> 0] /\ sends = [m \in Mates |-> 0]
    /\ frames = <<>> /\ server = "down" /\ starts = 0 /\ nextId = 1
    /\ pending = {} /\ asked = {} /\ running = {} /\ cleanup = {}
    /\ waiting = {} /\ spare = {} /\ undefined = FALSE

----------------------------------------------------------------------------
(* What the handlers share.                                                *)

Exists(m) == phase[m] \in {"creating", "live"}

\* The mate findByThreadId returns for its thread.
Reached(m) == Exists(m) /\ thread[m]

\* turnCompleted of the mates in ms: the message each has waits no longer, and
\* a temporary one is removed by a queued call.  createTeammate listens to the
\* signal only once the session is there.
Replies(ms) ==
    /\ waiting' = waiting \ ms
    /\ spare' = spare \cup (ms \ waiting)
    /\ cleanup' = cleanup \cup {m \in ms \cap Temporary : phase[m] = "live"}

NoReply == UNCHANGED <<waiting, spare, cleanup>>

\* Ends the mates' turns on this side.  A running timer is stopped or has fired.
Settle(ms, to) ==
    /\ status' = [m \in Mates |-> IF m \in ms THEN to ELSE status[m]]
    /\ timer' = [m \in Mates |-> timer[m] /\ m \notin ms]

\* sendRequest: the next id, and an entry of m_pendingRequests, which replaces
\* one of an earlier run of the app-server with the same id.
Ask(kind, m, turn, kept) ==
    /\ nextId <= MaxIds
    /\ LET r == [id |-> nextId, kind |-> kind, mate |-> m, turn |-> turn] IN
       /\ asked' = asked \cup {r}
       /\ pending' = IF kept THEN {p \in pending : p.id # nextId} \cup {r} ELSE pending
    /\ nextId' = nextId + 1

\* The loops at stage at that wait for the answer to request id (any, if 0) quit.
Quit(at, id) ==
    [i \in DOMAIN frames |->
        [frames[i] EXCEPT !.over = @ \/ (frames[i].at = at /\ id \in {0, frames[i].id})]]

QuitAll == [i \in DOMAIN frames |-> [frames[i] EXCEPT !.over = TRUE]]

\* Mutant of TransportError: the mates are marked, and nobody is told.
TransportErrorMute(ms) ==
    /\ Settle(ms, "error")
    /\ NoReply

\* onTransportError for the busy mates ms it reaches.  activeTurnId stays.
TransportError(ms) ==
    /\ Settle(ms, "error")
    /\ Replies(ms)

BusyReached == {m \in Codex : Reached(m) /\ status[m] = "busy"}

----------------------------------------------------------------------------
(* Creating a mate.                                                        *)

\* A tmagent session needs its owner's profile and a directory; it does not wait.
CreateTmagent(m) ==
    /\ m \notin Codex /\ phase[m] = "new"
    /\ phase' = [phase EXCEPT ![m] = "live"]
    /\ thread' = [thread EXCEPT ![m] = TRUE]
    /\ UNCHANGED <<status, active, timer, sends, frames, server, starts, nextId, pending,
                   asked, running, waiting, spare, cleanup, undefined>>

\* createSession sends thread/start for the mate, now in m_teammates, and waits.
OpenSession(m, below) ==
    /\ Ask("thread", m, 0, TRUE)
    /\ phase' = [phase EXCEPT ![m] = "creating"]
    /\ frames' = Append(below, [mate |-> m, at |-> "thread", id |-> nextId, over |-> FALSE])

InCreation == {frames[i].mate : i \in DOMAIN frames}

CreateCodex(m) ==
    /\ m \in Codex /\ phase[m] = "new" /\ m \notin InCreation
    /\ server = "ready"
    /\ OpenSession(m, frames)
    /\ UNCHANGED <<status, thread, active, timer, sends, server, starts, running,
                   waiting, spare, cleanup, undefined>>

\* ensureReady waits for a server that starts; if none does, it starts one, which
\* asks for the handshake, or fails to: nobody listens yet, and the loop times out.
CreateStarting(m) ==
    /\ m \in Codex /\ phase[m] = "new" /\ m \notin InCreation
    /\ server # "ready"
    /\ frames' = Append(frames, [mate |-> m, at |-> "ready", id |-> 0, over |-> FALSE])
    /\ \/ /\ server = "down" /\ starts < MaxStarts
          /\ server' = "up" /\ starts' = starts + 1 /\ nextId' = 2
          /\ asked' = {[id |-> 1, kind |-> "initialize", mate |-> m, turn |-> 0]}
          /\ TransportError({})
       \/ /\ server = "down" /\ TransportError(BusyReached)
          /\ UNCHANGED <<server, starts, nextId, asked>>
       \/ /\ server = "up" /\ TransportError({})
          /\ UNCHANGED <<server, starts, nextId, asked>>
    /\ UNCHANGED <<phase, thread, active, sends, pending, running, undefined>>

\* A loop gives up after 10 or 15 seconds.
LoopTimeout(i) ==
    /\ ~frames[i].over
    /\ frames' = [frames EXCEPT ![i].over = TRUE]
    /\ UNCHANGED <<client, server, starts, nextId, pending, asked, running, waiting, spare,
                   cleanup, undefined>>

Top == Last(frames)

ReadyReturns ==
    /\ frames # <<>> /\ Top.over /\ Top.at = "ready"
    /\ \/ /\ server = "ready" /\ OpenSession(Top.mate, Front(frames))
       \/ /\ server # "ready"
          /\ phase' = [phase EXCEPT ![Top.mate] = "gone"] /\ frames' = Front(frames)
          /\ UNCHANGED <<nextId, pending, asked>>
    /\ UNCHANGED <<status, thread, active, timer, sends, server, starts, running, waiting,
                   spare, cleanup, undefined>>

\* Without a thread the mate is deleted; its request stays in m_pendingRequests.
\* A mate removed meanwhile was deleted inside the loop: its thread id is read all the same.
SessionReturns ==
    /\ frames # <<>> /\ Top.over /\ Top.at = "thread"
    /\ frames' = Front(frames)
    /\ undefined' = (undefined \/ phase[Top.mate] = "gone")
    /\ phase' = [phase EXCEPT ![Top.mate] =
                     IF @ # "gone" /\ thread[Top.mate] THEN "live" ELSE "gone"]
    /\ UNCHANGED <<status, thread, active, timer, sends, server, starts, nextId, pending,
                   asked, running, waiting, spare, cleanup>>

----------------------------------------------------------------------------
(* Messages, cancelling, removing.                                         *)

\* A mate in error takes messages again; one without a thread does not.
SendCodex(m) ==
    /\ m \in Codex /\ Exists(m) /\ status[m] # "busy" /\ server = "ready"
    /\ sends[m] < MaxSends
    /\ \/ /\ thread[m]
          /\ Ask("turn", m, sends[m] + 1, TRUE)
          /\ status' = [status EXCEPT ![m] = "busy"]
          /\ timer' = [timer EXCEPT ![m] = TRUE]
          /\ sends' = [sends EXCEPT ![m] = @ + 1]
          /\ waiting' = waiting \cup {m}
       \/ /\ ~thread[m]
          /\ status' = [status EXCEPT ![m] = "error"]
          /\ UNCHANGED <<nextId, pending, asked, timer, sends, waiting>>
    /\ UNCHANGED <<phase, thread, active, frames, server, starts, running, spare, cleanup,
                   undefined>>

\* The child may fail before sendMessage returns: its reply precedes the answer
\* that the message was accepted.
SendTmagent(m) ==
    /\ m \notin Codex /\ Exists(m) /\ status[m] # "busy" /\ sends[m] < MaxSends
    /\ sends' = [sends EXCEPT ![m] = @ + 1]
    /\ \/ /\ status' = [status EXCEPT ![m] = "busy"]
          /\ active' = [active EXCEPT ![m] = sends[m] + 1]
          /\ waiting' = waiting \cup {m}
          /\ UNCHANGED <<spare, cleanup>>
       \/ /\ status' = [status EXCEPT ![m] = "error"]
          /\ cleanup' = cleanup \cup ({m} \cap Temporary)
          /\ UNCHANGED <<active, waiting, spare>>
    /\ UNCHANGED <<phase, thread, timer, frames, server, starts, nextId, pending, asked,
                   running, undefined>>

\* The child of a tmagent mate finishes or fails, or cancelTurn aborts it.
ChildEnds(m) ==
    /\ m \notin Codex /\ Exists(m) /\ active[m] # 0
    /\ \E to \in {"idle", "error"} : status' = [status EXCEPT ![m] = to]
    /\ active' = [active EXCEPT ![m] = 0]
    /\ Replies({m})
    /\ UNCHANGED <<phase, thread, timer, sends, frames, server, starts, nextId, pending, asked,
                   running, undefined>>

\* cancelTurn of a codex mate asks the server to interrupt the turn, if it knows one.
Interrupt(m) ==
    /\ m \in Codex /\ Exists(m) /\ server = "ready" /\ thread[m] /\ active[m] # 0
    /\ ~\E r \in asked : r.kind = "interrupt" /\ r.mate = m
    /\ Ask("interrupt", m, active[m], FALSE)
    /\ UNCHANGED <<client, frames, server, starts, running, waiting, spare, cleanup, undefined>>

\* removeTeammate: the thread and its timer are forgotten, requests are not, and
\* whoever waits for a reply is not told.
Gone(m) ==
    /\ phase' = [phase EXCEPT ![m] = "gone"]
    /\ thread' = [thread EXCEPT ![m] = FALSE]
    /\ timer' = [timer EXCEPT ![m] = FALSE]
    /\ active' = [active EXCEPT ![m] = 0]
    /\ waiting' = waiting \ {m}
    /\ UNCHANGED <<status, sends, frames, server, starts, nextId, pending, asked, running,
                   spare, undefined>>

RemoveTeammate(m) ==
    /\ Exists(m)
    /\ Gone(m)
    /\ UNCHANGED cleanup

QueuedRemoval(m) ==
    /\ m \in cleanup
    /\ cleanup' = cleanup \ {m}
    /\ IF Exists(m) THEN Gone(m)
       ELSE UNCHANGED <<client, frames, server, starts, nextId, pending, asked, running,
                        waiting, spare, undefined>>

----------------------------------------------------------------------------
(* What the app-server sends.                                              *)

\* The entry of m_pendingRequests under the id of an answer.
EntryFor(r) == {p \in pending : p.id = r.id}

\* An answer that finds an entry of a deleted mate uses its memory.
Dangling(r) == \E p \in EntryFor(r) : ~Exists(p.mate)

Handshake(r) ==
    /\ r.kind = "initialize"
    /\ server' = "ready"
    /\ frames' = Quit("ready", 0)
    /\ UNCHANGED <<client, pending, running, waiting, spare, cleanup, undefined>>

ThreadStarted(r) ==
    /\ r.kind = "thread"
    /\ pending' = pending \ EntryFor(r)
    /\ undefined' = (undefined \/ Dangling(r))
    /\ thread' = [m \in Mates |-> thread[m] \/ (m = r.mate /\ Exists(m))]
    /\ frames' = Quit("thread", r.id)
    /\ UNCHANGED <<phase, status, active, timer, sends, server, running, waiting, spare,
                   cleanup>>

TurnAccepted(r) ==
    /\ r.kind = "turn"
    /\ pending' = pending \ EntryFor(r)
    /\ undefined' = (undefined \/ Dangling(r))
    /\ active' = [m \in Mates |-> IF m = r.mate /\ Exists(m) THEN r.turn ELSE active[m]]
    /\ running' = running \cup {[mate |-> r.mate, turn |-> r.turn]}
    /\ UNCHANGED <<phase, status, thread, timer, sends, frames, server, waiting, spare, cleanup>>

\* The answer to an interrupt finds no entry, or one that an earlier run of the
\* server left under the same id; it says nothing about a turn.
Interrupted(r) ==
    /\ r.kind = "interrupt"
    /\ pending' = pending \ EntryFor(r)
    /\ undefined' = (undefined \/ Dangling(r))
    /\ UNCHANGED <<phase, status, thread, active, timer, sends, frames, server, running,
                   waiting, spare, cleanup>>

\* onResponseError: the mate of the entry is in error; the timer of its turn goes on.
Refused(r) ==
    /\ r.kind # "initialize"
    /\ pending' = pending \ EntryFor(r)
    /\ undefined' = (undefined \/ Dangling(r))
    /\ LET ms == {p.mate : p \in EntryFor(r)} \cap {m \in Mates : Exists(m)} IN
       /\ status' = [m \in Mates |-> IF m \in ms THEN "error" ELSE status[m]]
       /\ IF \E p \in EntryFor(r) : p.kind = "turn" THEN Replies(ms) ELSE NoReply
    /\ frames' = Quit("thread", r.id)
    /\ UNCHANGED <<phase, thread, active, timer, sends, server, running>>

Answer ==
    \E r \in asked :
        /\ asked' = asked \ {r}
        /\ Handshake(r) \/ ThreadStarted(r) \/ TurnAccepted(r) \/ Interrupted(r) \/ Refused(r)
        /\ UNCHANGED <<starts, nextId>>

\* A delta, an item, an approval or a retry of a turn: the timer starts again,
\* for whatever turn of the thread it runs.
Activity ==
    /\ \E t \in running :
        /\ Reached(t.mate)
        /\ timer' = [timer EXCEPT ![t.mate] = TRUE]
    /\ UNCHANGED <<phase, status, thread, active, sends, frames, server, starts, nextId,
                   pending, asked, running, waiting, spare, cleanup, undefined>>

\* An error the server will not retry ends the turn here; the server has still
\* to report that it ended.
ErrorNotification ==
    /\ \E t \in running :
        /\ Reached(t.mate)
        /\ LET ms == {t.mate} \cap BusyReached IN
           /\ status' = [m \in Mates |-> IF m \in ms THEN "error" ELSE status[m]]
           /\ active' = [m \in Mates |-> IF m \in ms THEN 0 ELSE active[m]]
           /\ timer' = [timer EXCEPT ![t.mate] = FALSE]
           /\ Replies(ms)
    /\ UNCHANGED <<phase, thread, sends, frames, server, starts, nextId, pending, asked,
                   running, undefined>>

\* onTurnCompleted asks neither which turn ended nor whether the mate is busy.
TurnCompleted ==
    /\ \E t \in running :
        /\ running' = running \ {t}
        /\ LET ms == {m \in {t.mate} : Reached(m)} IN
           /\ \E to \in {"idle", "error"} : Settle(ms, to)
           /\ active' = [m \in Mates |-> IF m \in ms THEN 0 ELSE active[m]]
           /\ Replies(ms)
    /\ UNCHANGED <<phase, thread, sends, frames, server, starts, nextId, pending, asked,
                   undefined>>

\* Mutant of TurnTimeout: it acts only for a turn the server has confirmed.
TurnTimeoutConfirmed(m) ==
    /\ timer[m]
    /\ LET ms == {m} \cap BusyReached \cap {n \in Mates : active[n] # 0} IN
       /\ status' = [n \in Mates |-> IF n \in ms THEN "error" ELSE status[n]]
       /\ active' = [n \in Mates |-> IF n \in ms THEN 0 ELSE active[n]]
       /\ Replies(ms)
    /\ timer' = [timer EXCEPT ![m] = FALSE]
    /\ UNCHANGED <<phase, thread, sends, frames, server, starts, nextId, pending, asked, running,
                   undefined>>

\* The timer of the thread fires: a busy mate gives up its turn.
TurnTimeout(m) ==
    /\ timer[m]
    /\ LET ms == {m} \cap BusyReached IN
       /\ status' = [n \in Mates |-> IF n \in ms THEN "error" ELSE status[n]]
       /\ active' = [n \in Mates |-> IF n \in ms THEN 0 ELSE active[n]]
       /\ Replies(ms)
    /\ timer' = [timer EXCEPT ![m] = FALSE]
    /\ UNCHANGED <<phase, thread, sends, frames, server, starts, nextId, pending, asked, running,
                   undefined>>

\* The server crashes (an error of the transport, then the end of the process),
\* exits by itself, or writes a line that is no JSON-RPC and goes on.
ServerStops ==
    /\ server # "down"
    /\ server' = "down" /\ asked' = {} /\ running' = {}
    /\ \/ TransportError(BusyReached) /\ frames' = QuitAll
       \/ TransportError({}) /\ UNCHANGED frames
    /\ UNCHANGED <<phase, thread, active, sends, starts, nextId, pending, undefined>>

GarbledLine ==
    /\ server # "down"
    /\ TransportError(BusyReached) /\ frames' = QuitAll
    /\ UNCHANGED <<phase, thread, active, sends, server, starts, nextId, pending, asked,
                   running, undefined>>

----------------------------------------------------------------------------
Next ==
    /\ ~undefined
    /\ \/ \E m \in Mates :
            \/ CreateTmagent(m) \/ CreateCodex(m) \/ CreateStarting(m)
            \/ SendCodex(m) \/ SendTmagent(m) \/ ChildEnds(m) \/ Interrupt(m)
            \/ RemoveTeammate(m) \/ QueuedRemoval(m) \/ TurnTimeout(m)
       \/ \E i \in DOMAIN frames : LoopTimeout(i)
       \/ ReadyReturns \/ SessionReturns
       \/ Answer \/ Activity \/ ErrorNotification \/ TurnCompleted
       \/ ServerStops \/ GarbledLine

Spec == Init /\ [][Next]_vars

\* A timer that runs fires, a child's request ends (AgentLoop), a queued call is
\* made.  The activity of a turn puts its timer off but comes to an end.
Fairness ==
    \A m \in Mates :
        /\ WF_vars(~undefined /\ TurnTimeout(m))
        /\ WF_vars(~undefined /\ ChildEnds(m))
        /\ WF_vars(~undefined /\ QueuedRemoval(m))

FairSpec == Spec /\ Fairness

----------------------------------------------------------------------------
(* Properties.                                                             *)

\* A message that was accepted waits only on a busy mate: whatever ends the turn
\* (the child, the server's report, a refusal, an error, the time-out, the end of
\* the server) tells the sender, who is told once by a tmagent mate.
NoSilentMate ==
    /\ \A m \in waiting : status[m] = "busy"
    /\ spare \subseteq Codex

\* A mate does not stay busy: if the server never reports the end of its turn
\* (it lost the request, or exited without an error), the time-out does.
BusyEnds ==
    \A m \in Mates :
        (Exists(m) /\ status[m] = "busy") ~> (~Exists(m) \/ status[m] # "busy" \/ undefined)
=============================================================================
