---------------------------- MODULE SharedStore ----------------------------
(***************************************************************************)
(* The SQLite database of TmAgent and the processes that share it: the     *)
(* desktop application (a member of Gui) and the interactive command line. *)
(* WorkspaceService, ChatStateRepository and ChatPersistenceService keep   *)
(* the sessions a process knows, their messages and the turns that wait,   *)
(* save them as a whole, append each message as it is posted, and poll the *)
(* database every five seconds for the messages of other processes.        *)
(*                                                                         *)
(* A process runs one event loop: a handler is one step, except that a     *)
(* save is a step per session and one for the purge, since each is a       *)
(* transaction (or several) of its own between which the other process     *)
(* works and a crash can happen.  One agent serves all the sessions of a   *)
(* process, so one turn at a time is active (TurnPipeline has the rest).   *)
(*                                                                         *)
(* Messages are numbered in the order they are made, a turn has the number *)
(* of its message, and `issued` says what each message is:                 *)
(*   "user"      the user's: it is also a turn,                            *)
(*   "merged"    the user's, merged into the turn at the tail of its queue *)
(*   "reply"     the assistant's at the end of a turn,                     *)
(*   "teammate"  a teammate's reply: a turn without content of the user,   *)
(*   "notice"    a tool call or result, a heartbeat, the end of a job.     *)
(***************************************************************************)
EXTENDS Integers, Sequences, FiniteSets, FiniteSetsExt, Functions

CONSTANTS
    Procs,        \* processes that open the database
    Gui,          \* those that are the desktop application
    Sessions,     \* session ids
    Initial,      \* the sessions of the database at the start
    Made,         \* bound: kinds of messages made in a behaviour
    MaxIssued,    \* bound: messages made in a behaviour
    MaxCrashes,   \* bound: processes killed
    MaxFailures,  \* bound: message inserts that fail (database busy)
    MaxRemovals   \* bound: sessions the user removes

ASSUME StoreAssumption ==
    /\ IsFiniteSet(Procs)
    /\ Gui \subseteq Procs
    /\ Initial \subseteq Sessions
    /\ Made \subseteq {"user", "merged", "reply", "teammate", "notice"}
    /\ {MaxIssued, MaxCrashes, MaxFailures, MaxRemovals} \subseteq Nat

VARIABLES
    stored,    \* table sessions
    rows,      \* table messages: [row, msg, seq]; seq 0 is an unset one
    pending,   \* table pending_turns, per session
    phase,     \* per process: down, idle, saving, or leaving (the last save)
    left,      \* per process: sessions the save under way has not reached
    known,     \* per process: sessions of the SessionManager
    mem,       \* per process and session: its messages, [msg, seq]
    saved,     \* WorkspaceService::m_lastSavedMessageCounts, -1 if absent
    synced,    \* WorkspaceService::m_lastSyncRowIds
    queue,     \* per process and session: the turns that wait
    active,    \* per process: the active turn, 0 if there is none
    issued,    \* what was made, by whom and for which session
    executed,  \* how often a turn was started, counted up to two
    created, removed, crashes, failures   \* what has happened so far

db     == <<stored, rows, pending>>
loop   == <<phase, left>>
turns  == <<queue, active, executed>>
local  == <<known, mem, saved, synced>>
counts == <<created, removed, crashes, failures>>
vars   == <<db, loop, turns, local, issued, counts>>

Ids     == 1..MaxIssued
NoTurns == [running |-> 0, queued |-> <<>>]

----------------------------------------------------------------------------
(* Lists.                                                                  *)

\* The members of a finite set in the order of `before', a set of pairs.
Sorted(S, before) ==
    [i \in 1..Cardinality(S) |->
        CHOOSE x \in S : Cardinality({y \in S : <<y, x>> \in before}) = i - 1]

\* The entries of a list for which a position of `some' stands, in order.
Kept(list, some) ==
    LET at == Sorted(some, {w \in some \X some : w[1] < w[2]})
    IN  [i \in DOMAIN at |-> list[at[i]]]

----------------------------------------------------------------------------
(* The messages table.                                                     *)

RowsOf(s) == {r \in rows : issued[r.msg].session = s}
Stored(R, m) == \E r \in R : r.msg = m
LastId(R) == Max({0} \cup {r.row : r \in R})

\* INSERT OR IGNORE for those entries of a list whose positions are in `tried',
\* one by one: a message id is stored once, under the next row id.
Insert(R, list, tried) ==
    LET new == {i \in tried : /\ ~Stored(R, list[i].msg)
                              /\ \A k \in tried : k < i => list[k].msg # list[i].msg}
    IN  R \cup {[row |-> LastId(R) + Cardinality({k \in new : k <= i}),
                 msg |-> list[i].msg, seq |-> list[i].seq] : i \in new}

\* Session::addMessage for each entry: one without a number takes its place in
\* the list.
Add(list, entries) ==
    list \o [i \in DOMAIN entries |->
        [msg |-> entries[i].msg,
         seq |-> IF entries[i].seq > 0 THEN entries[i].seq ELSE Len(list) + i]]

\* The rows of a session as a process that starts reads them.
SessionRows(s) ==
    LET Key(r) == IF r.seq > 0 THEN r.seq ELSE r.row
    IN  Sorted(RowsOf(s),
               {w \in RowsOf(s) \X RowsOf(s) :
                    \/ Key(w[1]) < Key(w[2])
                    \/ Key(w[1]) = Key(w[2]) /\ w[1].row < w[2].row})

\* The list a process that starts makes of them.
Loaded(s) == Add(<<>>, SessionRows(s))

\* The rows of some sessions go, with everything else kept for them.
DeleteSessions(D) ==
    /\ stored'  = stored \ D
    /\ rows'    = rows \ UNION {RowsOf(s) : s \in D}
    /\ pending' = [s \in Sessions |-> IF s \in D THEN NoTurns ELSE pending[s]]

\* The process has a message.
Has(p, s, m) == \E i \in DOMAIN mem[p][s] : mem[p][s][i].msg = m

\* Rows in the order of their ids.
ByRow(R) == Sorted(R, {w \in R \X R : w[1].row < w[2].row})

\* Mutant of Incoming: the messages the process has are not skipped.
IncomingAgain(p, s) == ByRow({r \in RowsOf(s) : r.row > synced[p][s]})

\* Mutant of Incoming: the first message the process has ends the poll.
IncomingBefore(p, s) ==
    LET new   == {r \in RowsOf(s) : r.row > synced[p][s]}
        until == {r \in new : Has(p, s, r.msg)}
    IN  ByRow({r \in new : \A x \in until : r.row < x.row})

\* The rows of a session a poll injects: new to the process by their row id,
\* and not among the messages it has.
Incoming(p, s) == ByRow({r \in RowsOf(s) : r.row > synced[p][s] /\ ~Has(p, s, r.msg)})
LastRow(s) == LastId(RowsOf(s))

----------------------------------------------------------------------------
(* The turns of a process.                                                 *)

\* Mutant of TurnsOf: the running turn is saved as one that waits.
TurnsOfRequeued(p, s) ==
    [running |-> 0,
     queued  |-> (IF active[p] # 0 /\ issued[active[p]].session = s
                  THEN <<active[p]>> ELSE <<>>) \o queue[p][s]]

\* The running turn of a process in a session, and those that wait there.
TurnsOf(p, s) ==
    [running |-> IF active[p] # 0 /\ issued[active[p]].session = s
                 THEN active[p] ELSE 0,
     queued  |-> queue[p][s]]

\* Of the turns in the table those are restored that were waiting and have
\* content of the user: a running one is not, nor is a teammate's.
Restored(s) ==
    LET q == pending[s].queued
    IN  Kept(q, {i \in DOMAIN q : issued[q[i]].kind = "user"})

\* With the queues q and no active turn, the process starts the next turn of
\* the session s, else that of any session (the order is that of a hash).
StartNext(p, q, s) ==
    LET waiting == {x \in Sessions : q[x] # <<>>}
        next    == IF s \in waiting THEN {s} ELSE waiting
    IN  \/ /\ next = {}
           /\ queue'  = [queue EXCEPT ![p] = q]
           /\ active' = [active EXCEPT ![p] = 0]
           /\ UNCHANGED executed
        \/ \E x \in next :
             /\ queue'    = [queue EXCEPT ![p] = [q EXCEPT ![x] = Tail(@)]]
             /\ active'   = [active EXCEPT ![p] = Head(q[x])]
             /\ executed' = [executed EXCEPT ![Head(q[x])] = IF @ < 2 THEN @ + 1 ELSE @]

\* A turn is queued; a process whose agent is free starts the session's first.
Enqueue(p, s, t) ==
    LET q == [queue[p] EXCEPT ![s] = Append(@, t)]
    IN  IF active[p] = 0 THEN StartNext(p, q, s)
        ELSE queue' = [queue EXCEPT ![p] = q] /\ UNCHANGED <<active, executed>>

Ready(p) == phase[p] = "idle"

Issue(p, s, kind) ==
    /\ Len(issued) < MaxIssued /\ kind \in Made
    /\ issued' = Append(issued, [session |-> s, by |-> p, kind |-> kind])

\* A new message: appended in memory, then inserted at once.  When the insert
\* fails the message stays in memory and the saved count is left alone.
Post(p, s) ==
    LET entry == [msg |-> Len(issued) + 1, seq |-> 0]
    IN  /\ mem' = [mem EXCEPT ![p][s] = Add(@, <<entry>>)]
        /\ \/ /\ rows'  = Insert(rows, <<entry>>, {1})
              /\ saved' = [saved EXCEPT ![p][s] = Len(mem'[p][s])]
              /\ UNCHANGED failures
           \/ /\ failures < MaxFailures
              /\ failures' = failures + 1
              /\ UNCHANGED <<rows, saved>>
        /\ UNCHANGED <<known, synced>>

\* A save begins with the sessions it will write.
BeginSave(p, how, sessions) ==
    /\ phase' = [phase EXCEPT ![p] = how]
    /\ left'  = [left EXCEPT ![p] = sessions]

\* What a process that is not running has in memory: nothing.
Forget(p) ==
    /\ known'  = [known EXCEPT ![p] = {}]
    /\ mem'    = [mem EXCEPT ![p] = [s \in Sessions |-> <<>>]]
    /\ saved'  = [saved EXCEPT ![p] = [s \in Sessions |-> -1]]
    /\ synced' = [synced EXCEPT ![p] = [s \in Sessions |-> 0]]
    /\ queue'  = [queue EXCEPT ![p] = [s \in Sessions |-> <<>>]]
    /\ active' = [active EXCEPT ![p] = 0]

----------------------------------------------------------------------------
Init ==
    /\ stored = Initial /\ rows = {} /\ pending = [s \in Sessions |-> NoTurns]
    /\ phase = [p \in Procs |-> "down"]
    /\ left = [p \in Procs |-> {}]
    /\ known = [p \in Procs |-> {}]
    /\ mem = [p \in Procs |-> [s \in Sessions |-> <<>>]]
    /\ saved = [p \in Procs |-> [s \in Sessions |-> -1]]
    /\ synced = [p \in Procs |-> [s \in Sessions |-> 0]]
    /\ queue = [p \in Procs |-> [s \in Sessions |-> <<>>]]
    /\ active = [p \in Procs |-> 0]
    /\ issued = <<>>
    /\ executed = [t \in Ids |-> 0]
    /\ created = Initial /\ removed = {} /\ crashes = 0 /\ failures = 0

\* A process starts: it loads the sessions, their messages and the turns that
\* were waiting, and starts one of these.  It may load while another process holds the same turns.
Load(p) ==
    LET restored == [s \in Sessions |-> IF s \in stored THEN Restored(s) ELSE <<>>]
    IN  /\ phase[p] = "down"
        /\ phase'  = [phase EXCEPT ![p] = "idle"]
        /\ known'  = [known EXCEPT ![p] = stored]
        /\ mem'    = [mem EXCEPT ![p] =
                        [s \in Sessions |-> IF s \in stored THEN Loaded(s) ELSE <<>>]]
        /\ saved'  = [saved EXCEPT ![p] =
                        [s \in Sessions |-> IF s \in stored THEN Len(mem'[p][s]) ELSE -1]]
        /\ \E s \in Sessions : StartNext(p, restored, s)
        /\ UNCHANGED <<db, left, synced, issued, counts>>

\* The user sends a message: it is posted, then queued as a turn, or merged
\* into the turn at the tail of the queue.
SendUserMessage(p, s) ==
    /\ Ready(p) /\ s \in known[p]
    /\ Post(p, s)
    /\ \/ Issue(p, s, "user") /\ Enqueue(p, s, Len(issued) + 1)
       \/ /\ queue[p][s] # <<>> /\ issued[queue[p][s][Len(queue[p][s])]].kind = "user"
          /\ Issue(p, s, "merged")
          /\ UNCHANGED turns
    /\ UNCHANGED <<stored, pending, loop, created, removed, crashes>>

\* A teammate's reply is posted and becomes a turn.
TeammateReply(p, s) ==
    /\ Ready(p) /\ s \in known[p]
    /\ Issue(p, s, "teammate") /\ Post(p, s)
    /\ Enqueue(p, s, Len(issued) + 1)
    /\ UNCHANGED <<stored, pending, loop, created, removed, crashes>>

\* A message that is no turn.
Notify(p, s) ==
    /\ Ready(p) /\ s \in known[p]
    /\ Issue(p, s, "notice") /\ Post(p, s)
    /\ UNCHANGED <<stored, pending, loop, turns, created, removed, crashes>>

\* A turn ends: the next one starts, then the reply (if there is one) is
\* posted, then the finished signal makes the desktop save; the command line
\* saves when the session is the one it shows.
Finish(p) ==
    /\ Ready(p) /\ active[p] # 0
    /\ LET s == issued[active[p]].session
       IN  /\ StartNext(p, queue[p], s)
           /\ \/ Issue(p, s, "reply") /\ Post(p, s)
              \/ UNCHANGED <<issued, rows, local, failures>>
    /\ \/ BeginSave(p, "saving", known[p])
       \/ p \notin Gui /\ UNCHANGED loop
    /\ UNCHANGED <<stored, pending, created, removed, crashes>>

\* A turn is stopped or fails: the next one starts, and nothing is saved.
Drop(p) ==
    /\ Ready(p) /\ active[p] # 0
    /\ StartNext(p, queue[p], issued[active[p]].session)
    /\ UNCHANGED <<db, loop, local, issued, counts>>

\* A session is created, and everything saved.
CreateSession(p, s) ==
    /\ Ready(p) /\ s \notin created
    /\ known'   = [known EXCEPT ![p] = @ \cup {s}]
    /\ created' = created \cup {s}
    /\ BeginSave(p, "saving", known'[p])
    /\ UNCHANGED <<db, turns, mem, saved, synced, issued, removed, crashes, failures>>

\* The user removes a session (only the desktop offers it): its turn is
\* stopped, it leaves memory and, in one transaction, the database; the
\* watermark of the poll stays.  Then everything is saved.
RemoveSession(p, s) ==
    /\ Ready(p) /\ p \in Gui /\ s \in known[p]
    /\ Cardinality(removed) < MaxRemovals
    /\ LET q == [queue[p] EXCEPT ![s] = <<>>]
       IN  IF active[p] = 0 \/ issued[active[p]].session = s THEN StartNext(p, q, s)
           ELSE queue' = [queue EXCEPT ![p] = q] /\ UNCHANGED <<active, executed>>
    /\ known'   = [known EXCEPT ![p] = @ \ {s}]
    /\ mem'     = [mem EXCEPT ![p][s] = <<>>]
    /\ removed' = removed \cup {s}
    /\ DeleteSessions({s})
    /\ BeginSave(p, "saving", known'[p])
    /\ UNCHANGED <<saved, synced, issued, created, crashes, failures>>

\* The desktop also saves when the user switches, renames or edits something.
SaveNow(p) ==
    /\ Ready(p) /\ p \in Gui
    /\ BeginSave(p, "saving", known[p])
    /\ UNCHANGED <<db, turns, local, issued, counts>>

\* The save of one session: its row; all its messages if their number is not
\* the saved one (an insert may fail, the number is recorded all the same);
\* and its turns, which replace those of the table.
SaveSession(p, s) ==
    LET written == IF saved[p][s] = Len(mem[p][s]) THEN {} ELSE DOMAIN mem[p][s]
    IN  /\ s \in left[p]
        /\ \E lost \in SUBSET written :
             /\ failures + Cardinality(lost) <= MaxFailures
             /\ failures' = failures + Cardinality(lost)
             /\ rows' = Insert(rows, mem[p][s], written \ lost)
        /\ stored'  = stored \cup {s}
        /\ saved'   = [saved EXCEPT ![p][s] = Len(mem[p][s])]
        /\ pending' = [pending EXCEPT ![s] = TurnsOf(p, s)]
        /\ left'    = [left EXCEPT ![p] = @ \ {s}]
        /\ UNCHANGED <<phase, turns, known, mem, synced, issued, created, removed, crashes>>

\* The end of a save: sessions of the database the process does not know are
\* removed from it, and their counts forgotten; a last save ends the process.
Purge(p) ==
    /\ phase[p] \in {"saving", "leaving"} /\ left[p] = {}
    /\ DeleteSessions(stored \ known[p])
    /\ \/ /\ phase[p] = "saving"
          /\ phase' = [phase EXCEPT ![p] = "idle"]
          /\ saved' = [saved EXCEPT ![p] =
                         [s \in Sessions |-> IF s \in known[p] THEN @[s] ELSE -1]]
          /\ UNCHANGED <<known, mem, synced, queue, active>>
       \/ /\ phase[p] = "leaving"
          /\ phase' = [phase EXCEPT ![p] = "down"]
          /\ Forget(p)
    /\ UNCHANGED <<left, executed, issued, counts>>

\* The poll of one session.  A handler polls all the sessions, but what it
\* does for one neither reads nor writes what belongs to another.
Poll(p, s) ==
    LET news == Incoming(p, s)
    IN  /\ Ready(p) /\ s \in known[p]
        /\ LastRow(s) > synced[p][s]
        /\ mem'    = [mem EXCEPT ![p][s] = Add(@, news)]
        /\ saved'  = IF news = <<>> THEN saved
                     ELSE [saved EXCEPT ![p][s] = Len(mem'[p][s])]
        /\ synced' = [synced EXCEPT ![p][s] = LastRow(s)]
        /\ UNCHANGED <<db, loop, turns, known, issued, counts>>

\* The user closes the process, which saves once more.
Exit(p) ==
    /\ Ready(p)
    /\ BeginSave(p, "leaving", known[p])
    /\ UNCHANGED <<db, turns, local, issued, counts>>

\* The process is killed, in the middle of a save or not.
Crash(p) ==
    /\ phase[p] # "down" /\ crashes < MaxCrashes
    /\ crashes' = crashes + 1
    /\ BeginSave(p, "down", {})
    /\ Forget(p)
    /\ UNCHANGED <<db, executed, issued, created, removed, failures>>

Step(p) ==
    \/ Load(p) \/ Finish(p) \/ Drop(p) \/ SaveNow(p) \/ Purge(p) \/ Exit(p) \/ Crash(p)
    \/ \E s \in Sessions :
         \/ SendUserMessage(p, s) \/ TeammateReply(p, s) \/ Notify(p, s)
         \/ CreateSession(p, s) \/ RemoveSession(p, s)
         \/ SaveSession(p, s) \/ Poll(p, s)

Next == \E p \in Procs : Step(p)

\* A save runs to its end, and the poll timer, once due, is served when the
\* event loop is free between the saves.
Fairness ==
    \A p \in Procs :
        /\ WF_vars(Purge(p))
        /\ \A s \in Sessions : WF_vars(SaveSession(p, s)) /\ SF_vars(Poll(p, s))

Spec     == Init /\ [][Next]_vars
FairSpec == Spec /\ Fairness

----------------------------------------------------------------------------
(* Properties.                                                             *)

Up(p) == phase[p] # "down"
\* Type invariant.
TypeOK ==
    /\ stored \subseteq created /\ removed \subseteq created /\ created \subseteq Sessions
    /\ rows \in SUBSET [row : Nat \ {0}, msg : DOMAIN issued, seq : Nat]
    /\ \A a, b \in rows : a.row = b.row \/ a.msg = b.msg => a = b
    /\ phase \in [Procs -> {"down", "idle", "saving", "leaving"}]
    /\ \A p \in Procs :
         /\ left[p] \subseteq known[p] /\ known[p] \subseteq created
         /\ left[p] # {} => phase[p] \in {"saving", "leaving"}
         /\ active[p] \in {0} \cup DOMAIN issued
         /\ \A s \in Sessions :
              /\ \A i \in DOMAIN mem[p][s] : mem[p][s][i].seq > 0
              /\ queue[p][s] # <<>> => active[p] # 0
    /\ Len(issued) <= MaxIssued
    /\ crashes \in 0..MaxCrashes /\ failures \in 0..MaxFailures

\* What a process sees of the messages another one (or itself, before it was
\* started again) has posted to a session is a prefix of them in the order
\* they were posted: the poll's watermark skips no row, repeats none and
\* reverses none, whatever the process appended in between, and a restart
\* reads them back in that order, as long as nobody removes the session and no
\* insert fails.  (pollExternalChanges, loadMessagesFromDb.)
SeenInOrder ==
    failures = 0 =>
        \A p \in Procs : \A s \in (known[p] \cap Initial) \ removed :
            \A i \in DOMAIN mem[p][s] :
                LET At(k) == mem[p][s][k].msg
                    Mine(m) == issued[m].by = issued[At(i)].by /\ issued[m].session = s
                IN  /\ issued[At(i)].session = s
                    /\ \A k \in 1..i-1 : Mine(At(k)) => At(k) < At(i)
                    /\ \A m \in 1..At(i)-1 : Mine(m) => \E k \in 1..i-1 : At(k) = m

\* A message stored in a session comes to every process that has the session
\* open: by the poll, although saves and posts of its own move its counts and
\* watermark, unless the process is closed first.  (pollExternalChanges.)
Delivered ==
    \A p \in Procs, s \in Sessions, m \in Ids :
        (s \in known[p] /\ Stored(RowsOf(s), m))
            ~> (Has(p, s, m) \/ phase[p] \in {"down", "leaving"})

\* Whether a turn is still to be started: from a queue, or from the table when
\* no process runs.
Waits(t) ==
    LET s == issued[t].session
    IN  \/ \E p \in Procs : t \in Range(queue[p][s])
        \/ (\A p \in Procs : ~Up(p)) /\ t \in Range(pending[s].queued)

\* Closing the application and starting it again neither loses a user's turn
\* nor starts it twice, whatever it was doing: while it is never killed, a turn
\* of a session nobody removed waits (in a queue, or in the table while the
\* application is down) exactly until it is started, once.
\* (serializePendingTurns, restorePendingTurns, loadSessionsFromDisk.)
TurnsSurvive ==
    crashes = 0 =>
        \A t \in DOMAIN issued :
            issued[t].kind = "user" /\ issued[t].session \notin removed =>
                /\ Waits(t) <=> executed[t] = 0
                /\ executed[t] <= 1

\* The state is restored whole: no message and no row id twice, and the turns of
\* the user exactly once.
RestoredWhole == TypeOK /\ TurnsSurvive

\* "消息主链在并发写入下不丢消息" (docs/10_方案/10-架构升级设计方案.md:939): a stored
\* message of a session that nobody removed stays in the table.
NothingLost ==
    [][\A r \in rows : issued[r.msg].session \notin removed' => Stored(rows', r.msg)]_vars
=============================================================================
