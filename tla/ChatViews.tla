------------------------------ MODULE ChatViews ------------------------------
(***************************************************************************)
(* The chat windows of the desktop: one view per identity, of which one is *)
(* active, and what it shows of the session that is selected in it         *)
(* (MainWindow, IdentityView, ChatUiFlowSupport, ChatWidget).              *)
(*                                                                         *)
(* The services emit events while a turn runs; the window routes each of   *)
(* them to the views of the session.  Only the active view renders, the    *)
(* others are filled from the session when they are activated.  A bubble   *)
(* is filled by row number: the row a reply is streamed into is kept in    *)
(* the view (`pending') and again in the chat widget (`target'), which     *)
(* also holds back the last pieces for some milliseconds (`tail').         *)
(*                                                                         *)
(* A bubble is the sequence of what was written into it: a message of the  *)
(* session, a notice, or pieces of a reply.  Each session belongs to the   *)
(* user and one agent, so the turns of two sessions may run at once.       *)
(*                                                                         *)
(* A message that may be shown is the number of its post: later messages   *)
(* have greater numbers, as they have later times.  The messages that are  *)
(* never shown are alike: those not meant for the chat are Hidden; calls   *)
(* and results of tools, empty texts and incomplete files are Blank.       *)
(***************************************************************************)
EXTENDS Integers, Sequences, SequencesExt, FiniteSets

CONSTANTS
    Sessions,       \* sessions that may be created
    Agents,         \* agents
    AgentOf,        \* the agent of each session
    User,           \* the identity of the user
    Opened,         \* the identities whose views are opened, the user's among them
    NoSession,
    MaxMessages,    \* bound: messages of all sessions
    MaxPieces,      \* bound: pieces of a reply between two tool calls
    QueueLimit,     \* turns a session may have waiting before one is rejected
    HistoryLimit    \* messages a view is filled with, 300 in the code

VARIABLES
    session,    \* of each: exists, existed once, its messages, turn running, turns waiting,
                \* pieces streamed since the last tool call, tool calls made
    view,       \* of each identity: see ViewAtStart
    active,     \* the identity whose view is active
    posted      \* number of messages so far

vars == <<session, view, active, posted>>

Participants(s) == {User, AgentOf[s]}

Piece == 0
Notice == -1
Earlier == -2   \* the notice that earlier messages are left out
Hidden == -3
Blank == -4

ViewAtStart ==
    [cur |-> NoSession,     \* the session selected in it
     list |-> {},           \* the sessions in its list
     dirty |-> TRUE,        \* the list is to be loaded again when it is activated
     bubbles |-> <<>>,
     sending |-> FALSE,     \* a reply is being received
     pending |-> 0,         \* row of the reply that is streamed, 0 when there is none
     target |-> 0,          \* the same in the chat widget
     tail |-> 0,            \* pieces not yet written into a bubble
     apart |-> FALSE,       \* (history) filled anew while a reply was streamed into it
     late |-> {}]           \* (history) messages of the session it has not been told of

NewSession == [there |-> FALSE, gone |-> FALSE, msgs |-> <<>>, turn |-> FALSE, queued |-> 0, buffer |-> 0, calls |-> 0]

Init ==
    /\ session = [s \in Sessions |-> NewSession]
    /\ view = [i \in Opened |-> ViewAtStart]
    /\ active = User
    /\ posted = 0

-----------------------------------------------------------------------------
(* The chat widget.                                                        *)

\* isSessionStreaming in the sessions ss.
Streaming(ss, s) == s # NoSession /\ ss[s].there /\ ss[s].turn

Written(w, row, what) ==
    IF row \in DOMAIN w.bubbles THEN [w EXCEPT !.bubbles[row] = @ \o what] ELSE w

\* flushPendingStreamBuffer: into the row of the reply, or else into the last one.
Flushed(w) ==
    LET row == IF w.target \in DOMAIN w.bubbles THEN w.target ELSE Len(w.bubbles) IN
    [Written(w, row, [k \in 1..w.tail |-> Piece]) EXCEPT !.tail = 0]

\* setSendingState.
Sending(w, b) == IF b THEN [w EXCEPT !.sending = TRUE] ELSE Flushed([w EXCEPT !.sending = FALSE])

Added(w, what) == [w EXCEPT !.bubbles = Append(@, what)]

\* streamOutput: the pieces are held back until the next flush.
Streamed(w, n) == IF w.sending THEN [w EXCEPT !.tail = @ + n] ELSE w

-----------------------------------------------------------------------------
(* IdentityView.                                                           *)

\* Mutant of Reset: the row of the last reply stays.
ResetNot(w) == w

\* resetStreamState.
Reset(w) == [w EXCEPT !.pending = 0, !.target = 0]

\* updateSendingState.
Updated(w, ss) == Sending(w, Streaming(ss, w.cur))

\* visibleInChat, and the last of these messages up to the limit.
Visible(ms) == {k \in DOMAIN ms : ms[k] # Hidden}
Recent(ms) ==
    {k \in Visible(ms) : Cardinality({j \in Visible(ms) : j > k}) < HistoryLimit}

\* sortHistoryByTimestamp.
Sorted(S) ==
    [n \in 1 .. Cardinality(S) |-> CHOOSE m \in S : Cardinality({j \in S : j < m}) = n - 1]

\* buildSessionHistoryMessages, as setHistoryMessages orders it: a message that has
\* something to show is a bubble, and the notice of what is left out is of now.
History(ms) ==
    LET sorted == Sorted({ms[k] : k \in Recent(ms)} \ {Blank})
        shown == [n \in DOMAIN sorted |-> <<sorted[n]>>]
    IN IF Recent(ms) = Visible(ms) THEN shown ELSE Append(shown, <<Earlier>>)

\* Mutant of Restored: the bubbles stay (no clearChatMessages).
RestoredOver(w, ss) ==
    [w EXCEPT !.bubbles = @ \o History(ss[w.cur].msgs),
              !.target = 0, !.tail = 0, !.late = {},
              !.apart = w.pending # 0]

\* restoreChatFromSession: a row of the view that is left over points anywhere.
Restored(w, ss) ==
    [w EXCEPT !.bubbles = History(ss[w.cur].msgs),
              !.target = 0, !.tail = 0, !.late = {},
              !.apart = w.pending # 0]

\* reloadSessionList.
Listed(w, i, ss) ==
    [w EXCEPT !.list = {s \in Sessions : ss[s].there /\ i \in Participants(s)}, !.dirty = FALSE]

Placeholder(w) ==
    LET row == Len(w.bubbles) + 1 IN [Added(w, <<>>) EXCEPT !.pending = row, !.target = row]

\* activate: the pieces streamed so far are shown in a bubble of their own.
Activated(w, i, ss) ==
    LET listed == IF w.dirty THEN Listed(Reset(w), i, ss) ELSE Reset(w)
        there == w.cur # NoSession /\ ss[w.cur].there
        shown == IF there THEN Restored(listed, ss) ELSE listed
        running == IF Streaming(ss, w.cur) THEN Sending(shown, TRUE) ELSE shown
        filled == IF Streaming(ss, w.cur) /\ ss[w.cur].buffer > 0
                  THEN Streamed(Placeholder(running), ss[w.cur].buffer)
                  ELSE running
    IN Updated(filled, ss)

\* switchToSessionView, for a session that exists and is not the current one.
SwitchedTo(w, s, ss) == Updated(Restored([w EXCEPT !.cur = s], ss), ss)

\* completeStreamingResponse with the reply a, 0 when it is empty.
Completed(w, a) ==
    CASE w.pending # 0 /\ a = 0 ->
            [w EXCEPT !.bubbles = IF w.pending \in DOMAIN @ THEN RemoveAt(@, w.pending) ELSE @,
                      !.target = IF @ = w.pending THEN 0 ELSE IF @ > w.pending THEN @ - 1 ELSE @]
      [] w.pending # 0 /\ a # 0 ->
            IF w.pending \in DOMAIN w.bubbles THEN [w EXCEPT !.bubbles[w.pending] = <<a>>] ELSE w
      [] w.pending = 0 /\ a # 0 -> Added(w, <<a>>)
      [] OTHER -> w

\* finalizeUiUpdate after a turn has ended in one way or another.
Ended(w, ss) == Updated(Reset(w), ss)

Shows(w, i, s) == i = active /\ w.cur = s

\* Nothing tells the view of the message m of s.
Unheard(w, i, s, m) ==
    IF Shows(w, i, s) /\ m > 0 THEN [w EXCEPT !.late = @ \cup {m}] ELSE w

\* handleFinished with the reply a, 0 when there is none.
Finished(w, i, s, a, ss) ==
    IF s \notin w.list THEN w
    ELSE Ended(IF Shows(w, i, s) THEN Completed(w, a) ELSE w, ss)

\* handleError: the notice is added after the row has been reset.
Failed(w, i, s, ss) ==
    IF s \notin w.list THEN w
    ELSE Ended(IF Shows(w, i, s) THEN Added(Reset(w), <<Notice>>) ELSE w, ss)

\* refreshSendingState, on turn_started.
Started(w, ss) == Updated(w, ss)

-----------------------------------------------------------------------------
(* The services and the routing of their events (MainWindow).              *)

\* viewsForSession.
ViewsOf(s) == Participants(s)

ForViews(s, new) ==
    view' = [i \in Opened |-> IF i \in ViewsOf(s) THEN new[i] ELSE view[i]]

\* A turn of s begins if none runs and one waits.
NextTurn(x) ==
    IF ~x.turn /\ x.queued > 0
    THEN [x EXCEPT !.turn = TRUE, !.queued = @ - 1, !.buffer = 0, !.calls = 0]
    ELSE x

\* finalizeTurnInternal: the turn ends, and the next one begins before the views
\* hear of it.
Over(x) == NextTurn([x EXCEPT !.turn = FALSE, !.buffer = 0])

\* postMessage.
Posts(x, m) == [x EXCEPT !.msgs = Append(@, m)]

\* The message m of s and a turn that answers it, which begins if none runs.
Taken(x, m) == NextTurn(Posts([x EXCEPT !.queued = @ + 1], m))

CanPost == posted < MaxMessages

\* Nothing is heard of the turn of a session that is removed, nor of its messages.
Removed == [NewSession EXCEPT !.gone = TRUE]

\* The identity exists; an agent whose sessions may still be created does.
Known(i) == i = User \/ \E s \in Sessions : AgentOf[s] = i /\ ~session[s].gone

\* onChatItemActivated and currentChanged, with the switch of the next event.
Select(s) ==
    /\ s \in view[active].list
    /\ s # view[active].cur /\ session[s].there
    /\ view' = [view EXCEPT ![active] = SwitchedTo(@, s, session)]
    /\ UNCHANGED <<session, active, posted>>

\* switchToIdentity.
SwitchIdentity(i) ==
    /\ Known(i)
    /\ view' = [j \in Opened |->
                  LET w == IF j = active THEN Reset(view[j]) ELSE view[j] IN
                  IF j = i THEN Activated(w, j, session) ELSE w]
    /\ active' = i
    /\ UNCHANGED <<session, posted>>

\* onNewChatRequested, in the view of the user; onSessionCreated marks the others.
CreateSession(s) ==
    /\ active = User
    /\ session[s] = NewSession
    /\ LET ss == [session EXCEPT ![s].there = TRUE] IN
       /\ session' = ss
       /\ view' = [i \in Opened |->
             CASE i = User -> SwitchedTo(Listed(view[i], i, ss), s, ss)
               [] i = AgentOf[s] -> [view[i] EXCEPT !.dirty = TRUE]
               [] OTHER -> view[i]]
    /\ UNCHANGED <<active, posted>>

\* onChatItemRemoved: the session is removed, then removeSession of
\* SessionUiSupport tries to remove it once more and fails, so that the view
\* goes back to its list without looking at its current session.
RemoveSession(s) ==
    /\ active = User
    /\ s \in view[User].list /\ session[s].there
    /\ LET ss == [session EXCEPT ![s] = Removed] IN
       /\ session' = ss
       /\ view' = [i \in Opened |->
             IF i = active THEN Listed(view[i], i, ss) ELSE [view[i] EXCEPT !.dirty = TRUE]]
    /\ UNCHANGED <<active, posted>>

\* onUserMessageSent: the widget shows the message, and the service posts it and
\* starts a turn, or queues it, or merges it into the last turn that waits, or finds
\* the queue full.
Send(s, merged) ==
    /\ active = User
    /\ view[User].cur = s /\ session[s].there
    /\ CanPost
    /\ merged => session[s].queued > 0
    /\ LET typed == Sending(Added([view[User] EXCEPT !.sending = TRUE], <<posted + 1>>), FALSE)
           full == ~merged /\ session[s].queued >= QueueLimit
           begun == ~merged /\ ~session[s].turn
           x == CASE full -> session[s]
                  [] merged -> Posts(session[s], posted + 1)
                  [] OTHER -> Taken(session[s], posted + 1)
           ss == [session EXCEPT ![s] = x] IN
       /\ session' = ss
       /\ view' = [i \in Opened |->
             LET w == IF i = User THEN typed ELSE view[i] IN
             IF i \notin ViewsOf(s) THEN w
             ELSE IF full THEN Failed(w, i, s, ss)
             ELSE IF begun THEN Started(w, ss)
             ELSE w]
    /\ posted' = posted + 1
    /\ UNCHANGED active

\* The message m of s, of which no view is told.
Quiet(s, m) ==
    /\ CanPost
    /\ session' = [session EXCEPT ![s] = Posts(@, m)]
    /\ ForViews(s, [i \in Opened |-> Unheard(view[i], i, s, m)])
    /\ posted' = posted + 1
    /\ UNCHANGED active

\* The same with a turn for it: the views hear of the turn when it begins.
QuietTurn(s, m) ==
    /\ CanPost
    /\ LET ss == [session EXCEPT ![s] = Taken(@, m)] IN
       /\ session' = ss
       /\ ForViews(s, [i \in Opened |->
             Unheard(IF session[s].turn THEN view[i] ELSE Started(view[i], ss), i, s, m)])
    /\ posted' = posted + 1
    /\ UNCHANGED active

\* enqueueScheduledReminderAs: the queue is full, or the reminder waits for its turn;
\* the message is not for the chat.
Reminder(s) ==
    /\ session[s].there
    /\ \/ /\ session[s].queued < QueueLimit
          /\ QuietTurn(s, Hidden)
       \/ /\ session[s].queued >= QueueLimit
          /\ ForViews(s, [i \in Opened |-> Failed(view[i], i, s, session)])
          /\ UNCHANGED <<session, active, posted>>

\* handleTeammateReply: there is no turn for an empty reply, and no limit.
TeammateReplied(s, empty) ==
    /\ session[s].there
    /\ IF empty THEN Quiet(s, Blank) ELSE QuietTurn(s, posted + 1)

\* onDelegateJobSettled: a notice of the system.
DelegateSettled(s) == session[s].there /\ Quiet(s, posted + 1)

\* handleToolPersistence, of a call or of its result.
ToolEvent(s) == session[s].turn /\ Quiet(s, Blank)

\* The same for the result of send_file: the file is a message of its own, and the
\* event has the view add a bubble for it (handleToolEvent).
FileSent(s) ==
    /\ session[s].turn
    /\ posted + 2 <= MaxMessages
    /\ session' = [session EXCEPT ![s] = Posts(Posts(@, Blank), posted + 2)]
    /\ ForViews(s, [i \in Opened |->
          IF Shows(view[i], i, s) /\ s \in view[i].list
          THEN Added(view[i], <<posted + 2>>) ELSE view[i]])
    /\ posted' = posted + 2
    /\ UNCHANGED active

\* onStreamData: only the active view, and only of its current session.
StreamDelta(s) ==
    /\ session[s].turn
    /\ session[s].buffer < MaxPieces
    /\ session' = [session EXCEPT ![s].buffer = @ + 1]
    /\ ForViews(s, [i \in Opened |->
          LET w  == view[i]
              on == Sending(w, TRUE)
          IN  IF ~Shows(w, i, s) \/ s \notin w.list THEN w
              ELSE Streamed(IF w.pending = 0 THEN Placeholder(on) ELSE on, 1)])
    /\ UNCHANGED <<active, posted>>

\* The timer of the chat widget.
Flush(i) ==
    /\ view[i].tail > 0
    /\ view' = [view EXCEPT ![i] = Flushed(@)]
    /\ UNCHANGED <<session, active, posted>>

\* onToolCallsStarted.
ToolCalls(s) ==
    /\ session[s].turn
    /\ session[s].calls = 0
    /\ session' = [session EXCEPT ![s].buffer = 0, ![s].calls = 1]
    /\ ForViews(s, [i \in Opened |->
          IF s \notin view[i].list THEN view[i]
          ELSE Reset(view[i])])
    /\ UNCHANGED <<active, posted>>

\* The views hear that the next turn has started before what became of the last.
Heard(s, ss) == [i \in Opened |-> IF ss[s].turn THEN Started(view[i], ss) ELSE view[i]]

\* onRuntimeFinished: a reply is posted unless it is empty.
TurnFinished(s, empty) ==
    /\ session[s].turn
    /\ empty \/ CanPost
    /\ LET x == Over(session[s])
           ss == [session EXCEPT ![s] = IF empty THEN x ELSE Posts(x, posted + 1)]
           a == IF empty THEN 0 ELSE posted + 1 IN
       /\ session' = ss
       /\ ForViews(s, [i \in Opened |-> Finished(Heard(s, ss)[i], i, s, a, ss)])
    /\ posted' = IF empty THEN posted ELSE posted + 1
    /\ UNCHANGED active

\* onRuntimeError.
TurnFailed(s) ==
    /\ session[s].turn
    /\ LET ss == [session EXCEPT ![s] = Over(@)] IN
       /\ session' = ss
       /\ ForViews(s, [i \in Opened |-> Failed(Heard(s, ss)[i], i, s, ss)])
    /\ UNCHANGED <<active, posted>>

\* onRuntimeError while delegate jobs run: a reply is posted, but the views know
\* nothing of turn_recovered and hear only that the turn has failed.
TurnRecovered(s) ==
    /\ session[s].turn /\ CanPost
    /\ LET ss == [session EXCEPT ![s] = Posts(Over(@), posted + 1)] IN
       /\ session' = ss
       /\ ForViews(s, [i \in Opened |->
             Unheard(Failed(Heard(s, ss)[i], i, s, ss), i, s, posted + 1)])
    /\ posted' = posted + 1
    /\ UNCHANGED active

\* onAbortClicked in the view of the user: turn_cancelled, the next turn, and
\* then the notice.
Abort ==
    /\ active = User
    /\ Streaming(session, view[User].cur)
    /\ LET s == view[User].cur
           cleared == [session EXCEPT ![s] = [@ EXCEPT !.turn = FALSE, !.buffer = 0]]
           ss == [cleared EXCEPT ![s] = NextTurn(@)]
           After(w, i) ==
              LET c == Finished(w, i, s, 0, cleared) IN IF ss[s].turn THEN Started(c, ss) ELSE c IN
       /\ session' = ss
       /\ view' = [i \in Opened |->
             CASE i = User ->
                    Updated(Added(After(view[i], i), <<Notice>>), ss)
               [] i = AgentOf[s] -> After(view[i], i)
               [] OTHER -> view[i]]
    /\ UNCHANGED <<active, posted>>

\* The message m of another program or of the heartbeat is posted to the session, and
\* the view is filled anew (refreshSessionContent).
Inject(s, m) ==
    /\ session[s].there /\ CanPost
    /\ LET ss == [session EXCEPT ![s] = Posts(@, m)] IN
       /\ session' = ss
       /\ ForViews(s, [i \in Opened |->
             IF Shows(view[i], i, s) /\ s \in view[i].list
             THEN Restored(view[i], ss) ELSE view[i]])
    /\ posted' = posted + 1
    /\ UNCHANGED active

\* An event of the memory: the view is filled anew, after the notice of an error.
MemoryNotice(s, error) ==
    /\ session[s].there
    /\ ForViews(s, [i \in Opened |->
          LET w == view[i]
              f == IF error THEN Failed(w, i, s, session) ELSE w
          IN  IF Shows(w, i, s) /\ s \in w.list THEN Restored(f, session) ELSE f])
    /\ UNCHANGED <<session, active, posted>>

\* removeAgentIdentityView after the sessions of the agent have been removed.
DeleteAgent(a) ==
    /\ Known(a)
    /\ LET ss == [s \in Sessions |->
                    IF AgentOf[s] = a THEN Removed ELSE session[s]]
           next == IF active = a THEN User ELSE active IN
       /\ session' = ss
       /\ active' = next
       /\ view' = [i \in Opened |->
             CASE i = a -> ViewAtStart
               [] i = next -> Activated(Listed(Reset(view[i]), i, ss), i, ss)
               [] OTHER -> [view[i] EXCEPT !.dirty = TRUE]]
    /\ UNCHANGED posted

Next ==
    \/ \E s \in Sessions :
          \/ Select(s) \/ CreateSession(s) \/ RemoveSession(s)
          \/ StreamDelta(s) \/ ToolCalls(s) \/ TurnFailed(s) \/ TurnRecovered(s)
          \/ Reminder(s) \/ DelegateSettled(s) \/ ToolEvent(s) \/ FileSent(s)
          \/ \E b \in BOOLEAN :
                \/ Send(s, b) \/ TurnFinished(s, b)
                \/ TeammateReplied(s, b) \/ MemoryNotice(s, b)
          \/ \E m \in {posted + 1, Hidden, Blank} : Inject(s, m)
    \/ \E i \in Opened : SwitchIdentity(i) \/ Flush(i)
    \/ Abort
    \/ \E a \in Agents : DeleteAgent(a)

Spec == Init /\ [][Next]_vars

-----------------------------------------------------------------------------
TypeOK ==
    /\ active \in Opened
    /\ \A i \in Opened :
          /\ view[i].list \subseteq Sessions
          /\ view[i].pending \in Nat /\ view[i].target \in Nat
          /\ view[i].tail \in Nat

Selected(i) == view[i].cur # NoSession /\ session[view[i].cur].there

\* A view that shows a session is in the state of receiving a reply only while a
\* turn of that session runs: whatever ended it (a reply, an error, the user, the
\* removal of another session) has unlocked the view, active or not
\* (updateSendingState, handleFinished, handleError).
NoStuckSending == \A i \in Opened :
    Selected(i) /\ view[i].sending => session[view[i].cur].turn

Begins(m, bubbles) == \E k \in DOMAIN bubbles : bubbles[k] # <<>> /\ bubbles[k][1] = m

\* The view w accounts for the k-th of the messages ms: it is not for the chat or has
\* nothing to show, it was posted without the view being told, a bubble begins with it,
\* or it is not among the last ones and a bubble says that there are earlier ones.
Accounted(w, ms, k) ==
    \/ ms[k] \in {Hidden, Blank}
    \/ ms[k] \in w.late
    \/ Begins(ms[k], w.bubbles)
    \/ k \notin Recent(ms) /\ Begins(Earlier, w.bubbles)

\* Whatever turns, errors, removals and switches there were, the active view accounts
\* for every message of its session, unless it was filled anew while a reply was
\* streamed into it (restoreChatFromSession, handleFinished).
MessagesShown ==
    Selected(active) /\ ~view[active].apart =>
        \A k \in DOMAIN session[view[active].cur].msgs :
            Accounted(view[active], session[view[active].cur].msgs, k)

\* No view shows a message twice, as it would if a message were added that the view has
\* been filled with, or the view were filled on top of what it shows.
MessagesShownOnce == \A i \in Opened : \A k, l \in DOMAIN view[i].bubbles :
    LET b == view[i].bubbles[k]
        c == view[i].bubbles[l]
    IN b # <<>> /\ c # <<>> /\ b[1] > 0 /\ b[1] = c[1] => k = l

-----------------------------------------------------------------------------
(* The inductive invariant.                                                *)

SessionStates ==
    [there : BOOLEAN, gone : BOOLEAN, msgs : Seq(Int \ {0}), turn : BOOLEAN,
     queued : Nat, buffer : Nat, calls : Nat]

ViewStates ==
    [cur : Sessions \cup {NoSession}, list : SUBSET Sessions, dirty : BOOLEAN,
     bubbles : Seq(Seq(Int)), sending : BOOLEAN, pending : Nat,
     target : Nat, tail : Nat, apart : BOOLEAN, late : SUBSET Int]

\* The view of i lists only its sessions, and the one it shows as long as it is there;
\* it is in the state of receiving a reply only while a turn of that session runs.
ViewSound(w, i, ss) ==
    /\ \A s \in w.list : i \in Participants(s)
    /\ w.cur # NoSession =>
          /\ i \in Participants(w.cur)
          /\ ss[w.cur].there => w.cur \in w.list /\ (w.sending => ss[w.cur].turn)
          /\ ss[w.cur].there \/ ss[w.cur].gone

\* The row of a reply holds no message.
RowSound(w) ==
    w.pending # 0 /\ ~w.apart =>
        /\ w.pending \in DOMAIN w.bubbles
        /\ w.bubbles[w.pending] = <<>> \/ w.bubbles[w.pending][1] = Piece

AllShown(w, ss) ==
    w.cur # NoSession /\ ~w.apart =>
        (ss[w.cur].there => \A k \in DOMAIN ss[w.cur].msgs : Accounted(w, ss[w.cur].msgs, k))

ViewsSound ==
    /\ session \in [Sessions -> SessionStates]
    /\ \A s \in Sessions : session[s].turn => session[s].there
    /\ view \in [Opened -> ViewStates]
    /\ active \in Opened /\ posted \in Nat
    /\ \A i \in Opened :
          /\ ViewSound(view[i], i, session)
          /\ i # active => view[i].pending = 0
    /\ RowSound(view[active]) /\ AllShown(view[active], session)
=============================================================================
