------------------------------ MODULE Terminals ------------------------------
(***************************************************************************)
(* The command line TmAgentCli: CliRunner (one task), InteractiveCli and     *)
(* CodexInteractiveCli.                                                      *)
(*                                                                         *)
(* A thread reads standard input and posts each line to the main thread,     *)
(* which handles it according to what it waits for at that time.  /switch     *)
(* reads its answer on the main thread, beside that reader, and starts        *)
(* another one.  The agent, its services and codex are other components.      *)
(***************************************************************************)
EXTENDS Naturals, Sequences, FiniteSets

CONSTANTS
    Lines,      \* what may be typed: among "text", "quit" and "switch"
    Requests,   \* approvals codex may ask for
    Nothing,    \* no request
    MaxTyped    \* bound: lines typed

VARIABLES
    mode,       \* "task", "agent" or "codex"
    phase,      \* "starting", "menu" (the main thread reads a choice), "repl" or "ended"
    results,    \* results printed by a task
    stdin,      \* lines typed and not read
    typed,      \* number of lines typed
    closed,     \* standard input was closed
    readers,    \* reader threads
    posted,     \* lines posted to the main thread
    waiting,    \* m_waitingForResponse, m_waitingForTurn
    turn,       \* turns the agent or codex has been given and has not ended
    shown,      \* m_pendingApproval
    asked,      \* approvals asked for that codex waits for
    replies     \* per request: answers sent

vars == <<mode, phase, results, stdin, typed, closed, readers, posted, waiting, turn, shown,
          asked, replies>>
input == <<stdin, typed, closed, readers>>
approvals == <<shown, asked, replies>>

TypeOK ==
    /\ mode \in {"task", "agent", "codex"}
    /\ phase \in {"starting", "menu", "repl", "ended"}
    /\ results \in Nat
    /\ stdin \in Seq(Lines) /\ typed \in 0..MaxTyped /\ closed \in BOOLEAN
    /\ readers \in Nat
    /\ posted \in Seq(Lines \cup {"eof"})
    /\ waiting \in BOOLEAN /\ turn \in Nat
    /\ shown \in Requests \cup {Nothing} /\ asked \subseteq Requests
    /\ replies \in [Requests -> Nat]

\* showAgentList asks for a choice when there are agents to choose from.
Init ==
    /\ \/ mode \in {"task", "codex"} /\ phase = "starting" /\ readers = 0
       \/ mode = "agent" /\ phase = "menu" /\ readers = 0
       \/ mode = "agent" /\ phase = "repl" /\ readers = 1
    /\ results = 0
    /\ stdin = <<>> /\ typed = 0 /\ closed = FALSE
    /\ posted = <<>>
    /\ waiting = FALSE /\ turn = 0
    /\ shown = Nothing /\ asked = {} /\ replies = [r \in Requests |-> 0]

----------------------------------------------------------------------------
(* Standard input.                                                         *)

Type(l) ==
    /\ ~closed /\ typed < MaxTyped
    /\ stdin' = Append(stdin, l) /\ typed' = typed + 1
    /\ UNCHANGED <<mode, phase, results, closed, readers, posted, waiting, turn, approvals>>

Close ==
    /\ ~closed /\ closed' = TRUE
    /\ UNCHANGED <<mode, phase, results, stdin, typed, readers, posted, waiting, turn, approvals>>

\* StdinReaderThread::run
ReaderReads ==
    /\ readers > 0
    /\ \/ /\ stdin # <<>>
          /\ stdin' = Tail(stdin) /\ posted' = Append(posted, Head(stdin))
          /\ UNCHANGED readers
       \/ /\ stdin = <<>> /\ closed
          /\ posted' = Append(posted, "eof") /\ readers' = readers - 1
          /\ UNCHANGED stdin
    /\ UNCHANGED <<mode, phase, results, typed, closed, waiting, turn, approvals>>

\* readLineFromStdin in showAgentList: any line is a choice, for a wrong one the first
\* agent is taken.  enterRepl starts a reader.
Choose ==
    /\ phase = "menu"
    /\ \/ stdin # <<>> /\ stdin' = Tail(stdin)
       \/ stdin = <<>> /\ closed /\ UNCHANGED stdin
    /\ \/ phase' = "repl" /\ readers' = readers + 1
       \/ phase' = "ended" /\ UNCHANGED readers
    /\ UNCHANGED <<mode, results, typed, closed, posted, waiting, turn, approvals>>

----------------------------------------------------------------------------
(* A line that was posted.                                                 *)

\* handleApprovalInput
Decide ==
    /\ replies' = [replies EXCEPT ![shown] = @ + 1]
    /\ asked' = asked \ {shown}
    /\ shown' = Nothing
    /\ UNCHANGED <<phase, waiting, turn>>

\* sendUserMessage; sendUserTurn.  The pipeline may refuse a message without an event.
Send ==
    /\ waiting' = TRUE
    /\ turn' \in {turn + 1} \cup (IF mode = "agent" THEN {turn} ELSE {})
    /\ UNCHANGED phase

\* processLine
Process(l) ==
    \/ l = "quit" /\ phase' = "ended" /\ UNCHANGED <<waiting, turn>>
    \/ l = "switch" /\ mode = "agent" /\ phase' = "menu" /\ UNCHANGED <<waiting, turn>>
    \/ (l = "text" \/ (l = "switch" /\ mode = "codex")) /\ Send

\* onStdinLine: the end of the input ends the program, an approval that is shown takes
\* the line, and while a turn runs a line is dropped.
Handle(l) ==
    \/ l = "eof" /\ phase' = "ended" /\ UNCHANGED <<waiting, turn, approvals>>
    \/ l # "eof" /\ shown # Nothing /\ Decide
    \/ l # "eof" /\ shown = Nothing /\ waiting /\ UNCHANGED <<phase, waiting, turn, approvals>>
    \/ l # "eof" /\ shown = Nothing /\ ~waiting /\ Process(l) /\ UNCHANGED approvals

OnStdinLine ==
    /\ phase = "repl" /\ posted # <<>>
    /\ posted' = Tail(posted)
    /\ Handle(Head(posted))
    /\ UNCHANGED <<mode, results, input>>

----------------------------------------------------------------------------
(* Answers.                                                                *)

\* onFinished, onError; onTurnCompleted, or an error response to turn/start.  Codex ends
\* a turn that was interrupted whatever approvals it has asked for.
TurnEnds ==
    /\ phase = "repl" /\ turn > 0
    /\ turn' = turn - 1 /\ waiting' = FALSE
    /\ asked' = {}
    /\ UNCHANGED <<mode, phase, results, input, posted, shown, replies>>

\* onCommandApprovalRequested, onFileChangeApprovalRequested: the last one is shown.
AskApproval(r) ==
    /\ mode = "codex" /\ phase = "repl" /\ turn > 0
    /\ r \notin asked /\ replies[r] = 0 /\ r # shown
    /\ asked' = asked \cup {r} /\ shown' = r
    /\ UNCHANGED <<mode, phase, results, input, posted, waiting, turn, replies>>

\* The handshake with codex: a thread is started or resumed, or the program ends.
\* An error of the first request is only printed.
Connect ==
    /\ mode = "codex" /\ phase = "starting"
    /\ \/ phase' = "repl" /\ readers' = readers + 1
       \/ phase' = "ended" /\ UNCHANGED readers
    /\ UNCHANGED <<mode, results, stdin, typed, closed, posted, waiting, turn, approvals>>

\* onTransportError
TransportError ==
    /\ mode = "codex" /\ phase = "repl" /\ phase' = "ended"
    /\ UNCHANGED <<mode, results, input, posted, waiting, turn, approvals>>

\* CliRunner: the result of the agent, an error, a failed start, or the time-out.
TaskEnds ==
    /\ mode = "task" /\ phase = "starting"
    /\ phase' = "ended" /\ results' = results + 1
    /\ UNCHANGED <<mode, input, posted, waiting, turn, approvals>>

Next ==
    /\ phase # "ended"
    /\ \/ \E l \in Lines : Type(l)
       \/ Close \/ ReaderReads \/ Choose \/ OnStdinLine \/ TurnEnds
       \/ \E r \in Requests : AskApproval(r)
       \/ Connect \/ TransportError \/ TaskEnds

Spec == Init /\ [][Next]_vars

\* Threads and the event loop run; neither the user nor codex has to do anything.
Reads   == phase # "ended" /\ ReaderReads
Chooses == phase # "ended" /\ Choose
Handles == phase # "ended" /\ OnStdinLine

Fairness == WF_vars(Reads) /\ WF_vars(Chooses) /\ WF_vars(Handles)

FairSpec == Spec /\ Fairness

----------------------------------------------------------------------------
(* Properties.                                                             *)

\* Codex gets one answer at most to what it asks the user, and only to requests it
\* made, however lines typed ahead, further requests and ends of turns interleave.
AnsweredOnce == \A r \in Requests : replies[r] <= 1

\* What must come to an end: a conversation whose input is closed, even while a turn runs that will never end,
\* an approval is shown, or the main thread reads a choice beside the reader.
Waiting == closed /\ mode # "task" /\ phase \notin {"starting", "ended"}
=============================================================================
