----------------------------- MODULE SessionContext -----------------------------
(***************************************************************************)
(* What a session remembers of its task between turns: the task state      *)
(* (TaskStateService), cached in each process, kept in a row of app_state  *)
(* and before that in a file; and what ConversationContextService leaves of *)
(* a finished turn for the next one, a snapshot, a checkpoint and a resume  *)
(* packet, each in a file of its own.                                      *)
(*                                                                         *)
(* A task state is a function from those of its keys that are set, as the   *)
(* JSON object is.  A text is the turn it is of and what it is there.       *)
(*                                                                         *)
(* The end of a turn starts the next one before it writes anything, as in  *)
(* TurnPipeline: `ending' holds the handlers that have still to write.      *)
(***************************************************************************)
EXTENDS Integers, Sequences, SequencesExt

CONSTANTS
    Procs,      \* processes that run turns of the session
    Jobs,       \* delegate jobs
    Legacy,     \* what the old file may hold: task states, NoFile, Damaged
    NoFile,     \* no file
    Damaged,    \* a file that is no JSON object
    Null,       \* the value of a patch that removes its key
    Failures,   \* what may fail: "write" and "read" of a row, "remove" of the file,
                \* "snapshot", "checkpoint" and "packet"
    MaxTurns,   \* bound: turns
    MaxFailures \* bound: failures

VARIABLES
    row,        \* the task state in app_state, or NoState
    file,       \* task_state.json
    cache,      \* process -> m_stateCache, or NoState
    loaded,     \* process -> whether m_loadedSessions has the session
    told,       \* the task state by the updates that succeeded
    queue,      \* process -> its turns that wait
    active,     \* process -> its turn that runs, or 0
    ending,     \* process -> the ends of turns on its stack: [turn, how, mayStart]
    turns,      \* how many turns there were
    open,       \* jobs that were accepted and are not settled
    snapshot, checkpoint, packet, \* the files of the context
    given,      \* the snapshot the last turn that started was given
    done,       \* the last turn that finished
    stale,      \* whether the snapshot of that turn could not be saved
    failures,   \* failures so far
    removed     \* whether the session was removed

taskVars    == <<row, file, cache, loaded, told>>
turnVars    == <<queue, active, ending, turns, open>>
contextVars == <<snapshot, checkpoint, packet, given, done, stale>>
vars == <<taskVars, turnVars, contextVars, failures, removed>>

-----------------------------------------------------------------------------
NoState == <<>>     \* the empty object

Text(what, t) == [what |-> what, turn |-> t]

\* The states of kAllowedTaskStates and the keys the updates set.
Keys == {"state", "turn", "summary", "waiting", "error"}
States == {"queued", "running", "blocked", "done", "failed", "canceled"}

\* How the end of a request reaches the session: onRuntimeFinished, or onRuntimeError,
\* which tells a recovery when an error of the upstream meets jobs that still run.
Ways == {"finished", "failed", "recovered"}

IsTask(s) ==
    /\ DOMAIN s \subseteq Keys
    /\ s = NoState \/ s["state"] \in States

TypeOK ==
    /\ IsTask(row) /\ IsTask(told)
    /\ \A p \in Procs : IsTask(cache[p]) /\ (cache[p] # NoState => loaded[p])
    /\ file \in Legacy \cup {NoFile}
    /\ \A p \in Procs : active[p] \in 0 .. turns
    /\ ending \in [Procs -> Seq([turn : 1 .. turns, how : Ways, mayStart : BOOLEAN])]
    /\ open \subseteq Jobs
    /\ failures \in 0 .. MaxFailures
    /\ stale \in BOOLEAN /\ removed \in BOOLEAN

FromFile(f) == IF f \in {NoFile, Damaged} THEN NoState ELSE f

Init ==
    /\ row = NoState
    /\ file \in Legacy
    /\ cache = [p \in Procs |-> NoState]
    /\ loaded = [p \in Procs |-> FALSE]
    /\ told = FromFile(file)
    /\ queue = [p \in Procs |-> <<>>]
    /\ active = [p \in Procs |-> 0]
    /\ ending = [p \in Procs |-> <<>>]
    /\ turns = 0
    /\ open = {}
    /\ snapshot \in {NoFile, Damaged}
    /\ checkpoint = NoFile
    /\ packet = NoFile
    /\ given = NoFile
    /\ done = 0
    /\ stale = FALSE
    /\ failures = 0
    /\ removed = FALSE

\* What fails of what this step does.
Failing(F) ==
    /\ F \subseteq Failures
    /\ F # {} => failures < MaxFailures
    /\ failures' = IF F = {} THEN failures ELSE failures + 1

-----------------------------------------------------------------------------
(* TaskStateService.                                                       *)

\* loadState: the cached state, else the row, else the file.
Load(p, F) ==
    CASE loaded[p]                           -> cache[p]
      [] row # NoState /\ "read" \notin F    -> row
      [] OTHER                               -> FromFile(file)

\* What was read from the file goes to the row.
RowAfterLoad(p, F) ==
    IF \/ loaded[p] \/ "write" \in F
       \/ row # NoState /\ "read" \notin F
       \/ FromFile(file) = NoState
    THEN row ELSE FromFile(file)

\* updateState: keys whose value is null are removed, the others set.
Merged(s, patch) ==
    LET removedKeys == {k \in DOMAIN patch : patch[k] = Null} IN
    [k \in (DOMAIN s \cup DOMAIN patch) \ removedKeys |->
        IF k \in DOMAIN patch THEN patch[k] ELSE s[k]]

Update(p, patch, F) ==
    LET state == Merged(Load(p, F), patch)
        saved == "write" \notin F
    IN /\ row' = IF saved THEN state ELSE RowAfterLoad(p, F)
       /\ cache' = [cache EXCEPT ![p] = IF saved THEN state ELSE Load(p, F)]
       /\ loaded' = [loaded EXCEPT ![p] = TRUE]
       /\ told' = IF saved THEN Merged(told, patch) ELSE told
       /\ UNCHANGED file

\* stateForSession without an update after it.
Look(p, F) ==
    /\ row' = RowAfterLoad(p, F)
    /\ cache' = [cache EXCEPT ![p] = Load(p, F)]
    /\ loaded' = [loaded EXCEPT ![p] = TRUE]
    /\ UNCHANGED <<file, told>>

\* updateTaskStateForSession: a patch of turn t, or of no turn.
Patch(state, t, summary) == [state |-> state, turn |-> t, summary |-> summary]
Ended == [waiting |-> Null, error |-> Null]
With(f, g) == [k \in DOMAIN f \cup DOMAIN g |-> IF k \in DOMAIN f THEN f[k] ELSE g[k]]

-----------------------------------------------------------------------------
(* Turns.                                                                  *)

Live == ~removed
Quiet(p) == ending[p] = <<>>

\* enqueueUserMessageAsImpl: the new turn takes over the task state at once.
Enqueue(p, F) ==
    /\ Live /\ Quiet(p) /\ turns < MaxTurns /\ Failing(F)
    /\ turns' = turns + 1
    /\ queue' = [queue EXCEPT ![p] = Append(@, turns + 1)]
    /\ Update(p, Patch("queued", turns + 1, Text("prompt", turns + 1)), F)
    /\ UNCHANGED <<active, ending, open, contextVars, removed>>

\* tryStartNextTurn, by itself or within the end of a turn: the turn is given the
\* snapshot, whosever it is.
Start(p, F) ==
    /\ Live /\ active[p] = 0 /\ queue[p] # <<>> /\ Failing(F)
    /\ IF Quiet(p) THEN TRUE ELSE Last(ending[p]).mayStart
    /\ ending' = [ending EXCEPT ![p] = IF Quiet(p) THEN @
                     ELSE Append(Front(@), [Last(@) EXCEPT !.mayStart = FALSE])]
    /\ active' = [active EXCEPT ![p] = Head(queue[p])]
    /\ queue' = [queue EXCEPT ![p] = Tail(@)]
    /\ given' = IF snapshot = Damaged THEN NoFile ELSE snapshot
    /\ Update(p, With(Patch("running", Head(queue[p]), Text("prompt", Head(queue[p]))), Ended), F)
    /\ UNCHANGED <<turns, open, snapshot, checkpoint, packet, done, stale, removed>>

\* handleDelegateTracking: a job is accepted, unless the task has ended meanwhile.
Accept(p, j, F) ==
    /\ Live /\ Quiet(p) /\ active[p] # 0 /\ j \in Jobs \ open /\ Failing(F)
    /\ open' = open \cup {j}
    /\ LET state == Load(p, F)
           patch == With(Patch("blocked", active[p], Text("accepted", active[p])),
                         [waiting |-> j, error |-> Null])
       IN IF state # NoState /\ state["state"] \in {"done", "failed"}
          THEN Look(p, F) ELSE Update(p, patch, F)
    /\ UNCHANGED <<queue, active, ending, turns, contextVars, removed>>

\* onDelegateJobSettled: the patch names no turn.
Settle(p, j, success, F) ==
    /\ Live /\ Quiet(p) /\ j \in open /\ Failing(F)
    /\ open' = open \ {j}
    /\ Update(p, [state |-> IF success THEN "done" ELSE "failed",
                  summary |-> Text("result", j), waiting |-> Null,
                  error |-> IF success THEN Null ELSE "failed"], F)
    /\ UNCHANGED <<queue, active, ending, turns, contextVars, removed>>

\* completionGoal: the summary of the task state before the turn ended, or the prompt.
Goal(state, t) ==
    IF "summary" \in DOMAIN state THEN state["summary"] ELSE Text("prompt", t)

\* persistCompletionArtifacts.  A long turn leaves a checkpoint, a short one leaves that
\* of an earlier turn; the packet says what the snapshot should say.
LeaveContext(t, goal, long, F) ==
    /\ snapshot' = IF "snapshot" \in F THEN snapshot
                   ELSE [goal |-> goal, turn |-> t, reply |-> Text("reply", t)]
    /\ checkpoint' = IF long /\ "checkpoint" \notin F
                     THEN [summary |-> Text("reply", t)] ELSE checkpoint
    /\ packet' = IF "packet" \in F THEN packet ELSE [goal |-> goal]
    /\ done' = t
    /\ stale' = ("snapshot" \in F)
    /\ UNCHANGED given

\* finalizeTurnInternal.  A send that fails ends its turn inside the start.
EndTurn(p, how) ==
    /\ Live /\ active[p] # 0
    /\ IF Quiet(p) THEN TRUE ELSE how # "finished" /\ ~Last(ending[p]).mayStart
    /\ how = "recovered" => open # {}
    /\ active' = [active EXCEPT ![p] = 0]
    /\ ending' = [ending EXCEPT ![p] =
                     Append(@, [turn |-> active[p], how |-> how, mayStart |-> TRUE])]
    /\ UNCHANGED <<taskVars, queue, turns, open, contextVars, failures, removed>>

\* The rest of the handler.  A turn that waits for its job stays blocked, unless the
\* next one has written over its state.
TurnEnded(p, long, F) ==
    /\ Live /\ ~Quiet(p) /\ Failing(F)
    /\ ending' = [ending EXCEPT ![p] = Front(@)]
    /\ LET t == Last(ending[p]).turn
           how == Last(ending[p]).how
           state == Load(p, F)
           blocked == state # NoState /\ state["state"] = "blocked" /\ state["turn"] = t
       IN CASE how = "failed" ->
                 /\ Update(p, With(Patch("failed", t, Text("prompt", t)),
                                  [error |-> "failed"]), F)
                 /\ UNCHANGED contextVars
            [] how = "recovered" ->
                 /\ Update(p, With(Patch("blocked", t, Text("recovered", t)),
                                  [error |-> "failed"]), F)
                 /\ UNCHANGED contextVars
            [] OTHER ->
                 /\ IF blocked THEN Look(p, F)
                    ELSE Update(p, With(Patch("done", t, Text("reply", t)), Ended), F)
                 /\ LeaveContext(t, Goal(state, t), long, F)
    /\ UNCHANGED <<queue, active, turns, open, removed>>

\* abortCurrent.
Abort(p, F) ==
    /\ Live /\ Quiet(p) /\ active[p] # 0 /\ Failing(F)
    /\ active' = [active EXCEPT ![p] = 0]
    /\ Update(p, Patch("canceled", active[p], Text("prompt", active[p])), F)
    /\ UNCHANGED <<queue, ending, turns, open, contextVars, removed>>

\* removeSessionAs: clearState, and removeSessionFromDb deletes the row again.  The files
\* of the context stay.
RemoveSession(p, F) ==
    /\ Live /\ Quiet(p) /\ Failing(F)
    /\ removed' = TRUE
    /\ row' = IF "write" \in F THEN row ELSE NoState
    /\ file' = IF "remove" \in F THEN file ELSE NoFile
    /\ cache' = [cache EXCEPT ![p] = NoState]
    /\ loaded' = [loaded EXCEPT ![p] = FALSE]
    /\ told' = NoState
    /\ queue' = [queue EXCEPT ![p] = <<>>]
    /\ active' = [active EXCEPT ![p] = 0]
    /\ UNCHANGED <<ending, turns, open, contextVars>>

\* A process stops and starts: its jobs and its turn are gone; the turns that wait are
\* as SharedStore keeps them, here all of them or none.
Restart(p) ==
    /\ Live /\ (loaded[p] \/ active[p] # 0 \/ ~Quiet(p))
    /\ cache' = [cache EXCEPT ![p] = NoState]
    /\ loaded' = [loaded EXCEPT ![p] = FALSE]
    /\ active' = [active EXCEPT ![p] = 0]
    /\ ending' = [ending EXCEPT ![p] = <<>>]
    /\ queue' \in {queue, [queue EXCEPT ![p] = <<>>]}
    /\ open' = {}
    /\ UNCHANGED <<row, file, told, turns, contextVars, failures, removed>>

Step(p, F) ==
    \/ Enqueue(p, F) \/ Start(p, F) \/ Abort(p, F) \/ RemoveSession(p, F)
    \/ \E j \in Jobs : Accept(p, j, F) \/ \E b \in BOOLEAN : Settle(p, j, b, F)
    \/ \E b \in BOOLEAN : TurnEnded(p, b, F)

Next == \E p \in Procs :
    \/ Restart(p) \/ \E how \in Ways : EndTurn(p, how)
    \/ \E F \in SUBSET Failures : Step(p, F)

Spec == Init /\ [][Next]_vars

-----------------------------------------------------------------------------
(* Properties.                                                             *)

\* What is stored is what the updates that were told to have succeeded make of the
\* legacy state: neither a restart nor the move from the file to the row loses or
\* brings back a key, and a write that fails changes nothing.  A process that has
\* loaded the state shows it.
Stored == IF row # NoState THEN row ELSE FromFile(file)
TaskKept ==
    /\ Stored = told \/ removed
    /\ \A p \in Procs : loaded[p] => cache[p] = told

\* A task that is done waits for no job and has no error, whatever was written over it.
DoneIsClean ==
    row # NoState /\ row["state"] = "done" => {"waiting", "error"} \cap DOMAIN row = {}

\* The snapshot is of the last turn that finished, unless its own could not be saved;
\* a damaged one does not outlive a turn.
SnapshotOfLast ==
    done # 0 /\ ~stale => snapshot \notin {NoFile, Damaged} /\ snapshot.turn = done

\* A turn is told only of turns that finished, never of one that failed or was stopped.
GivenFinished == given # NoFile => given.turn <= done /\ given.reply.turn = given.turn

-----------------------------------------------------------------------------
(* What the code does not do.                                              *)

\* The goal a snapshot notes is that of its turn.
GoalOfTurn == snapshot \notin {NoFile, Damaged} => snapshot.goal.turn = snapshot.turn

\* The packet to resume from agrees with the snapshot it names.
PacketWithSnapshot ==
    snapshot \notin {NoFile, Damaged} /\ packet # NoFile => packet.goal = snapshot.goal

\* A removed session leaves no state behind.
RemovedIsGone == removed => Stored = NoState

-----------------------------------------------------------------------------
(* The inductive invariant, for one process whose reads succeed.           *)

Summaries ==
    {f["summary"] : f \in {g \in Legacy \ {NoFile, Damaged} : "summary" \in DOMAIN g}}
        \cup {Text(what, t) : what \in {"prompt", "accepted", "reply", "recovered"},
                              t \in 1 .. MaxTurns}
        \cup {Text("result", j) : j \in Jobs}

\* A state of which nothing is left that a task that is done does not have.
TaskSound(s) ==
    /\ IsTask(s)
    /\ "summary" \in DOMAIN s => s["summary"] \in Summaries
    /\ s # NoState /\ s["state"] = "done" => {"waiting", "error"} \cap DOMAIN s = {}

Snapshots ==
    [goal : Summaries, turn : 1 .. MaxTurns,
     reply : {Text("reply", t) : t \in 1 .. MaxTurns}]

\* A snapshot is of a turn that finished, and its reply of the same.
SnapshotSound(s) == s \in Snapshots /\ s.turn <= done /\ s.reply.turn = s.turn

TasksSound ==
    /\ TaskSound(row) /\ TaskSound(told)
    /\ file \in Legacy \cup {NoFile}
    /\ cache = [p \in Procs |-> cache[p]] /\ loaded \in [Procs -> BOOLEAN]
    /\ \A p \in Procs : TaskSound(cache[p]) /\ (cache[p] # NoState => loaded[p])
    /\ TaskKept

\* The turns of a process end in the order in which they were accepted: only the end at
\* the bottom of the stack is of a turn that finished, and it was before the one that
\* runs and those that wait.
Bottom(p) ==
    IF ending[p] # <<>> /\ ending[p][1].how = "finished" THEN ending[p][1].turn ELSE done
TurnsSound ==
    /\ turns \in 0 .. MaxTurns /\ done \in 0 .. turns
    /\ active \in [Procs -> 0 .. turns] /\ queue \in [Procs -> Seq(1 .. turns)]
    /\ ending \in [Procs -> Seq([turn : 1 .. turns, how : Ways, mayStart : BOOLEAN])]
    /\ \A p \in Procs :
          /\ Bottom(p) >= done
          /\ active[p] # 0 => active[p] > Bottom(p)
          /\ \A k \in 1 .. Len(queue[p]) :
                /\ queue[p][k] > Bottom(p) /\ queue[p][k] > active[p]
                /\ \A l \in 1 .. k - 1 : queue[p][l] < queue[p][k]
          /\ \A k \in 2 .. Len(ending[p]) : ending[p][k].how # "finished"

SnapshotsSound ==
    /\ snapshot \in {NoFile, Damaged} \/ SnapshotSound(snapshot)
    /\ given = NoFile \/ SnapshotSound(given)
    /\ SnapshotOfLast

ContextSound ==
    /\ TasksSound /\ TurnsSound /\ SnapshotsSound
    /\ open \subseteq Jobs /\ failures \in 0 .. MaxFailures
    /\ stale \in BOOLEAN /\ removed \in BOOLEAN
==============================================================================
