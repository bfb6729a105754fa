------------------------- MODULE DelegateScheduler -------------------------
(***************************************************************************)
(* DelegateTaskScheduler and the sessions of its two backends: a child     *)
(* agent of this program ("tmagent", an LLMAgent of its own) or a child    *)
(* process that speaks JSON-RPC ("codex", CodexAppServerClient).           *)
(*                                                                         *)
(* Everything runs in the event loop of one thread, so a call or a         *)
(* callback is one step; but stopping a session may call back into the     *)
(* scheduler before it returns: LLMAgent::abort emits an event for every   *)
(* tool call that has no result, and the codex client waits for the end of *)
(* its process while reading what it still writes, a completed turn or the *)
(* error of its own end among them.                                        *)
(*                                                                         *)
(* Time is counted in steps of the watchdog: Soft is the expected time of  *)
(* a job, Hard the time after which it is stopped, Stall the time without  *)
(* progress after which the user is told.                                  *)
(***************************************************************************)
EXTENDS Naturals, FiniteSets, Sequences, SequencesExt

CONSTANTS
    Jobs,        \* job ids
    MaxActive,   \* kMaxConcurrentAsyncJobs
    MaxStored,   \* kMaxAsyncJobs
    Soft, Hard, Stall

ASSUME SchedulerAssumption ==
    /\ IsFiniteSet(Jobs)
    /\ {MaxActive, MaxStored, Soft, Hard, Stall} \subseteq Nat \ {0}
    /\ MaxActive =< MaxStored
    /\ Soft < Hard

VARIABLES
    rt,     \* per job: its AsyncJobRuntime
    order   \* m_asyncJobOrder; its elements are the keys of m_asyncJobs

vars == <<rt, order>>

Kinds == {"tmagent", "codex"}
ActiveStatuses   == {"running", "soft_timeout"}
FinishedStatuses == {"completed", "failed", "cancelled"}

\* The steps of a session.  For codex: initialize, thread/start and turn/start
\* have been sent, the turn runs, and the process has ended without an error.
CodexSteps   == {"init", "thread", "turn", "running", "exited"}
SessionSteps == {"none", "working"} \cup CodexSteps

Runtime == [status : {"unknown", "refused"} \cup ActiveStatuses \cup FinishedStatuses,
            kind : Kinds, settled : BOOLEAN, wanted : BOOLEAN,
            soft : BOOLEAN, stall : BOOLEAN, age : 0..Hard, idle : 0..Stall,
            session : SessionSteps, told : 0..2]

NoRuntime == [status |-> "unknown", kind |-> "tmagent", settled |-> FALSE,
              wanted |-> FALSE, soft |-> FALSE, stall |-> FALSE, age |-> 0,
              idle |-> 0, session |-> "none", told |-> 0]

Unsettled(j) == rt[j].status \notin {"unknown", "refused"} /\ ~rt[j].settled

\* activeJobCount: what is stored and not settled.
ActiveJobs == {j \in Range(order) : ~rt[j].settled}

----------------------------------------------------------------------------
(* What the scheduler does with a runtime.                                 *)

\* Progress of the child.
Activity(r) ==
    IF r.settled THEN r
    ELSE [r EXCEPT !.idle = 0, !.stall = FALSE,
                   !.status = IF r.soft THEN "running" ELSE @]

\* Mutant of Settled: a cancelled job counts as failed.
SettledFailed(r, success) ==
    [r EXCEPT !.settled = TRUE, !.session = "none", !.told = @ + 1,
              !.status = IF success THEN "completed" ELSE "failed"]

\* Mutant of Settled: the session is only stopped by those who cancel.
SettledOnly(r, success) ==
    [r EXCEPT !.settled = TRUE, !.told = @ + 1,
              !.status = IF success THEN "completed"
                         ELSE IF r.wanted THEN "cancelled" ELSE "failed"]

\* The runtime gets its outcome, the watchdog and the session are stopped (what
\* they call back is ignored from here on, and what the watchdog keeps is not
\* read any more) and the owner is told.
Settled(r, success) ==
    [r EXCEPT !.settled = TRUE, !.session = "none", !.told = @ + 1,
              !.soft = FALSE, !.stall = FALSE, !.age = 0, !.idle = 0,
              !.status = IF success THEN "completed"
                         ELSE IF r.wanted THEN "cancelled" ELSE "failed"]

\* Mutant of Settle: a settled job is settled again.
SettleAgain(r, success) == Settled(r, success)

\* Only the first outcome counts.
Settle(r, success) == IF r.settled THEN r ELSE Settled(r, success)

\* What stopping a session calls back before it returns.
Callbacks(r) ==
    CASE r.session = "working" -> {"nothing", "activity"}
      [] r.session \in {"init", "thread"} -> {"nothing", "failure"}
      [] r.session \in {"turn", "running"} -> {"nothing", "failure", "success"}
      [] OTHER -> {"nothing"}

\* The runtime after such a call.
Called(r, what) == CASE what = "activity" -> Activity(r)
                     [] what = "failure"  -> Settle(r, FALSE)
                     [] what = "success"  -> Settle(r, TRUE)
                     [] OTHER -> r

\* The session is taken from the runtime, stopped, and the job is settled.
StopAndSettle(r) ==
    {Settle(Called([r EXCEPT !.session = "none"], what), FALSE) : what \in Callbacks(r)}

----------------------------------------------------------------------------
(* Submitting, listing and cancelling.                                     *)

\* Beyond the limit the oldest finished job goes, or else the oldest one.
Prune(list, runtimes) ==
    LET finished == {i \in DOMAIN list : runtimes[list[i]].status \in FinishedStatuses}
        victim   == IF finished = {} THEN 1
                    ELSE CHOOSE i \in finished : \A k \in finished : i =< k
    IN  IF Len(list) =< MaxStored THEN list ELSE RemoveAt(list, victim)

\* The request is invalid, the backend is not available, or all slots are taken.
Refuse(j, why) ==
    /\ rt[j].status = "unknown"
    /\ why = "limit" => Cardinality(ActiveJobs) >= MaxActive
    /\ rt' = [rt EXCEPT ![j].status = "refused"]
    /\ UNCHANGED order

\* The job is stored and its session started: the child agent sends its request
\* or fails at once, the child process starts and is sent `initialize`, or not.
Accept(j, kind, started) ==
    LET new  == [NoRuntime EXCEPT !.status = "running", !.kind = kind,
                     !.session = IF kind = "codex" THEN "init" ELSE "working"]
        left == Prune(Append(order, j), [rt EXCEPT ![j] = new])
    IN  /\ rt[j].status = "unknown"
        /\ Cardinality(ActiveJobs) < MaxActive
        /\ order' = left
        /\ rt' = [rt EXCEPT ![j] = IF started THEN new ELSE Settle(new, FALSE)]

MarkCancelled(r) == [r EXCEPT !.wanted = TRUE]

\* cancelJob of a stored job by its owner.
CancelJob(j) ==
    /\ j \in Range(order) /\ ~rt[j].settled
    /\ \E r \in StopAndSettle(MarkCancelled(rt[j])) : rt' = [rt EXCEPT ![j] = r]
    /\ UNCHANGED order

----------------------------------------------------------------------------
(* The child.                                                              *)

\* A tool event or a delta of the stream, an approval.
ChildActivity(j) ==
    /\ rt[j].session \in {"working", "turn", "running"}
    /\ rt' = [rt EXCEPT ![j] = Activity(rt[j])]
    /\ UNCHANGED order

\* The codex server answers a request; the next one is sent.
CodexResponds(j) ==
    /\ rt[j].session \in {"init", "thread", "turn"}
    /\ rt' = [rt EXCEPT ![j] = [Activity(rt[j]) EXCEPT !.session =
                 CASE @ = "init" -> "thread" [] @ = "thread" -> "turn" [] OTHER -> "running"]]
    /\ UNCHANGED order

\* The status a child's report ends up with.  One without all its parts is
\* wrapped in a report of its own, with the status of the child's if it is a
\* child agent's (PARTIAL without one), and COMPLETED if it is codex's.
Tags == {"none", "COMPLETED", "PARTIAL", "BLOCKED"}
ReportStatus(kind, tag, whole) ==
    IF tag # "none" /\ whole THEN tag
    ELSE IF kind = "codex" THEN "COMPLETED"
    ELSE IF tag = "none" THEN "PARTIAL" ELSE tag

\* The child is done; a blocked one has failed.
ChildReports(j, tag, whole) ==
    /\ rt[j].session \in {"working", "turn", "running"}
    /\ rt' = [rt EXCEPT ![j] =
                 Settle(IF rt[j].kind = "codex" THEN Activity(rt[j]) ELSE rt[j],
                        ReportStatus(rt[j].kind, tag, whole) # "BLOCKED")]
    /\ UNCHANGED order

\* An error of the child agent; for codex an error response, a broken
\* connection, a request the client does not support or a failed turn.
ChildFails(j) ==
    /\ rt[j].session \in SessionSteps \ {"none", "exited"}
    /\ rt' = [rt EXCEPT ![j] = Settle(rt[j], FALSE)]
    /\ UNCHANGED order

\* The codex process ends without an error: nobody listens to that.
CodexExits(j) ==
    /\ rt[j].session \in CodexSteps \ {"exited"}
    /\ rt' = [rt EXCEPT ![j].session = "exited"]
    /\ UNCHANGED order

----------------------------------------------------------------------------
(* Time.                                                                   *)

\* Time passes for the jobs under way (counted up to Hard and Stall).
TimePasses ==
    /\ \E j \in Jobs : Unsettled(j) /\ (rt[j].age < Hard \/ rt[j].idle < Stall)
    /\ rt' = [j \in Jobs |->
                 IF ~Unsettled(j) THEN rt[j]
                 ELSE [rt[j] EXCEPT !.age  = IF @ < Hard THEN @ + 1 ELSE @,
                                    !.idle = IF @ < Stall THEN @ + 1 ELSE @]]
    /\ UNCHANGED order

\* The first notice, when the expected time is over.
SoftTimeout(r) ==
    IF ~r.soft /\ r.age >= Soft
    THEN [r EXCEPT !.soft = TRUE, !.stall = FALSE, !.status = "soft_timeout"]
    ELSE r

\* Later notices, one for each time without progress.
StallNotice(r) ==
    IF r.soft /\ r.idle >= Stall /\ ~r.stall
    THEN [r EXCEPT !.stall = TRUE, !.status = "soft_timeout"]
    ELSE r

\* The hard limit stops the job, whatever the child does.
AfterWatchdog(r) ==
    IF r.age < Hard THEN {StallNotice(SoftTimeout(r))}
    ELSE IF r.session # "none" THEN StopAndSettle(SoftTimeout(r))
    ELSE {SoftTimeout(r)}

Watchdog(j) ==
    /\ Unsettled(j)
    /\ \E r \in AfterWatchdog(rt[j]) : rt' = [rt EXCEPT ![j] = r]
    /\ UNCHANGED order

----------------------------------------------------------------------------
Init == /\ rt = [j \in Jobs |-> NoRuntime]
        /\ order = <<>>

Next ==
    \/ \E j \in Jobs :
        \/ \E why \in {"invalid", "backend", "limit"} : Refuse(j, why)
        \/ \E kind \in Kinds, started \in BOOLEAN : Accept(j, kind, started)
        \/ CancelJob(j)
        \/ ChildActivity(j)
        \/ CodexResponds(j)
        \/ \E tag \in Tags, whole \in BOOLEAN : ChildReports(j, tag, whole)
        \/ ChildFails(j)
        \/ CodexExits(j)
        \/ Watchdog(j)
    \/ TimePasses

Spec == Init /\ [][Next]_vars

\* The timer of the watchdog repeats and time passes; nothing is assumed of the child.
FairSpec == Spec /\ WF_vars(TimePasses) /\ \A j \in Jobs : WF_vars(Watchdog(j))

----------------------------------------------------------------------------
(* Properties.                                                             *)

\* The runtimes have their types and the order holds jobs, each once, within
\* the limit of kMaxAsyncJobs.
TypeOK ==
    /\ rt \in [Jobs -> Runtime]
    /\ order \in Seq(Jobs)
    /\ Len(order) =< MaxStored
    /\ \A i, k \in DOMAIN order : order[i] = order[k] => i = k

\* A job that is not settled can be found, listed as active and cancelled: the
\* history never drops it, and its status (which progress, notices, the end of
\* the child and the user all write) agrees with the flag that counts the slots.
ActiveJobsListed ==
    \A j \in Jobs : rt[j].status \notin {"unknown", "refused"} =>
        /\ Unsettled(j) <=> rt[j].status \in ActiveStatuses
        /\ Unsettled(j) => j \in Range(order)

\* A settled job has no session left that works or runs a process, and a job
\* that is not settled has one: else neither the hard limit nor the user could
\* end it.
SessionUntilSettled ==
    \A j \in Jobs : (rt[j].session # "none") <=> Unsettled(j)

\* The records of a job agree, whoever settled it and in whatever order its
\* backend, the watchdog, the user and the bounds of the history came.
JobsSound == TypeOK /\ ActiveJobsListed /\ SessionUntilSettled

\* A job the user cancelled is settled when the call returns; it is reported as
\* cancelled, except a codex turn that was completed while its process ended,
\* and no other job is.
CancelKept ==
    \A j \in Jobs :
        /\ rt[j].wanted =>
              \/ rt[j].status = "cancelled"
              \/ rt[j].status = "completed" /\ rt[j].kind = "codex"
        /\ rt[j].status = "cancelled" => rt[j].wanted

\* The scheduler keeps the promise of the job board: slots, one outcome, told
\* once, and, by the watchdog alone, every accepted job is settled.
BoardState == [j \in Jobs |-> IF Unsettled(j) THEN "active" ELSE rt[j].status]
Board == INSTANCE JobBoard WITH
            Slots <- MaxActive, state <- BoardState, told <- [j \in Jobs |-> rt[j].told]
KeepsBoard == Board!Spec
=============================================================================
