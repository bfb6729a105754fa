-------------------------- MODULE ReminderScheduler --------------------------
(***************************************************************************)
(* Reminders: SchedulerService, the handler of its jobFired signal in       *)
(* MemoryService, and the end of the turns that it starts.                  *)
(*                                                                         *)
(* A job runs once, at a given minute, or whenever its cron expression       *)
(* matches.  The jobs live in memory and in scheduled_jobs.json, which is    *)
(* written after nearly every change and read when the process starts.  A    *)
(* fired job becomes a turn of the conversation; the turn carries the job's  *)
(* id in its clientMessageId, and a once job is removed when that turn ends. *)
(*                                                                         *)
(* One process is modelled.  Names, prompts, sessions, the agent a job       *)
(* belongs to and who may change it are left out.                           *)
(***************************************************************************)
EXTENDS CronSchedule

CONSTANTS
    Jobs,      \* job ids
    Exprs,     \* cron expressions in use
    MaxTime,   \* bound: the last minute that comes
    MaxRuns    \* bound: turns of one job in the pipeline at a time

ASSUME ReminderAssumption ==
    /\ <<>> \notin Exprs
    /\ MaxTime \in Nat \ {0} /\ MaxRuns \in Nat /\ Horizon \in Nat

VARIABLES
    now,     \* the current minute
    up,      \* the process runs
    jobs,    \* m_jobs
    file,    \* scheduled_jobs.json
    used,    \* ids given to a job so far; they are UUIDs
    runs,    \* turns in the pipeline whose clientMessageId names the job
    fired    \* times a once job has fired since it was armed last

vars == <<now, up, jobs, file, used, runs, fired>>

-----------------------------------------------------------------------------
Times == 1 .. MaxTime + Horizon

\* nextFireTime, as a table.
NextTimes == [expr \in Exprs |-> [t \in 1 .. MaxTime |-> NextFireTime(expr, t)]]

\* A ScheduledJob.  `expr` is empty for a once job, `runAt` is Never for a cron job.
Job == [expr : Exprs \cup {<<>>}, runAt : Times \cup {Never}, enabled : BOOLEAN,
        consumed : BOOLEAN, nextFire : Times \cup {Never}, lastFire : Times \cup {Never}]

NoJob == [expr |-> <<>>, runAt |-> Never, enabled |-> FALSE, consumed |-> FALSE,
          nextFire |-> Never, lastFire |-> Never]

Exists(job) == job # NoJob
Once(job)   == job.expr = <<>>

\* prepareJobForStorage sets the next time; nothing else of a job needs repair here.
Prepared(job) ==
    [job EXCEPT !.nextFire =
        IF ~job.enabled \/ job.consumed THEN Never
        ELSE IF Once(job) THEN job.runAt ELSE NextTimes[job.expr][now]]

\* prepareJobForStorage accepts the job.
Storable(job) ==
    IF Once(job) THEN job.runAt > now ELSE NextTimes[job.expr][now] # Never

\* What a caller may ask for.
Requests ==
    [expr : {<<>>}, runAt : 1 .. MaxTime, enabled : BOOLEAN, consumed : {FALSE},
     nextFire : {Never}, lastFire : {Never}]
    \cup
    [expr : Exprs, runAt : {Never}, enabled : BOOLEAN, consumed : {FALSE},
     nextFire : {Never}, lastFire : {Never}]

Save == file' = jobs'

\* Mutant of FiredJob: the once job is not marked.
FiredUnmarked(job) ==
    [job EXCEPT !.lastFire = now,
                !.nextFire = IF Once(job) THEN Never ELSE NextTimes[job.expr][now]]

\* The job as it is stored when it fires.
FiredJob(job) ==
    [job EXCEPT !.lastFire = now,
                !.consumed = Once(job),
                !.nextFire = IF Once(job) THEN Never ELSE NextTimes[job.expr][now]]

\* Mutant of Due: only in its very minute.
DueExactly(job) == Exists(job) /\ job.enabled /\ job.nextFire = now

\* onTick fires the job.
Due(job) ==
    /\ Exists(job)
    /\ job.enabled
    /\ IF job.nextFire # Never THEN job.nextFire <= now
                               ELSE Once(job) /\ ~job.consumed /\ job.runAt <= now

\* finalizeTriggeredJob: the end of a turn removes a once job, whatever became of it.
FinalizedJob(job) == IF Once(job) THEN NoJob ELSE job

\* The jobs in `some` fire and are saved, then each is handed to
\* onScheduledJobTriggered: the pipeline takes it, or refuses it, since the queue
\* is full, the agent is gone or there is no session.
Fire(some) ==
    \E refused \in SUBSET some :
        /\ \A j \in some \ refused : runs[j] < MaxRuns
        /\ jobs' = [j \in Jobs |->
                        IF j \in refused THEN FinalizedJob(FiredJob(jobs[j]))
                        ELSE IF j \in some THEN FiredJob(jobs[j]) ELSE jobs[j]]
        /\ Save
        /\ runs' = [j \in Jobs |-> IF j \in some \ refused THEN runs[j] + 1 ELSE runs[j]]
        /\ fired' = [j \in Jobs |-> IF j \in some /\ Once(jobs[j]) /\ fired[j] < 2
                                    THEN fired[j] + 1 ELSE fired[j]]
        /\ UNCHANGED <<now, up, used>>

-----------------------------------------------------------------------------
Init ==
    /\ now = 1
    /\ up = FALSE
    /\ jobs = [j \in Jobs |-> NoJob]
    /\ file = jobs
    /\ used = {}
    /\ runs = [j \in Jobs |-> 0]
    /\ fired = [j \in Jobs |-> 0]

\* addJob.
AddJob(j) ==
    /\ up
    /\ j \notin used
    /\ used' = used \cup {j}
    /\ \E job \in Requests :
          /\ Storable(job)
          /\ jobs' = [jobs EXCEPT ![j] = Prepared(job)]
    /\ Save
    /\ UNCHANGED <<now, up, runs, fired>>

\* removeJob.
RemoveJob(j) ==
    /\ up
    /\ Exists(jobs[j])
    /\ jobs' = [jobs EXCEPT ![j] = NoJob]
    /\ Save
    /\ UNCHANGED <<now, up, used, runs, fired>>

\* updateJob, as the scheduler_update tool and the settings dialog call it: the
\* job is not consumed any more.  The tool keeps the last time, the dialog not.
UpdateJob(j) ==
    /\ up
    /\ Exists(jobs[j])
    /\ \E job \in Requests, last \in {Never, jobs[j].lastFire} :
          /\ Storable(job)
          /\ jobs' = [jobs EXCEPT ![j] = Prepared([job EXCEPT !.lastFire = last])]
    /\ Save
    /\ fired' = [fired EXCEPT ![j] = 0]
    /\ UNCHANGED <<now, up, used, runs>>

\* triggerJob.
TriggerJob(j) ==
    /\ up
    /\ Exists(jobs[j])
    /\ jobs[j].enabled
    /\ ~(Once(jobs[j]) /\ jobs[j].consumed)
    /\ Fire({j})

\* onTick: all jobs that are due fire together.
Tick ==
    /\ up
    /\ \E j \in Jobs : Due(jobs[j])
    /\ Fire({j \in Jobs : Due(jobs[j])})

\* The turn of a fired job completes or fails: onConversationEvent.
TurnEnds(j) ==
    /\ up
    /\ runs[j] > 0
    /\ runs' = [runs EXCEPT ![j] = @ - 1]
    /\ jobs' = [jobs EXCEPT ![j] = FinalizedJob(@)]
    /\ file' = IF Once(jobs[j]) THEN jobs' ELSE file
    /\ UNCHANGED <<now, up, used, fired>>

\* The turn is cancelled, a message with an id of its own is merged into it, or
\* its session is removed: no event reaches the scheduler.
TurnLost(j) ==
    /\ up
    /\ runs[j] > 0
    /\ runs' = [runs EXCEPT ![j] = @ - 1]
    /\ UNCHANGED <<now, up, jobs, file, used, fired>>

\* The process ends.  A turn that was saved does not keep its clientMessageId.
Stop ==
    /\ up
    /\ up' = FALSE
    /\ jobs' = [j \in Jobs |-> NoJob]
    /\ runs' = [j \in Jobs |-> 0]
    /\ UNCHANGED <<now, file, used, fired>>

\* Mutant of Loaded: a once job whose minute has passed is dropped.
LoadedFuture(job) ==
    IF \/ Once(job) /\ (job.consumed \/ job.runAt < now)
       \/ ~Once(job) /\ NextTimes[job.expr][now] = Never
    THEN NoJob ELSE Prepared(job)

\* loadJobs keeps the job, or drops it: a consumed one, whether its turn has
\* ended or not, and a cron job whose next time is not found.
Loaded(job) ==
    IF \/ Once(job) /\ job.consumed
       \/ ~Once(job) /\ NextTimes[job.expr][now] = Never
    THEN NoJob ELSE Prepared(job)

Start ==
    /\ ~up
    /\ up' = TRUE
    /\ jobs' = [j \in Jobs |-> IF Exists(file[j]) THEN Loaded(file[j]) ELSE NoJob]
    /\ file' = IF \E j \in Jobs : file[j].consumed THEN jobs' ELSE file
    /\ UNCHANGED <<now, used, runs, fired>>

Pass ==
    /\ now < MaxTime
    /\ now' = now + 1
    /\ UNCHANGED <<up, jobs, file, used, runs, fired>>

Next ==
    \/ Start \/ Stop \/ Tick \/ Pass
    \/ \E j \in Jobs :
          \/ AddJob(j) \/ RemoveJob(j) \/ UpdateJob(j) \/ TriggerJob(j)
          \/ TurnEnds(j) \/ TurnLost(j)

Spec == Init /\ [][Next]_vars

\* The timer of the service ticks every 15 seconds, and turns end.
Fairness ==
    /\ WF_vars(Tick)
    /\ \A j \in Jobs : WF_vars(TurnEnds(j))

FairSpec == Spec /\ Fairness

-----------------------------------------------------------------------------
TypeOK ==
    /\ now \in 1 .. MaxTime
    /\ up \in BOOLEAN
    /\ jobs \in [Jobs -> Job]
    /\ file \in [Jobs -> Job]
    /\ \A j \in Jobs : jobs[j].nextFire # Never => jobs[j].enabled /\ ~jobs[j].consumed
    /\ used \subseteq Jobs
    /\ runs \in [Jobs -> 0 .. MaxRuns]
    /\ fired \in [Jobs -> 0 .. 2]

\* A once reminder fires at most once for each time it is armed, over ticks,
\* manual runs and restarts.
OncePerArming == \A j \in Jobs : fired[j] <= 1

\* A cron job never skips a minute that matches while the process runs, and never
\* fires again for the minute it has fired in.
CronOnTime ==
    \A j \in Jobs :
        LET job == jobs[j]
        IN  up /\ Exists(job) /\ ~Once(job) /\ job.nextFire # Never =>
                /\ Matches(job.expr, job.nextFire)
                /\ job.nextFire > job.lastFire
                /\ \A t \in now + 1 .. job.nextFire - 1 : ~Matches(job.expr, t)

\* A reminder comes as often as it was asked for and at its minutes.
FiringsSound == TypeOK /\ OncePerArming /\ CronOnTime

\* What is known of the job, by the process or by the next one, and whether it is
\* to come: a process that starts finds the next times anew.
Known(j) == IF up THEN jobs[j] ELSE file[j]
Armed(j) == IF up THEN jobs[j].nextFire # Never ELSE file[j].enabled /\ ~file[j].consumed

\* A reminder that waits for its time is forgotten by no tick, no end of a turn
\* and no restart, unless a run of the same job is under way.  (A cron job that
\* has no time within the horizon is dropped by a restart.)
ArmedKept ==
    [][\A j \in Jobs :
          Armed(j) /\ runs[j] = 0 /\ (Once(Known(j)) \/ NextTimes[Known(j).expr][now] # Never) =>
              \/ Armed(j)'
              \/ fired'[j] > fired[j]
              \/ Tick /\ ~Once(jobs[j])
              \/ RemoveJob(j) \/ UpdateJob(j) \/ TriggerJob(j)]_vars

\* A reminder whose minute has come, also while no process ran, does not wait for
\* ever: it fires, or is changed.
Late(j) == jobs[j].nextFire \in 1 .. now

ReminderFires == \A j \in Jobs : (up /\ Late(j)) ~> (~up \/ ~Late(j))

\* "已更新定时任务": a reminder that was given a new time waits for it, also when
\* the turn of the earlier one ends only then.
UpdateHolds ==
    [][\A j \in Jobs :
          Armed(j) /\ Once(Known(j)) =>
              Armed(j)' \/ fired'[j] > fired[j] \/ RemoveJob(j) \/ UpdateJob(j)]_vars
=============================================================================
