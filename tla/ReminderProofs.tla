---------------------------- MODULE ReminderProofs ----------------------------
(***************************************************************************)
(* Proofs about ReminderScheduler, for any calendar, any cron expressions  *)
(* and jobs, any horizon of the search and any length of time: a reminder  *)
(* comes as often as it was asked for and at its minutes, and one that     *)
(* waits is not forgotten.                                                 *)
(*                                                                         *)
(* The invariant follows each job into the file and back: a once job that  *)
(* has fired since it was armed is marked or gone in both, and what the    *)
(* file has is what a restart needs to come to the same job.               *)
(***************************************************************************)
EXTENDS ReminderScheduler, WellFoundedInduction, TLAPS

\* What holds of a job, in memory and in the file.
JobSound(job) ==
    /\ job.consumed => Once(job)
    /\ job.nextFire # Never => job.enabled /\ ~job.consumed
    /\ Once(job) /\ job.enabled => job.runAt # Never
    /\ job.lastFire <= now

\* What a cron job waits for is the first minute that matches after now, or one that has
\* come and waits for the tick.
CronSound(job) ==
    ~Once(job) /\ job.nextFire # Never =>
        /\ Matches(job.expr, job.nextFire)
        /\ job.nextFire > job.lastFire
        /\ \A t \in now + 1 .. job.nextFire - 1 : ~Matches(job.expr, t)

Stored(job) == job \in Job /\ JobSound(job)
Good(job)   == Stored(job) /\ CronSound(job)

\* A job that will not fire as it is.
Spent(job) == job = NoJob \/ job.consumed

\* What a restart makes of the stored job comes to the same.
SameTerms(job, stored) ==
    /\ job.expr = stored.expr /\ job.runAt = stored.runAt
    /\ job.enabled = stored.enabled /\ job.consumed = stored.consumed

Counts ==
    /\ now \in 1 .. MaxTime
    /\ up \in BOOLEAN
    /\ used \subseteq Jobs
    /\ runs \in [Jobs -> 0 .. MaxRuns]
    /\ fired \in [Jobs -> 0 .. 2]

OnceInv ==
    \A j \in Jobs :
        /\ fired[j] <= 1
        /\ fired[j] # 0 => Spent(jobs[j]) /\ Spent(file[j])
        /\ jobs[j] # NoJob \/ file[j] # NoJob \/ fired[j] # 0 => j \in used

StoredInv ==
    /\ jobs \in [Jobs -> Job] /\ file \in [Jobs -> Job]
    /\ \A j \in Jobs :
          /\ Good(jobs[j]) /\ Stored(file[j])
          /\ jobs[j] = NoJob \/ SameTerms(jobs[j], file[j])
          /\ up \/ jobs[j] = NoJob

ReminderInv == Counts /\ StoredInv /\ OnceInv

-----------------------------------------------------------------------------
(* Jobs.                                                                   *)

LEMMA Bounds ==
    /\ MaxTime \in Nat /\ MaxTime # 0 /\ MaxRuns \in Nat /\ Horizon \in Nat
    /\ <<>> \notin Exprs
    /\ 0 \in 0 .. MaxRuns /\ 1 \in 1 .. MaxTime
    /\ \A t \in 1 .. MaxTime : t \in Times /\ t \in Nat /\ t # Never
    /\ \A t \in Times : t \in Nat /\ t # Never
    /\ \A t \in Times \cup {Never} : t \in Nat
BY ReminderAssumption DEF ReminderAssumption, Times, Never

\* A set of naturals has a least element.
LEMMA Least ==
    ASSUME NEW S, S \subseteq Nat, S # {}
    PROVE  \E x \in S : \A y \in S : x <= y
<1> DEFINE Below == OpToRel(<, Nat)
<1>1. IsWellFoundedOn(Below, Nat)
  BY NatLessThanWellFounded
<1>2. Below = {p \in Nat \X Nat : p[1] < p[2]}
  BY DEF OpToRel
<1> HIDE DEF Below
<1>3. PICK x \in S : \A y \in S : <<y, x>> \notin Below
  BY <1>1, WFMin
<1>4. ASSUME NEW y \in S PROVE x <= y
  <2>1. <<y, x>> \in Nat \X Nat /\ ~(y < x)
    BY <1>2, <1>3
  <2> QED
    BY <2>1
<1> QED
  BY <1>4

\* computeNextFireTime finds the first minute that matches, if one does within its horizon.
LEMMA FirstMatch ==
    ASSUME NEW expr \in Exprs, NEW t \in 1 .. MaxTime
    PROVE  LET n == NextTimes[expr][t]
           IN  /\ n \in Times \cup {Never}
               /\ n # Never => /\ n > t /\ Matches(expr, n)
                               /\ \A u \in t + 1 .. n - 1 : ~Matches(expr, u)
<1> DEFINE hits == {u \in t + 1 .. t + Horizon : Matches(expr, u)}
<1> DEFINE n == NextTimes[expr][t]
<1>1. n = IF hits = {} THEN Never ELSE CHOOSE u \in hits : \A w \in hits : u <= w
  <2>1. n = NextFireTime(expr, t)
    BY DEF NextTimes
  <2> QED
    BY <2>1 DEF NextFireTime
<1> HIDE DEF n
<1>2. t \in Nat /\ Horizon \in Nat
  BY Bounds
<1>3. CASE hits = {}
  BY <1>1, <1>3 DEF n
<1>4. CASE hits # {}
  <2>1. hits \subseteq Nat
    BY <1>2
  <2>2. \E u \in hits : \A w \in hits : u <= w
    BY <1>4, <2>1, Least
  <2>3. n \in hits /\ \A w \in hits : n <= w
    BY <1>1, <1>4, <2>2
  <2>4. n \in t + 1 .. t + Horizon /\ Matches(expr, n)
    BY <2>3
  <2>5. n \in Nat /\ n > t /\ n <= t + Horizon
    BY <1>2, <2>4
  <2>6. n \in Times
    BY <1>2, <2>5, Bounds DEF Times
  <2>7. ASSUME NEW u \in t + 1 .. n - 1 PROVE ~Matches(expr, u)
    <3>1. u \in t + 1 .. t + Horizon /\ ~(n <= u)
      BY <1>2, <2>5
    <3> QED
      BY <2>3, <3>1
  <2> QED
    BY <2>4, <2>5, <2>6, <2>7 DEF n
<1> QED
  BY <1>3, <1>4

LEMMA NothingGood ==
    ASSUME now \in 1 .. MaxTime
    PROVE  Good(NoJob) /\ Once(NoJob) /\ Spent(NoJob)
<1>1. now \in Nat /\ 0 <= now
  BY Bounds
<1>2. NoJob \in Job
  BY DEF NoJob, Job
<1> QED
  BY <1>1, <1>2 DEF NoJob, Good, Stored, JobSound, CronSound, Once, Spent, Never

\* prepareJobForStorage, for a job that has its terms: it waits for its time, if it is to
\* come, and only the next time is changed.
LEMMA PreparedGood ==
    ASSUME now \in 1 .. MaxTime, NEW job \in Job, job.lastFire <= now,
           job.consumed => Once(job), Once(job) /\ job.enabled => job.runAt # Never
    PROVE  /\ Good(Prepared(job))
           /\ SameTerms(Prepared(job), job)
           /\ job.enabled /\ ~job.consumed /\ (Once(job) \/ NextTimes[job.expr][now] # Never)
              => Prepared(job).nextFire # Never
<1> DEFINE next == IF ~job.enabled \/ job.consumed THEN Never
                   ELSE IF Once(job) THEN job.runAt ELSE NextTimes[job.expr][now]
<1> DEFINE p == [job EXCEPT !.nextFire = next]
<1>1. /\ job.runAt \in Times \cup {Never} /\ job.lastFire \in Nat
      /\ ~Once(job) => job.expr \in Exprs
  BY Bounds DEF Job, Once
<1>2. /\ next \in Times \cup {Never}
      /\ next # Never => job.enabled /\ ~job.consumed
      /\ ~Once(job) /\ next # Never =>
            /\ next > now /\ Matches(job.expr, next)
            /\ \A u \in now + 1 .. next - 1 : ~Matches(job.expr, u)
      /\ job.enabled /\ ~job.consumed /\ (Once(job) \/ NextTimes[job.expr][now] # Never)
         => next # Never
  <2>1. CASE ~job.enabled \/ job.consumed
    BY <2>1
  <2>2. CASE job.enabled /\ ~job.consumed /\ Once(job)
    BY <1>1, <2>2
  <2>3. CASE job.enabled /\ ~job.consumed /\ ~Once(job)
    BY <1>1, <2>3, FirstMatch
  <2> QED
    BY <2>1, <2>2, <2>3
<1>3. Prepared(job) = p
  BY DEF Prepared
<1> HIDE DEF next
<1>4. /\ p \in Job /\ p.expr = job.expr /\ p.runAt = job.runAt /\ p.enabled = job.enabled
      /\ p.consumed = job.consumed /\ p.lastFire = job.lastFire /\ p.nextFire = next
  BY <1>2 DEF Job
<1> HIDE DEF p
<1>5. ~Once(job) /\ next # Never => next > job.lastFire
  <2>1. now \in Nat /\ job.lastFire <= now /\ next \in Nat
    BY <1>2, Bounds
  <2>2. ASSUME ~Once(job), next # Never PROVE next > now
    BY <1>2, <2>2
  <2> QED
    BY <1>1, <2>1, <2>2
<1>6. Once(p) = Once(job)
  BY <1>4 DEF Once
<1>7. JobSound(p)
  BY <1>2, <1>4, <1>6 DEF JobSound
<1>8. CronSound(p)
  BY <1>2, <1>4, <1>5, <1>6 DEF CronSound
<1> QED
  BY <1>2, <1>3, <1>4, <1>7, <1>8 DEF Good, Stored, SameTerms

\* What a caller asks for.
LEMMA RequestedJob ==
    ASSUME now \in 1 .. MaxTime, NEW job \in Requests, NEW last \in Times \cup {Never},
           last <= now
    PROVE  LET asked == [job EXCEPT !.lastFire = last]
           IN  /\ asked \in Job /\ asked.lastFire = last /\ ~asked.consumed
               /\ Once(asked) /\ asked.enabled => asked.runAt # Never
<1> DEFINE asked == [job EXCEPT !.lastFire = last]
<1>1. CASE job \in [expr : {<<>>}, runAt : 1 .. MaxTime, enabled : BOOLEAN, consumed : {FALSE},
                    nextFire : {Never}, lastFire : {Never}]
  <2>1. job \in Job /\ ~job.consumed /\ job.runAt # Never
    BY <1>1, Bounds DEF Job
  <2> QED
    BY <2>1 DEF Job
<1>2. CASE job \in [expr : Exprs, runAt : {Never}, enabled : BOOLEAN, consumed : {FALSE},
                    nextFire : {Never}, lastFire : {Never}]
  <2>1. job \in Job /\ ~job.consumed /\ ~Once(job)
    BY <1>2, Bounds DEF Job, Once
  <2>2. asked.expr = job.expr
    BY <2>1 DEF Job
  <2>3. ~Once(asked)
    BY <2>1, <2>2 DEF Once
  <2> QED
    BY <2>1, <2>3 DEF Job
<1> QED
  BY <1>1, <1>2 DEF Requests

\* A job that fires.
LEMMA FiredGood ==
    ASSUME now \in 1 .. MaxTime, NEW job, Good(job), job.enabled
    PROVE  LET after == FiredJob(job)
           IN  /\ Good(after) /\ Once(after) = Once(job) /\ after # NoJob
               /\ after.consumed = Once(job)
<1> DEFINE next == IF Once(job) THEN Never ELSE NextTimes[job.expr][now]
<1> DEFINE after == [job EXCEPT !.lastFire = now, !.consumed = Once(job), !.nextFire = next]
<1> DEFINE once == Once(job)
<1>1. job \in Job /\ JobSound(job) /\ now \in Nat /\ now \in Times /\ now # Never
  BY Bounds DEF Good, Stored
<1>2. ~once => job.expr \in Exprs
  BY <1>1 DEF Job, Once
<1>3. /\ next \in Times \cup {Never}
      /\ once => next = Never
      /\ ~once /\ next # Never =>
            /\ next > now /\ Matches(job.expr, next)
            /\ \A u \in now + 1 .. next - 1 : ~Matches(job.expr, u)
  BY <1>2, FirstMatch
<1>4. once \in BOOLEAN
  BY DEF Once
<1>5. FiredJob(job) = after
  BY DEF FiredJob
<1> HIDE DEF next, once
<1>6. after = [job EXCEPT !.lastFire = now, !.consumed = once, !.nextFire = next]
  BY DEF once
<1>7. /\ after \in Job /\ after.expr = job.expr /\ after.runAt = job.runAt
      /\ after.enabled = job.enabled /\ after.consumed = once
      /\ after.lastFire = now /\ after.nextFire = next
  BY <1>1, <1>3, <1>4, <1>6 DEF Job
<1> HIDE DEF after
<1>8. Once(after) = once
  BY <1>7 DEF Once, once
<1>9. CronSound(after)
  BY <1>3, <1>7, <1>8 DEF CronSound
<1>10. after # NoJob
  BY <1>1, <1>7 DEF NoJob
<1>11. JobSound(after)
  BY <1>1, <1>3, <1>7, <1>8 DEF JobSound, once
<1> QED
  BY <1>4, <1>5, <1>7, <1>8, <1>9, <1>10, <1>11 DEF Good, Stored, once

\* loadJobs drops a stored job, or makes it wait for its time again.
LEMMA LoadedGood ==
    ASSUME now \in 1 .. MaxTime, NEW stored, Stored(stored), stored # NoJob
    PROVE  /\ Good(Loaded(stored))
           /\ Loaded(stored) = NoJob \/ SameTerms(Loaded(stored), stored)
           /\ stored.consumed => Loaded(stored) = NoJob
           /\ /\ stored.enabled /\ ~stored.consumed
              /\ Once(stored) \/ NextTimes[stored.expr][now] # Never
              => Loaded(stored).nextFire # Never
<1>1. /\ Good(Prepared(stored)) /\ SameTerms(Prepared(stored), stored)
      /\ stored.enabled /\ ~stored.consumed /\ (Once(stored) \/ NextTimes[stored.expr][now] # Never)
         => Prepared(stored).nextFire # Never
  BY PreparedGood DEF Stored, JobSound
<1>2. stored.consumed => Once(stored)
  BY DEF Stored, JobSound
<1> QED
  BY <1>1, <1>2, NothingGood DEF Loaded

LEMMA SameItself == \A job : SameTerms(job, job)
BY DEF SameTerms

-----------------------------------------------------------------------------
(* Steps.                                                                  *)

\* A step after which every job is as it should be, at the same minute.
LEMMA JobsStep ==
    ASSUME ReminderInv, now' = now, up' \in BOOLEAN, used' \subseteq Jobs,
           runs' \in [Jobs -> 0 .. MaxRuns], fired' \in [Jobs -> 0 .. 2],
           jobs' \in [Jobs -> Job], file' \in [Jobs -> Job],
           \A j \in Jobs :
              /\ Good(jobs'[j]) /\ Stored(file'[j])
              /\ jobs'[j] = NoJob \/ SameTerms(jobs'[j], file'[j])
              /\ up' \/ jobs'[j] = NoJob
              /\ fired'[j] <= 1
              /\ fired'[j] # 0 => Spent(jobs'[j]) /\ Spent(file'[j])
              /\ jobs'[j] # NoJob \/ file'[j] # NoJob \/ fired'[j] # 0 => j \in used'
    PROVE  ReminderInv'
<1>1. Counts'
  BY DEF Counts, ReminderInv
<1>2. \A j \in Jobs : Good(jobs[j])' /\ Stored(file[j])'
  BY DEF Good, Stored, JobSound, CronSound
<1>3. StoredInv'
  BY <1>2 DEF StoredInv, SameTerms
<1>4. OnceInv'
  BY DEF OnceInv, Spent
<1> QED
  BY <1>1, <1>3, <1>4 DEF ReminderInv

\* What the invariant says of one job.
LEMMA OfJob ==
    ASSUME ReminderInv, NEW j \in Jobs
    PROVE  /\ now \in 1 .. MaxTime
           /\ jobs[j] \in Job /\ file[j] \in Job
           /\ Good(jobs[j]) /\ Stored(jobs[j]) /\ Stored(file[j])
           /\ jobs[j] = NoJob \/ SameTerms(jobs[j], file[j])
           /\ up \/ jobs[j] = NoJob
           /\ fired[j] \in {0, 1}
           /\ fired[j] # 0 => Spent(jobs[j]) /\ Spent(file[j])
           /\ jobs[j] # NoJob \/ file[j] # NoJob \/ fired[j] # 0 => j \in used
<1>1. fired[j] \in 0 .. 2 /\ fired[j] <= 1
  BY DEF ReminderInv, Counts, OnceInv
<1>2. fired[j] \in {0, 1}
  BY <1>1
<1> QED
  BY <1>2 DEF ReminderInv, Counts, OnceInv, StoredInv, Good

\* Jobs fire that exist and have not fired since they were armed.
LEMMA FireInv ==
    ASSUME ReminderInv, up, NEW some \in SUBSET Jobs, Fire(some),
           \A j \in some : jobs[j] # NoJob /\ jobs[j].enabled /\ ~jobs[j].consumed
    PROVE  /\ ReminderInv'
           /\ \A j \in Jobs \ some : jobs'[j] = jobs[j] /\ fired'[j] = fired[j]
           /\ \A j \in some : Once(jobs[j]) => fired'[j] > fired[j]
<1>1. PICK refused \in SUBSET some :
        /\ \A j \in some \ refused : runs[j] < MaxRuns
        /\ jobs' = [j \in Jobs |->
                        IF j \in refused THEN FinalizedJob(FiredJob(jobs[j]))
                        ELSE IF j \in some THEN FiredJob(jobs[j]) ELSE jobs[j]]
        /\ runs' = [j \in Jobs |-> IF j \in some \ refused THEN runs[j] + 1 ELSE runs[j]]
        /\ fired' = [j \in Jobs |-> IF j \in some /\ Once(jobs[j]) /\ fired[j] < 2
                                    THEN fired[j] + 1 ELSE fired[j]]
        /\ file' = jobs' /\ UNCHANGED <<now, up, used>>
  BY DEF Fire, Save
<1>2. ASSUME NEW j \in Jobs \ some
      PROVE  jobs'[j] = jobs[j] /\ fired'[j] = fired[j]
  BY <1>1
<1>3. ASSUME NEW j \in some
      PROVE  /\ Good(jobs'[j]) /\ j \in used
             /\ IF Once(jobs[j]) THEN /\ fired[j] = 0 /\ fired'[j] = 1
                                      /\ Spent(jobs'[j])
                                 ELSE fired'[j] = fired[j] /\ fired[j] = 0
  <2> DEFINE after == FiredJob(jobs[j])
  <2>1. /\ Good(after) /\ Once(after) = Once(jobs[j]) /\ after.consumed = Once(jobs[j])
        /\ fired[j] \in {0, 1} /\ j \in used
    BY OfJob, FiredGood
  <2>2. fired[j] = 0
    BY <2>1, OfJob DEF Spent
  <2>3. jobs'[j] = IF j \in refused THEN FinalizedJob(after) ELSE after
    BY <1>1
  <2>4. fired'[j] = IF Once(jobs[j]) THEN 1 ELSE 0
    BY <1>1, <2>2
  <2> HIDE DEF after
  <2>5. jobs'[j] \in {after, NoJob} /\ (~Once(jobs[j]) => jobs'[j] = after)
    BY <2>1, <2>3 DEF FinalizedJob
  <2>6. Good(NoJob) /\ Spent(NoJob)
    BY OfJob, NothingGood
  <2> QED
    BY <2>1, <2>2, <2>4, <2>5, <2>6 DEF Spent
<1>4. ASSUME NEW j \in Jobs
      PROVE  /\ Good(jobs'[j])
             /\ fired'[j] \in {0, 1} /\ (fired'[j] # 0 => Spent(jobs'[j]))
             /\ jobs'[j] # NoJob \/ fired'[j] # 0 => j \in used
             /\ runs'[j] \in 0 .. MaxRuns
  <2>1. runs'[j] \in 0 .. MaxRuns
    <3>1. runs[j] \in 0 .. MaxRuns
      BY DEF ReminderInv, Counts
    <3>2. CASE j \in some \ refused
      BY <1>1, <3>1, <3>2, Bounds
    <3>3. CASE j \notin some \ refused
      BY <1>1, <3>1, <3>3
    <3> QED
      BY <3>2, <3>3
  <2> QED
    BY <1>2, <1>3, <2>1, OfJob
<1>5. /\ jobs' = [j \in Jobs |-> jobs'[j]] /\ fired' = [j \in Jobs |-> fired'[j]]
      /\ runs' = [j \in Jobs |-> runs'[j]]
  BY <1>1
<1>6. jobs' \in [Jobs -> Job] /\ fired' \in [Jobs -> 0 .. 2] /\ runs' \in [Jobs -> 0 .. MaxRuns]
  BY <1>4, <1>5 DEF Good, Stored
<1>7. ReminderInv'
  <2>1. up' \in BOOLEAN /\ used' \subseteq Jobs /\ up' /\ now' = now /\ used' = used
    BY <1>1 DEF ReminderInv, Counts
  <2>2. \A j \in Jobs : file'[j] = jobs'[j] /\ Stored(file'[j]) /\ fired'[j] <= 1
    BY <1>1, <1>4 DEF Good
  <2>3. file' \in [Jobs -> Job]
    BY <1>1, <1>6
  <2> QED
    BY <1>4, <1>6, <2>1, <2>2, <2>3, SameItself, JobsStep
<1> QED
  BY <1>2, <1>3, <1>7

\* One job is replaced and, or so, saved.
LEMMA ReplaceInv ==
    ASSUME ReminderInv, up, NEW j \in Jobs, NEW job, Good(job),
           UNCHANGED <<now, up>>, jobs' = [jobs EXCEPT ![j] = job],
           file' = jobs' \/ (file' = file /\ job = jobs[j]),
           used' = used \cup {j},
           fired' \in {fired, [fired EXCEPT ![j] = 0]},
           runs' \in [Jobs -> 0 .. MaxRuns],
           fired'[j] # 0 => Spent(job)
    PROVE  ReminderInv'
<1>1. fired \in [Jobs -> 0 .. 2] /\ fired' \in [Jobs -> 0 .. 2]
  BY DEF ReminderInv, Counts
<1>2. jobs \in [Jobs -> Job] /\ jobs' \in [Jobs -> Job] /\ file' \in [Jobs -> Job]
  BY DEF ReminderInv, StoredInv, Good, Stored
<1>3. up' \in BOOLEAN /\ used' \subseteq Jobs /\ up'
  BY DEF ReminderInv, Counts
<1>4. ASSUME NEW k \in Jobs
      PROVE  /\ Good(jobs'[k]) /\ Stored(file'[k])
             /\ jobs'[k] = NoJob \/ SameTerms(jobs'[k], file'[k])
             /\ fired'[k] \in {0, 1}
             /\ fired'[k] # 0 => Spent(jobs'[k]) /\ Spent(file'[k])
             /\ jobs'[k] # NoJob \/ file'[k] # NoJob \/ fired'[k] # 0 => k \in used'
  <2>1. jobs'[k] = IF k = j THEN job ELSE jobs[k]
    BY <1>2
  <2>2. fired'[k] \in {0, fired[k]} /\ (k # j => fired'[k] = fired[k])
    BY <1>1
  <2>3. Good(jobs'[k]) /\ (fired'[k] # 0 => Spent(jobs'[k]))
    BY <2>1, <2>2, OfJob
  <2>4. fired'[k] \in {0, 1}
    BY <2>2, OfJob
  <2>5. jobs'[k] # NoJob \/ fired'[k] # 0 => k \in used'
    BY <2>1, <2>2, OfJob
  <2>6. CASE file' = jobs'
    BY <2>3, <2>4, <2>5, <2>6, SameItself DEF Good
  <2>7. CASE file' = file /\ job = jobs[j]
    <3>1. jobs'[k] = jobs[k]
      BY <2>1, <2>7
    <3> QED
      BY <2>2, <2>3, <2>4, <2>5, <2>7, <3>1, OfJob
  <2> QED
    BY <2>6, <2>7
<1>5. \A k \in Jobs : fired'[k] <= 1
  BY <1>4
<1> QED
  BY <1>1, <1>2, <1>3, <1>4, <1>5, JobsStep

LEMMA AddInv ==
    ASSUME ReminderInv, NEW j \in Jobs, AddJob(j)
    PROVE  ReminderInv'
<1>1. PICK job \in Requests : jobs' = [jobs EXCEPT ![j] = Prepared(job)]
  BY DEF AddJob
<1>2. /\ up /\ j \notin used /\ used' = used \cup {j} /\ file' = jobs'
      /\ UNCHANGED <<now, up, runs, fired>>
  BY DEF AddJob, Save
<1>3. now \in 1 .. MaxTime /\ now \in Nat /\ Never <= now
  BY Bounds DEF ReminderInv, Counts, Never
<1>4. [job EXCEPT !.lastFire = Never] = job
  BY DEF Requests
<1>5. job \in Job /\ job.lastFire <= now /\ ~job.consumed
      /\ (Once(job) /\ job.enabled => job.runAt # Never)
  BY ZenonT(60), <1>3, <1>4, RequestedJob
<1>6. Good(Prepared(job))
  BY <1>3, <1>5, PreparedGood
<1>7. fired[j] = 0 /\ runs \in [Jobs -> 0 .. MaxRuns]
  BY <1>2, OfJob DEF ReminderInv, Counts
<1> QED
  BY <1>1, <1>2, <1>6, <1>7, ReplaceInv

LEMMA RemoveInv ==
    ASSUME ReminderInv, NEW j \in Jobs, RemoveJob(j)
    PROVE  ReminderInv'
<1>1. /\ up /\ jobs[j] # NoJob /\ jobs' = [jobs EXCEPT ![j] = NoJob] /\ file' = jobs'
      /\ UNCHANGED <<now, up, used, runs, fired>>
  BY DEF RemoveJob, Save, Exists
<1>2. Good(NoJob) /\ Spent(NoJob) /\ j \in used /\ runs \in [Jobs -> 0 .. MaxRuns]
  BY <1>1, OfJob, NothingGood DEF ReminderInv, Counts
<1>3. used' = used \cup {j}
  BY <1>1, <1>2
<1> QED
  BY <1>1, <1>2, <1>3, ReplaceInv

LEMMA UpdateInv ==
    ASSUME ReminderInv, NEW j \in Jobs, UpdateJob(j)
    PROVE  ReminderInv'
<1>1. PICK job \in Requests, last \in {Never, jobs[j].lastFire} :
         jobs' = [jobs EXCEPT ![j] = Prepared([job EXCEPT !.lastFire = last])]
  BY DEF UpdateJob
<1> DEFINE asked == [job EXCEPT !.lastFire = last]
<1>2. /\ up /\ jobs[j] # NoJob /\ file' = jobs'
      /\ fired' = [fired EXCEPT ![j] = 0]
      /\ UNCHANGED <<now, up, used, runs>>
  BY DEF UpdateJob, Save, Exists
<1>3. now \in 1 .. MaxTime /\ now \in Nat /\ Never <= now
  BY Bounds DEF ReminderInv, Counts, Never
<1>4. last \in Times \cup {Never} /\ last <= now
  BY <1>3, OfJob DEF Stored, JobSound, Job
<1>5. asked \in Job /\ asked.lastFire <= now /\ ~asked.consumed
      /\ (Once(asked) /\ asked.enabled => asked.runAt # Never)
  BY <1>3, <1>4, RequestedJob
<1> HIDE DEF asked
<1>6. Good(Prepared(asked))
  BY <1>3, <1>5, PreparedGood
<1>7. j \in used /\ runs' \in [Jobs -> 0 .. MaxRuns] /\ fired'[j] = 0
  BY <1>2, OfJob DEF ReminderInv, Counts
<1>8. jobs' = [jobs EXCEPT ![j] = Prepared(asked)] /\ used' = used \cup {j}
  BY <1>1, <1>2, <1>7 DEF asked
<1> QED
  BY <1>2, <1>6, <1>7, <1>8, ReplaceInv

\* A manual run fires a job that has not fired since it was armed.
LEMMA TriggerFires ==
    ASSUME ReminderInv, NEW j \in Jobs, TriggerJob(j)
    PROVE  /\ up /\ Fire({j})
           /\ \A k \in {j} : jobs[k] # NoJob /\ jobs[k].enabled /\ ~jobs[k].consumed
<1>1. jobs[j].consumed => Once(jobs[j])
  BY OfJob DEF Stored, JobSound
<1> QED
  BY <1>1 DEF TriggerJob, Exists

\* So does onTick.
LEMMA TickFires ==
    ASSUME ReminderInv, Tick
    PROVE  /\ up /\ Fire({j \in Jobs : Due(jobs[j])})
           /\ \A k \in {j \in Jobs : Due(jobs[j])} :
                 jobs[k] # NoJob /\ jobs[k].enabled /\ ~jobs[k].consumed
<1>1. ASSUME NEW k \in Jobs, Due(jobs[k])
      PROVE  jobs[k] # NoJob /\ jobs[k].enabled /\ ~jobs[k].consumed
  <2>1. jobs[k].nextFire # Never => ~jobs[k].consumed
    BY OfJob DEF Stored, JobSound
  <2> QED
    BY <1>1, <2>1 DEF Due, Exists
<1> QED
  BY <1>1 DEF Tick

LEMMA TurnInv ==
    ASSUME ReminderInv, NEW j \in Jobs, TurnEnds(j) \/ TurnLost(j)
    PROVE  ReminderInv'
<1> DEFINE job == jobs'[j]
<1>1. jobs \in [Jobs -> Job] /\ runs \in [Jobs -> 0 .. MaxRuns]
  BY DEF ReminderInv, StoredInv, Counts
<1>2. runs' \in [Jobs -> 0 .. MaxRuns]
  <2>1. runs[j] > 0 /\ runs' = [runs EXCEPT ![j] = @ - 1]
    BY DEF TurnEnds, TurnLost
  <2>2. runs[j] - 1 \in 0 .. MaxRuns
    BY <1>1, <2>1, Bounds
  <2> QED
    BY <1>1, <2>1, <2>2
<1>3. up /\ UNCHANGED <<now, up, used, fired>>
  BY DEF TurnEnds, TurnLost
<1>4. CASE TurnEnds(j)
  <2>1. jobs' = [jobs EXCEPT ![j] = FinalizedJob(@)]
        /\ file' = IF Once(jobs[j]) THEN jobs' ELSE file
    BY <1>4 DEF TurnEnds
  <2>2. jobs' = [jobs EXCEPT ![j] = job] /\ job \in {jobs[j], NoJob}
        /\ (file' = jobs' \/ (file' = file /\ job = jobs[j]))
    BY <1>1, <2>1 DEF FinalizedJob
  <2>3. Good(job) /\ (fired[j] # 0 => Spent(job))
    BY <2>2, OfJob, NothingGood
  <2>4. CASE job = jobs[j]
    <3>1. jobs' = jobs
      BY <1>1, <2>2, <2>4
    <3>2. CASE j \in used
      <4>1. used' = used \cup {j}
        BY <1>3, <3>2
      <4> QED
        BY <1>2, <1>3, <2>2, <2>3, <4>1, ReplaceInv
    <3>3. CASE j \notin used
      <4>1. jobs[j] = NoJob /\ file[j] = NoJob
        BY <3>3, OfJob
      <4>2. Once(NoJob)
        BY OfJob, NothingGood
      <4>3. file' = jobs'
        BY <2>1, <4>1, <4>2
      <4>4. \A k \in Jobs : /\ file'[k] = jobs[k] /\ jobs'[k] = jobs[k] /\ fired'[k] <= 1
                            /\ fired'[k] = fired[k]
        BY <1>3, <3>1, <4>3, OfJob
      <4>5. /\ file' \in [Jobs -> Job] /\ jobs' \in [Jobs -> Job] /\ fired' \in [Jobs -> 0 .. 2]
            /\ up' \in BOOLEAN /\ used' \subseteq Jobs /\ used' = used /\ up' /\ now' = now
        BY <1>1, <1>3, <3>1, <4>3 DEF ReminderInv, Counts
      <4> QED
        BY <1>2, <4>4, <4>5, OfJob, SameItself, JobsStep
    <3> QED
      BY <3>2, <3>3
  <2>5. CASE job # jobs[j]
    <3>1. jobs[j] # NoJob
      BY <2>2, <2>5
    <3>2. used' = used \cup {j}
      BY <1>3, <3>1, OfJob
    <3> QED
      BY <1>2, <1>3, <2>2, <2>3, <3>2, ReplaceInv
  <2> QED
    BY <2>4, <2>5
<1>5. CASE TurnLost(j)
  <2>1. jobs' = jobs /\ file' = file
    BY <1>5 DEF TurnLost
  <2>2. /\ file' \in [Jobs -> Job] /\ jobs' \in [Jobs -> Job] /\ fired' \in [Jobs -> 0 .. 2]
        /\ up' \in BOOLEAN /\ used' \subseteq Jobs /\ used' = used /\ up' /\ now' = now
        /\ fired' = fired
    BY <1>1, <1>3, <2>1 DEF ReminderInv, Counts, StoredInv
  <2>3. \A k \in Jobs : fired[k] <= 1
    BY OfJob
  <2> QED
    BY <1>2, <2>1, <2>2, <2>3, OfJob, JobsStep
<1> QED
  BY <1>4, <1>5

LEMMA StopInv ==
    ASSUME ReminderInv, Stop
    PROVE  ReminderInv'
<1>1. /\ up' = FALSE /\ jobs' = [j \in Jobs |-> NoJob] /\ runs' = [j \in Jobs |-> 0]
      /\ UNCHANGED <<now, file, used, fired>>
  BY DEF Stop
<1>2. now \in 1 .. MaxTime
  BY DEF ReminderInv, Counts
<1>3. /\ file' \in [Jobs -> Job] /\ fired' \in [Jobs -> 0 .. 2]
      /\ used' \subseteq Jobs /\ used' = used /\ now' = now /\ fired' = fired /\ file' = file
  BY <1>1 DEF ReminderInv, Counts, StoredInv
<1>4. NoJob \in Job /\ Good(NoJob) /\ Spent(NoJob)
  BY <1>2, NothingGood DEF Good, Stored
<1>5. runs' \in [Jobs -> 0 .. MaxRuns] /\ jobs' \in [Jobs -> Job] /\ up' \in BOOLEAN
  BY <1>1, <1>4, Bounds
<1>6. \A j \in Jobs : jobs'[j] = NoJob /\ fired[j] <= 1
  BY <1>1, OfJob
<1> QED
  BY <1>3, <1>4, <1>5, <1>6, OfJob, JobsStep

\* The process starts, with what loadJobs makes of the file.
LEMMA StartJobs ==
    ASSUME ReminderInv, Start, NEW j \in Jobs
    PROVE  /\ Good(jobs'[j]) /\ file'[j] \in {file[j], jobs'[j]}
           /\ jobs'[j] = NoJob \/ SameTerms(jobs'[j], file[j])
           /\ Spent(file[j]) => jobs'[j] = NoJob
           /\ file[j] = NoJob => jobs'[j] = NoJob
           /\ /\ file[j].enabled /\ ~file[j].consumed
              /\ Once(file[j]) \/ NextTimes[file[j].expr][now] # Never
              => jobs'[j].nextFire # Never
<1>1. /\ jobs'[j] = IF Exists(file[j]) THEN Loaded(file[j]) ELSE NoJob
      /\ file' \in {file, jobs'}
  BY DEF Start
<1>2. now \in 1 .. MaxTime /\ Stored(file[j])
  BY OfJob
<1>3. file'[j] \in {file[j], jobs'[j]}
  BY <1>1
<1>4. CASE file[j] = NoJob
  <2>1. jobs'[j] = NoJob /\ ~NoJob.enabled
    BY <1>1, <1>4 DEF Exists, NoJob
  <2> QED
    BY <1>2, <1>3, <1>4, <2>1, NothingGood
<1>5. CASE file[j] # NoJob
  BY <1>1, <1>2, <1>3, <1>5, LoadedGood DEF Exists, Spent
<1> QED
  BY <1>4, <1>5

LEMMA StartInv ==
    ASSUME ReminderInv, Start
    PROVE  ReminderInv'
<1>1. /\ up' = TRUE /\ UNCHANGED <<now, used, runs, fired>>
      /\ jobs' = [j \in Jobs |-> IF Exists(file[j]) THEN Loaded(file[j]) ELSE NoJob]
      /\ file' \in {file, jobs'}
  BY DEF Start
<1>2. ASSUME NEW j \in Jobs
      PROVE  /\ Good(jobs'[j]) /\ Stored(file'[j])
             /\ jobs'[j] = NoJob \/ SameTerms(jobs'[j], file'[j])
             /\ fired[j] <= 1
             /\ fired[j] # 0 => Spent(jobs'[j]) /\ Spent(file'[j])
             /\ jobs'[j] # NoJob \/ file'[j] # NoJob \/ fired[j] # 0 => j \in used
  <2>1. now \in 1 .. MaxTime /\ Stored(file[j]) /\ fired[j] <= 1
    BY OfJob
  <2>2. Spent(NoJob)
    BY DEF Spent
  <2>3. Stored(file'[j])
    BY <2>1, StartJobs DEF Good
  <2>4. jobs'[j] = NoJob \/ SameTerms(jobs'[j], file'[j])
    BY StartJobs, SameItself
  <2> QED
    BY <2>1, <2>2, <2>3, <2>4, StartJobs, OfJob
<1>3. jobs' \in [Jobs -> Job] /\ file' \in [Jobs -> Job]
  <2>1. jobs' = [j \in Jobs |-> jobs'[j]]
    BY <1>1
  <2>2. \A j \in Jobs : jobs'[j] \in Job
    BY <1>2 DEF Good, Stored
  <2>3. jobs' \in [Jobs -> Job]
    BY <2>1, <2>2
  <2> QED
    BY <1>1, <2>3 DEF ReminderInv, StoredInv
<1>4. /\ up' \in BOOLEAN /\ up' /\ used' \subseteq Jobs /\ runs' \in [Jobs -> 0 .. MaxRuns]
      /\ fired' \in [Jobs -> 0 .. 2] /\ fired' = fired /\ used' = used /\ now' = now
  BY <1>1 DEF ReminderInv, Counts
<1> QED
  BY <1>2, <1>3, <1>4, JobsStep

LEMMA PassInv ==
    ASSUME ReminderInv, Pass
    PROVE  ReminderInv'
<1>1. now' = now + 1 /\ now < MaxTime /\ UNCHANGED <<up, jobs, file, used, runs, fired>>
  BY DEF Pass
<1>2. now \in 1 .. MaxTime /\ now \in Nat
  BY Bounds DEF ReminderInv, Counts
<1>3. Counts'
  BY <1>1, <1>2, Bounds DEF ReminderInv, Counts
<1>4. ASSUME NEW job \in Job
      PROVE  (JobSound(job) => JobSound(job)') /\ (CronSound(job) => CronSound(job)')
  <2>1. job.lastFire \in Nat /\ job.nextFire \in Nat
    BY Bounds DEF Job
  <2>2. job.lastFire <= now => job.lastFire <= now'
    BY <1>1, <1>2, <2>1
  <2>3. now' + 1 .. job.nextFire - 1 \subseteq now + 1 .. job.nextFire - 1
    BY <1>1, <1>2, <2>1
  <2> QED
    BY <2>2, <2>3 DEF JobSound, CronSound
<1>5. ASSUME NEW j \in Jobs
      PROVE  /\ Good(jobs[j])' /\ Stored(file[j])'
             /\ (jobs[j] = NoJob \/ SameTerms(jobs[j], file[j]))'
             /\ (up \/ jobs[j] = NoJob)'
  <2>1. jobs[j] \in Job /\ file[j] \in Job /\ jobs' = jobs /\ file' = file /\ up' = up
    BY <1>1, OfJob
  <2>2. JobSound(jobs[j])' /\ CronSound(jobs[j])' /\ JobSound(file[j])'
    BY <1>4, <2>1, OfJob DEF Good, Stored, JobSound, CronSound
  <2> QED
    BY <2>1, <2>2, OfJob DEF Good, Stored, SameTerms
<1>6. StoredInv'
  BY <1>1, <1>5 DEF ReminderInv, StoredInv
<1>7. OnceInv'
  BY <1>1 DEF ReminderInv, OnceInv, Spent
<1> QED
  BY <1>3, <1>6, <1>7 DEF ReminderInv

-----------------------------------------------------------------------------
(* The theorems.                                                           *)

LEMMA InitInv == Init => ReminderInv
<1> SUFFICES ASSUME Init PROVE ReminderInv
  OBVIOUS
<1>1. now \in 1 .. MaxTime
  BY Bounds DEF Init
<1>2. Good(NoJob) /\ Stored(NoJob) /\ NoJob \in Job /\ Spent(NoJob)
  BY <1>1, NothingGood DEF Good, Stored
<1>3. Counts
  <2>1. /\ up = FALSE /\ used = {} /\ runs = [j \in Jobs |-> 0] /\ fired = [j \in Jobs |-> 0]
    BY DEF Init
  <2>2. runs \in [Jobs -> 0 .. MaxRuns] /\ fired \in [Jobs -> 0 .. 2]
    BY <2>1, Bounds
  <2> QED
    BY <1>1, <2>1, <2>2 DEF Counts
<1>4. StoredInv
  BY <1>2 DEF Init, StoredInv
<1>5. OnceInv
  BY DEF Init, OnceInv
<1> QED
  BY <1>3, <1>4, <1>5 DEF ReminderInv

LEMMA NextInv == ReminderInv /\ [Next]_vars => ReminderInv'
<1> SUFFICES ASSUME ReminderInv, [Next]_vars PROVE ReminderInv'
  OBVIOUS
<1>1. CASE \E j \in Jobs : AddJob(j) \/ RemoveJob(j) \/ UpdateJob(j)
  BY <1>1, AddInv, RemoveInv, UpdateInv
<1>2. CASE \E j \in Jobs : TriggerJob(j)
  <2>1. PICK j \in Jobs : TriggerJob(j)
    BY <1>2
  <2>2. {j} \in SUBSET Jobs
    OBVIOUS
  <2> QED
    BY <2>1, <2>2, TriggerFires, FireInv
<1>3. CASE Tick
  <2>1. {j \in Jobs : Due(jobs[j])} \in SUBSET Jobs
    OBVIOUS
  <2> QED
    BY <1>3, <2>1, TickFires, FireInv
<1>4. CASE \E j \in Jobs : TurnEnds(j) \/ TurnLost(j)
  BY <1>4, TurnInv
<1>5. CASE Start
  BY <1>5, StartInv
<1>6. CASE Stop
  BY <1>6, StopInv
<1>7. CASE Pass
  BY <1>7, PassInv
<1>8. CASE UNCHANGED vars
  BY <1>8 DEF vars, ReminderInv, Counts, StoredInv, OnceInv, Good, Stored, JobSound, CronSound,
              SameTerms, Spent
<1> QED
  BY <1>1, <1>2, <1>3, <1>4, <1>5, <1>6, <1>7, <1>8 DEF Next

\* The inductive invariant holds in every state.
THEOREM Reminders == Spec => []ReminderInv
<1> QED
  BY InitInv, NextInv, PTL DEF Spec

\* Reminders fire as they should (onTick, triggerJob, updateJob, loadJobs and the end of
\* their turns): a once reminder once for each time it is armed, restarts included, and a
\* cron reminder at the first minute that matches, never twice for one.
THEOREM Firings == Spec => []FiringsSound
<1>1. ReminderInv => TypeOK
  BY DEF ReminderInv, Counts, StoredInv, Good, Stored, JobSound, TypeOK
<1>2. ReminderInv => OncePerArming
  BY DEF ReminderInv, OnceInv, OncePerArming
<1>3. ReminderInv => CronOnTime
  BY DEF ReminderInv, StoredInv, Good, CronSound, CronOnTime
<1> QED
  BY <1>1, <1>2, <1>3, Reminders, PTL DEF FiringsSound

LEMMA ArmedStep ==
    ASSUME ReminderInv, [Next]_vars, NEW j \in Jobs,
           Armed(j), runs[j] = 0, Once(Known(j)) \/ NextTimes[Known(j).expr][now] # Never,
           ~(fired'[j] > fired[j]), ~(Tick /\ ~Once(jobs[j])),
           ~RemoveJob(j), ~UpdateJob(j), ~TriggerJob(j)
    PROVE  Armed(j)'
<1>1. ASSUME up' = up, jobs'[j] = jobs[j], file'[j] = file[j] \/ up
      PROVE  Armed(j)'
  BY <1>1 DEF Armed
<1>2. /\ jobs[j] \in Job /\ (up \/ jobs[j] = NoJob)
      /\ JobSound(jobs[j]) /\ (jobs[j] = NoJob \/ SameTerms(jobs[j], file[j]))
      /\ jobs[j] # NoJob \/ file[j] # NoJob => j \in used
      /\ jobs \in [Jobs -> Job]
  BY OfJob DEF Stored, ReminderInv, StoredInv
<1>3. jobs[j] # NoJob \/ file[j] # NoJob
  BY DEF Armed, NoJob
<1>4. CASE \E k \in Jobs : AddJob(k) \/ RemoveJob(k) \/ UpdateJob(k)
  <2>1. PICK k \in Jobs : AddJob(k) \/ RemoveJob(k) \/ UpdateJob(k)
    BY <1>4
  <2>2. k # j
    BY <1>2, <1>3, <2>1 DEF AddJob
  <2>3. up /\ up' = up /\ \E job : jobs' = [jobs EXCEPT ![k] = job]
    BY <2>1 DEF AddJob, RemoveJob, UpdateJob
  <2>4. jobs'[j] = jobs[j]
    BY <1>2, <2>2, <2>3
  <2> QED
    BY <1>1, <2>3, <2>4
<1>5. CASE \E k \in Jobs : TriggerJob(k)
  <2>1. PICK k \in Jobs : TriggerJob(k)
    BY <1>5
  <2>2. j \in Jobs \ {k} /\ {k} \in SUBSET Jobs
    BY <2>1
  <2>3. jobs'[j] = jobs[j] /\ up /\ up' = up
    BY <2>1, <2>2, TriggerFires, FireInv DEF Fire
  <2> QED
    BY <1>1, <2>3
<1>6. CASE Tick
  <2> DEFINE due == {k \in Jobs : Due(jobs[k])}
  <2>1. /\ up /\ Fire(due) /\ up' = up
        /\ \A k \in due : jobs[k] # NoJob /\ jobs[k].enabled /\ ~jobs[k].consumed
    BY <1>6, TickFires DEF Fire
  <2>2. due \in SUBSET Jobs /\ Once(jobs[j])
    BY <1>6
  <2> HIDE DEF due
  <2>3. j \notin due
    BY <2>1, <2>2, FireInv
  <2>4. jobs'[j] = jobs[j]
    BY <2>1, <2>2, <2>3, FireInv
  <2> QED
    BY <1>1, <2>1, <2>4
<1>7. CASE \E k \in Jobs : TurnEnds(k) \/ TurnLost(k)
  <2>1. PICK k \in Jobs : TurnEnds(k) \/ TurnLost(k)
    BY <1>7
  <2>2. k # j
    BY <2>1 DEF TurnEnds, TurnLost
  <2>3. up /\ up' = up /\ jobs'[j] = jobs[j]
    BY <1>2, <2>1, <2>2 DEF TurnEnds, TurnLost
  <2> QED
    BY <1>1, <2>3
<1>8. CASE Start
  <2>1. ~up /\ up'
    BY <1>8 DEF Start
  <2>2. /\ file[j].enabled /\ ~file[j].consumed
        /\ Once(file[j]) \/ NextTimes[file[j].expr][now] # Never
    BY <2>1 DEF Armed, Known
  <2>3. jobs'[j].nextFire # Never
    BY <1>8, <2>2, StartJobs
  <2> QED
    BY <2>1, <2>3 DEF Armed
<1>9. CASE Stop
  <2>1. up /\ ~up' /\ file' = file
    BY <1>9 DEF Stop
  <2>2. jobs[j].nextFire # Never /\ jobs[j] # NoJob
    BY <2>1 DEF Armed, NoJob
  <2>3. file[j].enabled /\ ~file[j].consumed
    BY <1>2, <2>2 DEF JobSound, SameTerms
  <2> QED
    BY <2>1, <2>3 DEF Armed
<1>10. CASE Pass \/ UNCHANGED vars
  BY <1>1, <1>10 DEF Pass, vars
<1> QED
  BY <1>4, <1>5, <1>6, <1>7, <1>8, <1>9, <1>10 DEF Next

\* No tick, no end of a turn and no restart forgets a reminder that is to come (the
\* transitions of SchedulerService that write m_jobs or the file, but for its removal,
\* update and manual run).
THEOREM NotForgotten == Spec => ArmedKept
<1>1. ReminderInv /\ [Next]_vars
      => [\A j \in Jobs :
             Armed(j) /\ runs[j] = 0 /\ (Once(Known(j)) \/ NextTimes[Known(j).expr][now] # Never) =>
                 \/ Armed(j)'
                 \/ fired'[j] > fired[j]
                 \/ Tick /\ ~Once(jobs[j])
                 \/ RemoveJob(j) \/ UpdateJob(j) \/ TriggerJob(j)]_vars
  BY ArmedStep
<1> QED
  BY <1>1, Reminders, PTL DEF Spec, ArmedKept
=============================================================================
