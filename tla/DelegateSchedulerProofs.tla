---------------------- MODULE DelegateSchedulerProofs ----------------------
(***************************************************************************)
(* Proofs about DelegateScheduler, for every finite set of jobs and all    *)
(* limits: the records of a job agree, a cancelled job is reported as      *)
(* cancelled, and the scheduler implements the abstract job board.         *)
(***************************************************************************)
EXTENDS DelegateScheduler, FiniteSetTheorems, SequenceTheorems, WellFoundedInduction, TLAPS

Quiet(r) == r.status \in {"unknown", "refused"}
Live(r)  == ~Quiet(r) /\ ~r.settled

\* What holds of the runtime of a job whatever has happened to it.
Sound(r) ==
    /\ r \in Runtime
    /\ Quiet(r) => ~r.settled /\ ~r.wanted
    /\ Live(r) <=> r.status \in ActiveStatuses
    /\ Live(r) <=> r.session # "none"
    /\ r.session = "working" => r.kind = "tmagent"
    /\ r.session \in CodexSteps => r.kind = "codex"
    /\ r.told = IF r.settled THEN 1 ELSE 0
    /\ r.wanted => \/ r.status = "cancelled"
                   \/ r.status = "completed" /\ r.kind = "codex"
    /\ r.status = "cancelled" => r.wanted

\* The history holds jobs, each once, and no job that works is missing from it.
OrderSound ==
    /\ order \in Seq(Jobs)
    /\ Len(order) =< MaxStored
    /\ \A i, k \in DOMAIN order : order[i] = order[k] => i = k
    /\ \A i \in DOMAIN order : ~Quiet(rt[order[i]])
    /\ \A j \in Jobs : Live(rt[j]) => \E i \in DOMAIN order : order[i] = j

\* The inductive invariant.  The properties alone are not inductive: that the
\* history never drops a working job needs that it holds accepted jobs only, and
\* that a cancelled job of a child agent is not reported as completed needs that
\* a session has the steps of its kind.
IInv == /\ rt \in [Jobs -> Runtime]
        /\ \A j \in Jobs : Sound(rt[j])
        /\ OrderSound

\* What the job board sees of a runtime.
BoardOf(r) == IF Live(r) THEN "active" ELSE r.status

\* A step of a job: the board sees nothing of it, or the job is settled.
Stays(r, q) == BoardOf(q) = BoardOf(r) /\ q.told = r.told
Ends(r, q)  == Live(r) /\ q.settled /\ q.status \in FinishedStatuses
Goes(r, q)  == Sound(q) /\ (Stays(r, q) \/ Ends(r, q))

\* A job under way, perhaps with the wish to cancel it, whose session may be stopped.
Stoppable(r) ==
    /\ r \in Runtime
    /\ r.status \in ActiveStatuses /\ ~r.settled /\ r.told = 0
    /\ r.session = "working" => r.kind = "tmagent"
    /\ r.session \in CodexSteps => r.kind = "codex"

----------------------------------------------------------------------------
\* The operations on a runtime.

LEMMA StatusSets ==
    /\ ActiveStatuses \cap FinishedStatuses = {}
    /\ "unknown" \notin ActiveStatuses \cup FinishedStatuses
    /\ "refused" \notin ActiveStatuses \cup FinishedStatuses
    /\ "active" \notin ActiveStatuses \cup FinishedStatuses \cup {"unknown", "refused"}
BY DEF ActiveStatuses, FinishedStatuses

LEMMA Bounds ==
    /\ {MaxActive, MaxStored, Soft, Hard, Stall} \subseteq Nat
    /\ 0 \in 0..Hard /\ 0 \in 0..Stall
BY SchedulerAssumption DEF SchedulerAssumption

LEMMA ActivityType ==
    ASSUME NEW r \in Runtime, NEW st \in ActiveStatuses
    PROVE  [r EXCEPT !.idle = 0, !.stall = FALSE, !.status = st] \in Runtime
BY Bounds DEF Runtime

LEMMA SettledType ==
    ASSUME NEW r \in Runtime, NEW st \in FinishedStatuses
    PROVE  [r EXCEPT !.settled = TRUE, !.session = "none", !.told = 1, !.soft = FALSE,
                     !.stall = FALSE, !.age = 0, !.idle = 0, !.status = st] \in Runtime
<1>1. 1 \in 0..2 /\ 0 \in 0..Hard /\ 0 \in 0..Stall /\ "none" \in SessionSteps
  BY Bounds DEF SessionSteps
<1> QED
  BY <1>1 DEF Runtime

\* A job under way has its first state.
LEMMA LiveFacts ==
    ASSUME NEW r, Sound(r), Live(r)
    PROVE  r \in Runtime /\ ~r.settled /\ ~r.wanted /\ r.told = 0 /\ r.status \in ActiveStatuses
           /\ Stoppable(r) /\ r.session # "none"
BY DEF Sound, Live, Stoppable, ActiveStatuses

\* Progress changes nothing the board sees.
LEMMA ActivityGoes ==
    ASSUME NEW r, Sound(r), Live(r)
    PROVE  /\ Goes(r, Activity(r)) /\ Live(Activity(r)) /\ Stays(r, Activity(r))
           /\ Activity(r).session = r.session /\ Activity(r).kind = r.kind
<1> DEFINE q == Activity(r)
<1>2. q = [r EXCEPT !.idle = 0, !.stall = FALSE, !.status = IF r.soft THEN "running" ELSE @]
  BY LiveFacts DEF Activity
<1>3. q \in Runtime
  <2> DEFINE st == IF r.soft THEN "running" ELSE r.status
  <2>1. q = [r EXCEPT !.idle = 0, !.stall = FALSE, !.status = st]
    BY <1>2
  <2>2. st \in ActiveStatuses
    BY LiveFacts DEF ActiveStatuses
  <2> HIDE DEF q, st
  <2>3. r \in Runtime
    BY LiveFacts
  <2> QED
    BY <2>1, <2>2, <2>3, ActivityType
<1>4. /\ q.settled = r.settled /\ q.wanted = r.wanted /\ q.told = r.told
      /\ q.session = r.session /\ q.kind = r.kind /\ q.status \in ActiveStatuses
  BY <1>2, LiveFacts DEF Runtime, ActiveStatuses
<1> HIDE DEF q
<1>5. Sound(q) /\ Live(q)
  BY <1>3, <1>4, LiveFacts DEF Sound, Live, Quiet, ActiveStatuses
<1>6. Stays(r, q)
  BY <1>4, <1>5 DEF Stays, BoardOf
<1> QED
  BY <1>4, <1>5, <1>6 DEF Goes, q

\* The outcome of a job under way, with or without a session.
LEMMA SettleOutcome ==
    ASSUME NEW r, Stoppable(r), NEW success \in BOOLEAN,
           r.wanted /\ success => r.kind = "codex"
    PROVE  /\ Sound(Settle(r, success)) /\ Settle(r, success).settled
           /\ Settle(r, success).status \in FinishedStatuses
<1> DEFINE q == Settle(r, success)
<1>1. q = [r EXCEPT !.settled = TRUE, !.session = "none", !.told = @ + 1,
              !.soft = FALSE, !.stall = FALSE, !.age = 0, !.idle = 0,
              !.status = IF success THEN "completed"
                         ELSE IF r.wanted THEN "cancelled" ELSE "failed"]
  BY DEF Settle, Settled, Stoppable
<1>2. /\ q.settled = TRUE /\ q.session = "none" /\ q.told = 1 /\ q.soft = FALSE
      /\ q.stall = FALSE /\ q.age = 0 /\ q.idle = 0 /\ q.kind = r.kind /\ q.wanted = r.wanted
      /\ q.status = IF success THEN "completed" ELSE IF r.wanted THEN "cancelled" ELSE "failed"
  BY <1>1 DEF Runtime, Stoppable
<1>3. q \in Runtime
  <2> DEFINE st == IF success THEN "completed" ELSE IF r.wanted THEN "cancelled" ELSE "failed"
  <2>1. q = [r EXCEPT !.settled = TRUE, !.session = "none", !.told = 1, !.soft = FALSE,
                      !.stall = FALSE, !.age = 0, !.idle = 0, !.status = st]
    BY <1>1 DEF Stoppable, Runtime
  <2>2. st \in FinishedStatuses
    BY DEF FinishedStatuses
  <2> HIDE DEF q, st
  <2>3. r \in Runtime
    BY DEF Stoppable
  <2> QED
    BY <2>1, <2>2, <2>3, SettledType
<1> HIDE DEF q
<1>4. Sound(q)
  BY <1>2, <1>3 DEF Sound, Live, Quiet, Stoppable, ActiveStatuses, CodexSteps, Runtime
<1> QED
  BY <1>2, <1>4 DEF q, FinishedStatuses

LEMMA SettleGoes ==
    ASSUME NEW r, Sound(r), Live(r), NEW success \in BOOLEAN
    PROVE  Goes(r, Settle(r, success)) /\ Ends(r, Settle(r, success))
BY LiveFacts, SettleOutcome DEF Goes, Ends

\* Stopping a session settles its job, whatever it calls back.
LEMMA StopOutcome ==
    ASSUME NEW r, Stoppable(r), NEW q \in StopAndSettle(r)
    PROVE  Sound(q) /\ q.settled /\ q.status \in FinishedStatuses
<1>1. PICK what \in Callbacks(r) : q = Settle(Called([r EXCEPT !.session = "none"], what), FALSE)
  BY DEF StopAndSettle
<1> DEFINE c == [r EXCEPT !.session = "none"]
<1>2. /\ Stoppable(c) /\ c.wanted = r.wanted /\ c.kind = r.kind
  BY DEF Stoppable, Runtime, SessionSteps, CodexSteps
<1>3. what \in {"nothing", "activity", "failure", "success"}
  BY <1>1 DEF Callbacks
<1> HIDE DEF c
<1>4. CASE what = "nothing"
  <2>1. q = Settle(c, FALSE)
    BY <1>1, <1>4 DEF Called, c
  <2> QED
    BY <1>2, <2>1, SettleOutcome
<1>5. CASE what = "activity"
  <2>1. q = Settle(Activity(c), FALSE)
    BY <1>1, <1>5 DEF Called, c
  <2>2. Activity(c) = [c EXCEPT !.idle = 0, !.stall = FALSE,
                                !.status = IF c.soft THEN "running" ELSE @]
    BY <1>2 DEF Activity, Stoppable
  <2>3. Stoppable(Activity(c))
    BY ZenonT(60), <1>2, <2>2, Bounds DEF Stoppable, Runtime, ActiveStatuses
  <2> QED
    BY <2>1, <2>3, SettleOutcome
<1>6. CASE what = "failure"
  <2>1. q = Settle(Settle(c, FALSE), FALSE)
    BY <1>1, <1>6 DEF Called, c
  <2>2. Settle(c, FALSE).settled
    BY <1>2, SettleOutcome
  <2>3. q = Settle(c, FALSE)
    BY <2>1, <2>2 DEF Settle
  <2> QED
    BY <1>2, <2>3, SettleOutcome
<1>7. CASE what = "success"
  <2>1. r.session \in {"turn", "running"}
    BY <1>1, <1>7 DEF Callbacks
  <2>2. r.kind = "codex"
    BY <2>1 DEF Stoppable, CodexSteps
  <2>3. q = Settle(Settle(c, TRUE), FALSE)
    BY <1>1, <1>7 DEF Called, c
  <2>4. Settle(c, TRUE).settled
    BY <1>2, <2>2, SettleOutcome
  <2>5. q = Settle(c, TRUE)
    BY <2>3, <2>4 DEF Settle
  <2> QED
    BY <1>2, <2>2, <2>5, SettleOutcome
<1> QED
  BY <1>3, <1>4, <1>5, <1>6, <1>7

----------------------------------------------------------------------------
\* The watchdog.

LEMMA SoftTimeoutGoes ==
    ASSUME NEW r, Sound(r), Live(r)
    PROVE  /\ Sound(SoftTimeout(r)) /\ Live(SoftTimeout(r)) /\ Stays(r, SoftTimeout(r))
           /\ SoftTimeout(r).session = r.session
<1> DEFINE q == SoftTimeout(r)
<1>1. CASE q = r
  BY <1>1 DEF Stays
<1>2. CASE q = [r EXCEPT !.soft = TRUE, !.stall = FALSE, !.status = "soft_timeout"]
  <2>1. q \in Runtime
    BY ZenonT(60), <1>2, LiveFacts DEF Runtime, ActiveStatuses
  <2>2. /\ q.settled = r.settled /\ q.wanted = r.wanted /\ q.told = r.told
        /\ q.session = r.session /\ q.kind = r.kind /\ q.status \in ActiveStatuses
    BY <1>2, LiveFacts DEF Runtime, ActiveStatuses
  <2> HIDE DEF q
  <2>3. Sound(q) /\ Live(q)
    BY <2>1, <2>2, LiveFacts DEF Sound, Live, Quiet, ActiveStatuses
  <2> QED
    BY <2>2, <2>3 DEF Stays, BoardOf, q
<1> QED
  BY <1>1, <1>2 DEF SoftTimeout

LEMMA StallNoticeGoes ==
    ASSUME NEW r, Sound(r), Live(r)
    PROVE  Sound(StallNotice(r)) /\ Live(StallNotice(r)) /\ Stays(r, StallNotice(r))
<1> DEFINE q == StallNotice(r)
<1>1. CASE q = r
  BY <1>1 DEF Stays
<1>2. CASE q = [r EXCEPT !.stall = TRUE, !.status = "soft_timeout"]
  <2>1. q \in Runtime
    BY ZenonT(60), <1>2, LiveFacts DEF Runtime, ActiveStatuses
  <2>2. /\ q.settled = r.settled /\ q.wanted = r.wanted /\ q.told = r.told
        /\ q.session = r.session /\ q.kind = r.kind /\ q.status \in ActiveStatuses
    BY <1>2, LiveFacts DEF Runtime, ActiveStatuses
  <2> HIDE DEF q
  <2>3. Sound(q) /\ Live(q)
    BY <2>1, <2>2, LiveFacts DEF Sound, Live, Quiet, ActiveStatuses
  <2> QED
    BY <2>2, <2>3 DEF Stays, BoardOf, q
<1> QED
  BY <1>1, <1>2 DEF StallNotice

\* A step of the watchdog gives notice or, at the hard limit, settles the job.
LEMMA WatchdogGoes ==
    ASSUME NEW r, Sound(r), Live(r), NEW q \in AfterWatchdog(r)
    PROVE  Goes(r, q)
<1> DEFINE s == SoftTimeout(r)
<1>1. Sound(s) /\ Live(s) /\ Stays(r, s)
  BY SoftTimeoutGoes
<1>2. r.session # "none"
  BY LiveFacts
<1> HIDE DEF s
<1>3. CASE q \in StopAndSettle(s)
  BY <1>1, <1>3, LiveFacts, StopOutcome DEF Goes, Ends
<1>4. CASE q = StallNotice(s)
  BY <1>1, <1>4, StallNoticeGoes DEF Goes, Stays
<1> QED
  BY <1>2, <1>3, <1>4 DEF AfterWatchdog, s

----------------------------------------------------------------------------
\* The history.

LEMMA SmallestOf ==
    ASSUME NEW S \in SUBSET Nat, S # {}
    PROVE  \E m \in S : \A k \in S : m =< k
<1>1. PICK m \in S : \A k \in S : <<k, m>> \notin OpToRel(<, Nat)
  BY NatLessThanWellFounded, WFMin
<1>2. \A k \in S : ~(k < m)
  BY <1>1 DEF OpToRel
<1> QED
  BY <1>2

LEMMA RemoveAtProperties ==
    ASSUME NEW S, NEW s \in Seq(S), NEW i \in 1..Len(s)
    PROVE  /\ RemoveAt(s, i) \in Seq(S)
           /\ Len(RemoveAt(s, i)) = Len(s) - 1
           /\ \A k \in 1..(Len(s) - 1) :
                 RemoveAt(s, i)[k] = IF k < i THEN s[k] ELSE s[k + 1]
<1> DEFINE p == SubSeq(s, 1, i - 1)
           q == SubSeq(s, i + 1, Len(s))
<1>1. \A k \in 1..Len(s) : s[k] \in S
  OBVIOUS
<1>2. /\ p \in Seq(S) /\ Len(p) = i - 1
      /\ \A k \in 1..(i - 1) : p[k] = s[k]
  <2>1. /\ p \in Seq(S) /\ Len(p) = (IF 1 =< i - 1 THEN i - 1 - 1 + 1 ELSE 0)
        /\ \A k \in 1..(i - 1 - 1 + 1) : p[k] = s[1 + k - 1]
    <3>1. i - 1 \in Int /\ 1 \in Int /\ \A k \in 1..(i - 1) : s[k] \in S
      BY <1>1
    <3> QED
      BY <3>1, SubSeqProperties
  <2> HIDE DEF p
  <2>2. i \in Nat /\ 1 =< i /\ i - 1 - 1 + 1 = i - 1 /\ \A k \in 1..(i - 1) : 1 + k - 1 = k
    OBVIOUS
  <2>3. Len(p) = i - 1
    BY <2>1, <2>2
  <2> QED
    BY <2>1, <2>2, <2>3
<1>3. /\ q \in Seq(S) /\ Len(q) = Len(s) - i
      /\ \A k \in 1..(Len(s) - i) : q[k] = s[i + k]
  <2>1. /\ q \in Seq(S)
        /\ Len(q) = (IF i + 1 =< Len(s) THEN Len(s) - (i + 1) + 1 ELSE 0)
        /\ \A k \in 1..(Len(s) - (i + 1) + 1) : q[k] = s[i + 1 + k - 1]
    <3>1. i + 1 \in Int /\ Len(s) \in Int /\ \A k \in (i + 1)..Len(s) : s[k] \in S
      BY <1>1
    <3> QED
      BY <3>1, SubSeqProperties
  <2> HIDE DEF q
  <2> QED
    BY <2>1
<1>4. RemoveAt(s, i) = p \o q
  BY DEF RemoveAt
<1> HIDE DEF p, q
<1>5. /\ p \o q \in Seq(S)
      /\ Len(p \o q) = Len(p) + Len(q)
      /\ \A k \in 1..(Len(p) + Len(q)) :
            (p \o q)[k] = IF k =< Len(p) THEN p[k] ELSE q[k - Len(p)]
  BY <1>2, <1>3, ConcatProperties
<1> QED
  BY <1>2, <1>3, <1>4, <1>5

\* Without one of its elements a list that holds each once still holds the others.
LEMMA RemoveAtKeeps ==
    ASSUME NEW S, NEW s \in Seq(S), NEW i \in 1..Len(s),
           \A a, b \in DOMAIN s : s[a] = s[b] => a = b
    PROVE  LET q == RemoveAt(s, i) IN
           /\ q \in Seq(S) /\ Len(q) = Len(s) - 1
           /\ \A a, b \in DOMAIN q : q[a] = q[b] => a = b
           /\ \A k \in DOMAIN q : \E m \in DOMAIN s : m # i /\ q[k] = s[m]
           /\ \A m \in DOMAIN s : m # i => \E k \in DOMAIN q : q[k] = s[m]
<1> DEFINE q == RemoveAt(s, i)
           n == Len(s) - 1
           at(k) == IF k < i THEN k ELSE k + 1
<1>1. /\ n \in Nat /\ i \in Nat /\ 1 =< i /\ i =< n + 1
      /\ Len(s) = n + 1 /\ DOMAIN s = 1..(n + 1)
  OBVIOUS
<1>2. /\ q \in Seq(S) /\ Len(q) = n
      /\ \A k \in 1..n : q[k] = s[at(k)]
  <2>1. /\ q \in Seq(S) /\ Len(q) = n
        /\ \A k \in 1..n : q[k] = IF k < i THEN s[k] ELSE s[k + 1]
    BY RemoveAtProperties
  <2> QED
    BY <2>1
<1>3. DOMAIN q = 1..n
  BY <1>2
<1> HIDE DEF n, q
<1>4. \A k \in 1..n : at(k) \in 1..(n + 1) /\ at(k) # i
  BY <1>1
<1>5. \A a, b \in 1..n : at(a) = at(b) => a = b
  BY <1>1
<1>6. \A m \in 1..(n + 1) : m # i => \E k \in 1..n : at(k) = m
  <2> TAKE m \in 1..(n + 1)
  <2> HAVE m # i
  <2>1. CASE m < i
    <3>1. m \in 1..n /\ at(m) = m
      BY <1>1, <2>1
    <3> QED
      BY <3>1
  <2>2. CASE i < m
    <3>1. m - 1 \in 1..n /\ at(m - 1) = m
      BY <1>1, <2>2
    <3> QED
      BY <3>1
  <2> QED
    BY <1>1, <2>1, <2>2
<1> HIDE DEF at
<1>7. \A a, b \in DOMAIN q : q[a] = q[b] => a = b
  BY <1>1, <1>2, <1>3, <1>4, <1>5
<1>8. \A k \in DOMAIN q : \E m \in DOMAIN s : m # i /\ q[k] = s[m]
  BY <1>1, <1>2, <1>3, <1>4
<1>9. \A m \in DOMAIN s : m # i => \E k \in DOMAIN q : q[k] = s[m]
  <2> TAKE m \in DOMAIN s
  <2> HAVE m # i
  <2>1. PICK k \in 1..n : at(k) = m
    BY <1>1, <1>6
  <2> QED
    BY <1>2, <1>3, <2>1
<1> QED
  BY <1>2, <1>7, <1>8, <1>9 DEF n, q

\* When all slots are not taken, a full history holds a finished job.
LEMMA FinishedListed ==
    ASSUME IInv, Len(order) = MaxStored, Cardinality(ActiveJobs) < MaxActive
    PROVE  \E i \in DOMAIN order : rt[order[i]].status \in FinishedStatuses
<1> SUFFICES ASSUME \A i \in DOMAIN order : rt[order[i]].status \notin FinishedStatuses
             PROVE  FALSE
  OBVIOUS
<1>1. order \in Seq(Jobs) /\ DOMAIN order = 1..MaxStored
  BY DEF IInv, OrderSound
<1>2. \A i \in DOMAIN order : ~rt[order[i]].settled
  <2> TAKE i \in DOMAIN order
  <2>1. order[i] \in Jobs
    BY <1>1
  <2>2. Sound(rt[order[i]]) /\ ~Quiet(rt[order[i]])
    BY <2>1 DEF IInv, OrderSound
  <2> QED
    BY <2>1, <2>2 DEF Sound, Live, Quiet, Runtime
<1>3. Range(order) = ActiveJobs
  BY <1>2 DEF Range, ActiveJobs
<1>4. order \in Injection(1..MaxStored, Range(order))
  <2>1. order \in [1..MaxStored -> Range(order)]
    BY <1>1 DEF Range
  <2>2. \A i, k \in 1..MaxStored : order[i] = order[k] => i = k
    BY <1>1 DEF IInv, OrderSound
  <2> QED
    BY <2>1, <2>2 DEF Injection, IsInjective
<1>5. IsFiniteSet(Jobs) /\ MaxStored \in Nat /\ MaxActive \in Nat /\ MaxActive =< MaxStored
  BY SchedulerAssumption DEF SchedulerAssumption
<1>6. IsFiniteSet(Range(order))
  <2>1. Range(order) \in SUBSET Jobs
    BY <1>1 DEF Range
  <2> QED
    BY <1>5, <2>1, FS_Subset
<1>7. Cardinality(1..MaxStored) =< Cardinality(Range(order))
  BY <1>4, <1>6, FS_Injection
<1>8. Cardinality(1..MaxStored) = MaxStored
  BY <1>5, FS_Interval
<1>9. Cardinality(Range(order)) \in Nat
  BY <1>6, FS_CardinalityType
<1> QED
  BY <1>3, <1>5, <1>7, <1>8, <1>9

\* A new job is listed, and only a finished one leaves the history for it.
LEMMA PruneKeeps ==
    ASSUME IInv, Cardinality(ActiveJobs) < MaxActive,
           NEW j \in Jobs, rt[j].status = "unknown",
           NEW r, r.status = "running"
    PROVE  LET left == Prune(Append(order, j), [rt EXCEPT ![j] = r]) IN
           /\ left \in Seq(Jobs)
           /\ Len(left) =< MaxStored
           /\ \A i, k \in DOMAIN left : left[i] = left[k] => i = k
           /\ \A i \in DOMAIN left : left[i] = j \/ \E k \in DOMAIN order : left[i] = order[k]
           /\ \E i \in DOMAIN left : left[i] = j
           /\ \A k \in DOMAIN order : rt[order[k]].status \notin FinishedStatuses =>
                 \E i \in DOMAIN left : left[i] = order[k]
<1> DEFINE left == Prune(Append(order, j), [rt EXCEPT ![j] = r])
           list == Append(order, j)
           runtimes == [rt EXCEPT ![j] = r]
           finished == {i \in DOMAIN list : runtimes[list[i]].status \in FinishedStatuses}
<1>1. /\ order \in Seq(Jobs) /\ Len(order) \in Nat /\ Len(order) =< MaxStored
      /\ \A i, k \in DOMAIN order : order[i] = order[k] => i = k
      /\ MaxStored \in Nat \ {0} /\ rt \in [Jobs -> Runtime]
  BY SchedulerAssumption DEF IInv, OrderSound, SchedulerAssumption
<1>2. \A i \in DOMAIN order : order[i] \in Jobs \ {j}
  BY <1>1 DEF IInv, OrderSound, Quiet
<1>3. /\ list \in Seq(Jobs) /\ Len(list) = Len(order) + 1
      /\ \A i \in 1..Len(order) : list[i] = order[i]
      /\ list[Len(order) + 1] = j
  BY <1>1
<1>4. \A i, k \in 1..Len(list) : list[i] = list[k] => i = k
  BY <1>1, <1>2, <1>3
<1>5. CASE Len(list) =< MaxStored
  <2>1. left = list
    BY <1>5 DEF Prune
  <2> HIDE DEF list, left
  <2>2. DOMAIN list = 1..(Len(order) + 1) /\ DOMAIN order = 1..Len(order)
    BY <1>1, <1>3
  <2>3. \A i \in DOMAIN list : i \in DOMAIN order \/ i = Len(order) + 1
    BY <1>1, <2>2
  <2>4. \A i \in DOMAIN order : i \in DOMAIN list
    BY <1>1, <2>2
  <2>5. Len(order) + 1 \in DOMAIN list
    BY <1>1, <2>2
  <2>6. Len(list) = Len(order) + 1 /\ DOMAIN list = 1..Len(list)
    BY <1>3
  <2>7. /\ left \in Seq(Jobs)
        /\ Len(left) =< MaxStored
        /\ \A i, k \in DOMAIN left : left[i] = left[k] => i = k
    BY <1>3, <1>4, <1>5, <2>1, <2>6
  <2>8. \A i \in DOMAIN left : left[i] = j \/ \E k \in DOMAIN order : left[i] = order[k]
    BY <1>3, <2>1, <2>2, <2>3
  <2>9. \E i \in DOMAIN left : left[i] = j
    BY <1>3, <2>1, <2>5
  <2>10. ASSUME NEW k \in DOMAIN order PROVE \E i \in DOMAIN left : left[i] = order[k]
    BY <1>3, <2>1, <2>2, <2>4
  <2> QED
    BY <2>7, <2>8, <2>9, <2>10 DEF left
<1>6. CASE ~(Len(list) =< MaxStored)
  <2>1. Len(order) = MaxStored
    BY <1>1, <1>3, <1>6
  <2>2. PICK f \in DOMAIN order : rt[order[f]].status \in FinishedStatuses
    BY <2>1, FinishedListed
  <2>3. f \in finished
    BY <1>1, <1>2, <1>3, <2>2
  <2>4. \E v \in finished : \A k \in finished : v =< k
    <3>1. finished \in SUBSET Nat
      BY <1>3
    <3> HIDE DEF finished
    <3> QED
      BY <2>3, <3>1, SmallestOf
  <2> DEFINE victim == CHOOSE i \in finished : \A k \in finished : i =< k
  <2>5. left = RemoveAt(list, victim)
    BY <1>6, <2>3 DEF Prune
  <2>6. victim \in finished
    BY <2>4
  <2> HIDE DEF victim
  <2>7. /\ victim \in 1..Len(order)
        /\ rt[order[victim]].status \in FinishedStatuses
    <3>1. victim \in 1..Len(list) /\ runtimes[list[victim]].status \in FinishedStatuses
      BY <1>3, <2>6
    <3>2. runtimes[j].status \notin FinishedStatuses
      BY <1>1 DEF FinishedStatuses
    <3>3. victim # Len(order) + 1
      BY <1>3, <3>1, <3>2
    <3>4. victim \in 1..Len(order)
      BY <1>1, <1>3, <3>1, <3>3
    <3> QED
      BY <1>1, <1>2, <1>3, <3>1, <3>4
  <2> HIDE DEF finished, list, left
  <2>8. DOMAIN list = 1..Len(list) /\ victim \in 1..Len(list) /\ DOMAIN order = 1..Len(order)
    BY <1>1, <1>3, <2>7
  <2>9. /\ left \in Seq(Jobs) /\ Len(left) = Len(list) - 1
        /\ \A i, k \in DOMAIN left : left[i] = left[k] => i = k
        /\ \A i \in DOMAIN left : \E m \in DOMAIN list : m # victim /\ left[i] = list[m]
        /\ \A m \in DOMAIN list : m # victim => \E i \in DOMAIN left : left[i] = list[m]
    <3>1. list \in Seq(Jobs) /\ \A i, k \in DOMAIN list : list[i] = list[k] => i = k
      BY <1>3, <1>4, <2>8
    <3> DEFINE q == RemoveAt(list, victim)
    <3>2. /\ q \in Seq(Jobs) /\ Len(q) = Len(list) - 1
          /\ \A i, k \in DOMAIN q : q[i] = q[k] => i = k
          /\ \A i \in DOMAIN q : \E m \in DOMAIN list : m # victim /\ q[i] = list[m]
          /\ \A m \in DOMAIN list : m # victim => \E i \in DOMAIN q : q[i] = list[m]
      BY <2>8, <3>1, RemoveAtKeeps
    <3>3. left = q
      BY <2>5
    <3> HIDE DEF q
    <3> QED
      BY <3>2, <3>3
  <2>10. /\ \A m \in DOMAIN list : list[m] = j \/ \E k \in DOMAIN order : list[m] = order[k]
         /\ \A k \in DOMAIN order : k \in DOMAIN list /\ list[k] = order[k]
         /\ Len(list) \in DOMAIN list /\ list[Len(list)] = j /\ Len(list) # victim
    BY <1>1, <1>3, <2>7, <2>8
  <2>11. Len(left) =< MaxStored
    <3>1. Len(left) = Len(order)
      BY <1>1, <1>3, <2>9
    <3> QED
      BY <1>1, <3>1
  <2>12. \A k \in DOMAIN order : rt[order[k]].status \notin FinishedStatuses => k # victim
    BY <2>7
  <2>13. \A i \in DOMAIN left : left[i] = j \/ \E k \in DOMAIN order : left[i] = order[k]
    BY <2>9, <2>10
  <2>14. \E i \in DOMAIN left : left[i] = j
    BY <2>9, <2>10
  <2>15. ASSUME NEW k \in DOMAIN order, rt[order[k]].status \notin FinishedStatuses
         PROVE  \E i \in DOMAIN left : left[i] = order[k]
    BY <2>9, <2>10, <2>12, <2>15
  <2> QED
    BY <2>9, <2>11, <2>13, <2>14, <2>15 DEF left
<1> QED
  BY <1>5, <1>6

----------------------------------------------------------------------------
\* The steps.

\* One job under way takes a step; the history stays as it is.
OneGoes ==
    /\ \E j \in Jobs : \E q \in Runtime :
          Live(rt[j]) /\ Goes(rt[j], q) /\ rt' = [rt EXCEPT ![j] = q]
    /\ UNCHANGED order

LEMMA SessionLive ==
    ASSUME IInv, NEW j \in Jobs, rt[j].session # "none"
    PROVE  Sound(rt[j]) /\ Live(rt[j])
BY DEF IInv, Sound

LEMMA GoesOne ==
    ASSUME IInv, NEW j \in Jobs, Live(rt[j]), NEW q, Goes(rt[j], q),
           rt' = [rt EXCEPT ![j] = q], UNCHANGED order
    PROVE  OneGoes
<1>1. q \in Runtime
  BY DEF Goes, Sound
<1> QED
  BY <1>1 DEF OneGoes

LEMMA MarkStoppable ==
    ASSUME NEW r \in Runtime, Stoppable(r)
    PROVE  Stoppable(MarkCancelled(r))
<1>1. MarkCancelled(r) \in Runtime
  BY DEF MarkCancelled, Runtime
<1> QED
  BY <1>1 DEF Stoppable, MarkCancelled, Runtime

LEMMA CancelGoes ==
    ASSUME IInv, NEW j \in Jobs, CancelJob(j)
    PROVE  OneGoes
<1>1. PICK q \in StopAndSettle(MarkCancelled(rt[j])) : rt' = [rt EXCEPT ![j] = q]
  BY DEF CancelJob
<1>2. PICK i \in DOMAIN order : order[i] = j
  BY DEF CancelJob, Range
<1>3. Sound(rt[j]) /\ Live(rt[j])
  BY <1>2 DEF IInv, OrderSound, CancelJob, Live
<1>4. Stoppable(MarkCancelled(rt[j]))
  BY <1>3, LiveFacts, MarkStoppable
<1>5. Goes(rt[j], q)
  BY <1>1, <1>3, <1>4, StopOutcome DEF Goes, Ends
<1> QED
  BY <1>1, <1>3, <1>5, GoesOne DEF CancelJob

LEMMA ChildActivityGoes ==
    ASSUME IInv, NEW j \in Jobs, ChildActivity(j)
    PROVE  OneGoes
<1>1. rt[j].session # "none" /\ rt' = [rt EXCEPT ![j] = Activity(rt[j])]
  BY DEF ChildActivity
<1> QED
  BY <1>1, SessionLive, ActivityGoes, GoesOne DEF ChildActivity

\* The session of a codex job goes on to a step of its own.
LEMMA CodexStepSound ==
    ASSUME NEW r, Sound(r), Live(r), r.kind = "codex", NEW step \in CodexSteps
    PROVE  Goes(r, [r EXCEPT !.session = step])
<1> DEFINE q == [r EXCEPT !.session = step]
<1>1. step \in SessionSteps /\ step # "none" /\ step # "working"
  BY DEF SessionSteps, CodexSteps
<1>2. q \in Runtime
  BY <1>1, LiveFacts DEF Runtime
<1>3. /\ q.settled = r.settled /\ q.wanted = r.wanted /\ q.told = r.told
      /\ q.session = step /\ q.kind = r.kind /\ q.status = r.status
  BY LiveFacts DEF Runtime
<1> HIDE DEF q
<1>4. Sound(q) /\ Live(q)
  BY <1>1, <1>2, <1>3, LiveFacts DEF Sound, Live, Quiet, ActiveStatuses
<1> QED
  BY <1>3, <1>4 DEF Goes, Stays, BoardOf, q

LEMMA CodexRespondsGoes ==
    ASSUME IInv, NEW j \in Jobs, CodexResponds(j)
    PROVE  OneGoes
<1> DEFINE a == Activity(rt[j])
           step == CASE a.session = "init" -> "thread" [] a.session = "thread" -> "turn"
                     [] OTHER -> "running"
           q == [a EXCEPT !.session = step]
<1>1. rt[j].session \in CodexSteps /\ rt[j].session # "none"
  BY DEF CodexResponds, CodexSteps
<1>2. Sound(rt[j]) /\ Live(rt[j])
  BY <1>1, SessionLive
<1>3. Sound(a) /\ Live(a) /\ Stays(rt[j], a) /\ a.kind = "codex"
  BY <1>1, <1>2, ActivityGoes DEF Goes, Sound
<1>4. step \in CodexSteps
  BY DEF CodexSteps
<1>5. rt' = [rt EXCEPT ![j] = q]
  BY DEF CodexResponds
<1> HIDE DEF a, step
<1>6. Goes(a, q)
  BY <1>3, <1>4, CodexStepSound
<1> HIDE DEF q
<1>7. Goes(rt[j], q)
  BY <1>2, <1>3, <1>6 DEF Goes, Stays, Ends
<1> QED
  BY <1>2, <1>5, <1>7, GoesOne DEF CodexResponds

LEMMA ChildReportsGoes ==
    ASSUME IInv, NEW j \in Jobs, NEW tag \in Tags, NEW whole \in BOOLEAN,
           ChildReports(j, tag, whole)
    PROVE  OneGoes
<1> DEFINE a == IF rt[j].kind = "codex" THEN Activity(rt[j]) ELSE rt[j]
           success == ReportStatus(rt[j].kind, tag, whole) # "BLOCKED"
           q == Settle(a, success)
<1>1. rt[j].session # "none" /\ rt' = [rt EXCEPT ![j] = q] /\ UNCHANGED order
  BY DEF ChildReports
<1>2. Sound(rt[j]) /\ Live(rt[j])
  BY <1>1, SessionLive
<1>3. Sound(a) /\ Live(a)
  BY <1>2, ActivityGoes DEF Goes
<1>4. success \in BOOLEAN
  OBVIOUS
<1> HIDE DEF a, success
<1>5. Goes(a, q) /\ Ends(a, q)
  BY <1>3, <1>4, SettleGoes
<1> HIDE DEF q
<1>6. Goes(rt[j], q)
  BY <1>2, <1>5 DEF Goes, Ends
<1> QED
  BY <1>1, <1>2, <1>6, GoesOne

LEMMA ChildFailsGoes ==
    ASSUME IInv, NEW j \in Jobs, ChildFails(j)
    PROVE  OneGoes
<1>1. rt[j].session # "none" /\ rt' = [rt EXCEPT ![j] = Settle(rt[j], FALSE)]
  BY DEF ChildFails
<1> QED
  BY <1>1, SessionLive, SettleGoes, GoesOne DEF ChildFails

LEMMA CodexExitsGoes ==
    ASSUME IInv, NEW j \in Jobs, CodexExits(j)
    PROVE  OneGoes
<1>1. rt[j].session \in CodexSteps /\ rt[j].session # "none"
  BY DEF CodexExits, CodexSteps
<1>2. Sound(rt[j]) /\ Live(rt[j]) /\ rt[j].kind = "codex"
  BY <1>1, SessionLive DEF Sound
<1>3. rt' = [rt EXCEPT ![j] = [rt[j] EXCEPT !.session = "exited"]]
  BY DEF CodexExits, IInv
<1>4. Goes(rt[j], [rt[j] EXCEPT !.session = "exited"])
  BY <1>2, CodexStepSound DEF CodexSteps
<1> QED
  BY <1>2, <1>3, <1>4, GoesOne DEF CodexExits

LEMMA WatchdogOne ==
    ASSUME IInv, NEW j \in Jobs, Watchdog(j)
    PROVE  OneGoes
<1>1. PICK q \in AfterWatchdog(rt[j]) : rt' = [rt EXCEPT ![j] = q]
  BY DEF Watchdog
<1>2. Sound(rt[j]) /\ Live(rt[j])
  BY DEF Watchdog, Unsettled, Live, Quiet, IInv
<1> QED
  BY <1>1, <1>2, WatchdogGoes, GoesOne DEF Watchdog

\* Every step is one of these.
LEMMA Steps ==
    ASSUME IInv, [Next]_vars
    PROVE  \/ OneGoes
           \/ \E j \in Jobs : \E why \in {"invalid", "backend", "limit"} : Refuse(j, why)
           \/ \E j \in Jobs : \E kind \in Kinds, started \in BOOLEAN : Accept(j, kind, started)
           \/ TimePasses
           \/ UNCHANGED vars
BY CancelGoes, ChildActivityGoes, CodexRespondsGoes, ChildReportsGoes, ChildFailsGoes,
   CodexExitsGoes, WatchdogOne DEF Next

LEMMA OneGoesInv ==
    ASSUME IInv, OneGoes
    PROVE  IInv'
<1>1. PICK j \in Jobs, q \in Runtime :
          Live(rt[j]) /\ Goes(rt[j], q) /\ rt' = [rt EXCEPT ![j] = q]
  BY DEF OneGoes
<1>2. rt \in [Jobs -> Runtime] /\ rt'[j] = q /\ \A k \in Jobs \ {j} : rt'[k] = rt[k]
  BY <1>1 DEF IInv
<1>3. order' = order
  BY DEF OneGoes
<1>4. rt' \in [Jobs -> Runtime]
  BY <1>1, <1>2
<1>5. \A k \in Jobs : Sound(rt'[k])
  BY <1>1, <1>2 DEF IInv, Goes
<1>6. ~Quiet(rt[j]) /\ ~Quiet(q)
  BY <1>1, StatusSets DEF Goes, Stays, Ends, BoardOf, Live, Quiet, FinishedStatuses
<1>7. OrderSound'
  <2>1. /\ order \in Seq(Jobs) /\ Len(order) =< MaxStored
        /\ \A i, k \in DOMAIN order : order[i] = order[k] => i = k
        /\ \A i \in DOMAIN order : order[i] \in Jobs /\ ~Quiet(rt[order[i]])
        /\ \A k \in Jobs : Live(rt[k]) => \E i \in DOMAIN order : order[i] = k
    BY DEF IInv, OrderSound
  <2>2. \A i \in DOMAIN order : ~Quiet(rt'[order[i]])
    BY <1>2, <1>6, <2>1
  <2>3. \A k \in Jobs : Live(rt'[k]) => Live(rt[k])
    BY <1>1, <1>2
  <2> QED
    BY <1>3, <2>1, <2>2, <2>3 DEF OrderSound
<1> QED
  BY <1>4, <1>5, <1>7 DEF IInv

LEMMA QuietFacts ==
    ASSUME NEW r, Sound(r), Quiet(r)
    PROVE  ~Live(r) /\ ~r.settled /\ ~r.wanted /\ r.session = "none" /\ r.told = 0
BY DEF Sound, Live

\* A refused job is known to nobody but the job itself.
LEMMA RefuseGoes ==
    ASSUME NEW r \in Runtime, Sound(r), r.status = "unknown"
    PROVE  LET q == [r EXCEPT !.status = "refused"]
           IN  q \in Runtime /\ Sound(q) /\ ~Live(q) /\ q.status = "refused" /\ q.told = r.told
<1> DEFINE q == [r EXCEPT !.status = "refused"]
<1>1. q \in Runtime
  BY DEF Runtime
<1>2. /\ q.settled = r.settled /\ q.wanted = r.wanted /\ q.told = r.told /\ q.status = "refused"
      /\ q.session = r.session /\ q.kind = r.kind
  BY DEF Runtime
<1>3. Quiet(r) /\ Quiet(q)
  BY <1>2 DEF Quiet
<1> HIDE DEF q
<1>4. Sound(q) /\ ~Live(q)
  BY <1>1, <1>2, <1>3, QuietFacts DEF Sound, Live, ActiveStatuses, CodexSteps
<1> QED
  BY <1>1, <1>2, <1>4 DEF q

LEMMA RefuseInv ==
    ASSUME IInv, NEW j \in Jobs, NEW why, Refuse(j, why)
    PROVE  IInv'
<1> DEFINE q == [rt[j] EXCEPT !.status = "refused"]
<1>1. rt \in [Jobs -> Runtime] /\ rt[j].status = "unknown" /\ Sound(rt[j]) /\ order' = order
  BY DEF Refuse, IInv
<1>2. rt' = [rt EXCEPT ![j] = q]
  BY <1>1 DEF Refuse
<1>3. q \in Runtime /\ Sound(q) /\ ~Live(q)
  BY <1>1, RefuseGoes
<1> HIDE DEF q
<1>4. rt' \in [Jobs -> Runtime] /\ rt'[j] = q /\ \A k \in Jobs \ {j} : rt'[k] = rt[k]
  BY <1>1, <1>2, <1>3
<1>5. \A k \in Jobs : Sound(rt'[k])
  BY <1>3, <1>4 DEF IInv
<1>6. OrderSound'
  <2>1. /\ order \in Seq(Jobs) /\ Len(order) =< MaxStored
        /\ \A i, k \in DOMAIN order : order[i] = order[k] => i = k
        /\ \A i \in DOMAIN order : order[i] \in Jobs /\ ~Quiet(rt[order[i]])
        /\ \A k \in Jobs : Live(rt[k]) => \E i \in DOMAIN order : order[i] = k
    BY DEF IInv, OrderSound
  <2>2. \A i \in DOMAIN order : order[i] # j
    BY <1>1, <2>1 DEF Quiet
  <2>3. \A i \in DOMAIN order : ~Quiet(rt'[order[i]])
    BY <1>4, <2>1, <2>2
  <2>4. \A k \in Jobs : Live(rt'[k]) => Live(rt[k])
    BY <1>3, <1>4
  <2> QED
    BY <1>1, <2>1, <2>3, <2>4 DEF OrderSound
<1> QED
  BY <1>4, <1>5, <1>6 DEF IInv

\* The runtime of a job that is accepted: it works, or has failed to start.
LEMMA NewRuntime ==
    ASSUME NEW kind \in Kinds, NEW started \in BOOLEAN
    PROVE  LET new == [NoRuntime EXCEPT !.status = "running", !.kind = kind,
                          !.session = IF kind = "codex" THEN "init" ELSE "working"]
               q == IF started THEN new ELSE Settle(new, FALSE)
           IN  /\ new.status = "running"
               /\ q \in Runtime /\ Sound(q) /\ ~Quiet(q)
               /\ started  => Live(q) /\ q.told = 0
               /\ ~started => ~Live(q) /\ q.status = "failed" /\ q.told = 1
<1> DEFINE session == IF kind = "codex" THEN "init" ELSE "working"
           new == [NoRuntime EXCEPT !.status = "running", !.kind = kind, !.session = session]
<1>1. /\ new.status = "running" /\ new.kind = kind /\ new.session = session
      /\ new.settled = FALSE /\ new.wanted = FALSE /\ new.told = 0
  BY DEF NoRuntime
<1>2. new \in Runtime
  <2>1. /\ "running" \in ActiveStatuses /\ session \in SessionSteps /\ 0 \in 0..2
        /\ 0 \in 0..Hard /\ 0 \in 0..Stall
    BY Bounds DEF ActiveStatuses, SessionSteps, CodexSteps
  <2> HIDE DEF session
  <2> QED
    BY <2>1 DEF Runtime, NoRuntime
<1>3. /\ session = "working" => kind = "tmagent"
      /\ session \in CodexSteps => kind = "codex"
      /\ session # "none"
  BY DEF CodexSteps, Kinds
<1> HIDE DEF new, session
<1>4. Sound(new) /\ Live(new)
  BY <1>1, <1>2, <1>3 DEF Sound, Live, Quiet, ActiveStatuses
<1>5. ~Quiet(new)
  BY <1>4 DEF Live
<1> DEFINE f == Settle(new, FALSE)
<1>6. f.status = "failed"
  BY <1>1, <1>2 DEF Settle, Settled, Runtime
<1>7. Goes(new, f) /\ Ends(new, f)
  BY <1>4, SettleGoes
<1> HIDE DEF f
<1>8. f \in Runtime /\ Sound(f) /\ ~Quiet(f) /\ ~Live(f) /\ f.told = 1
  BY <1>6, <1>7 DEF Goes, Ends, Sound, Live, Quiet
<1> QED
  BY <1>1, <1>2, <1>4, <1>5, <1>6, <1>8 DEF f, new, session

LEMMA AcceptInv ==
    ASSUME IInv, NEW j \in Jobs, NEW kind \in Kinds, NEW started \in BOOLEAN,
           Accept(j, kind, started)
    PROVE  IInv'
<1> DEFINE new == [NoRuntime EXCEPT !.status = "running", !.kind = kind,
                      !.session = IF kind = "codex" THEN "init" ELSE "working"]
           q == IF started THEN new ELSE Settle(new, FALSE)
<1>1. /\ rt[j].status = "unknown" /\ Cardinality(ActiveJobs) < MaxActive
      /\ order' = Prune(Append(order, j), [rt EXCEPT ![j] = new])
      /\ rt' = [rt EXCEPT ![j] = q]
  BY DEF Accept
<1>2. /\ new.status = "running"
      /\ q \in Runtime /\ Sound(q) /\ ~Quiet(q)
  BY NewRuntime
<1> HIDE DEF new, q
<1>3. /\ order' \in Seq(Jobs)
      /\ Len(order') =< MaxStored
      /\ \A i, k \in DOMAIN order' : order'[i] = order'[k] => i = k
      /\ \A i \in DOMAIN order' : order'[i] = j \/ \E k \in DOMAIN order : order'[i] = order[k]
      /\ \E i \in DOMAIN order' : order'[i] = j
      /\ \A k \in DOMAIN order : rt[order[k]].status \notin FinishedStatuses =>
            \E i \in DOMAIN order' : order'[i] = order[k]
  <2> DEFINE left == Prune(Append(order, j), [rt EXCEPT ![j] = new])
  <2>1. /\ left \in Seq(Jobs)
        /\ Len(left) =< MaxStored
        /\ \A i, k \in DOMAIN left : left[i] = left[k] => i = k
        /\ \A i \in DOMAIN left : left[i] = j \/ \E k \in DOMAIN order : left[i] = order[k]
        /\ \E i \in DOMAIN left : left[i] = j
        /\ \A k \in DOMAIN order : rt[order[k]].status \notin FinishedStatuses =>
              \E i \in DOMAIN left : left[i] = order[k]
    BY ZenonT(60), <1>1, <1>2, PruneKeeps
  <2>2. order' = left
    BY <1>1
  <2> HIDE DEF left
  <2> QED
    BY <2>1, <2>2
<1>4. /\ rt \in [Jobs -> Runtime]
      /\ rt' \in [Jobs -> Runtime] /\ rt'[j] = q /\ \A k \in Jobs \ {j} : rt'[k] = rt[k]
  BY <1>1, <1>2 DEF IInv
<1>5. \A k \in Jobs : Sound(rt'[k])
  BY <1>2, <1>4 DEF IInv
<1>6. \A i \in DOMAIN order : order[i] \in Jobs /\ ~Quiet(rt[order[i]])
  BY DEF IInv, OrderSound
<1>7. \A i \in DOMAIN order' : ~Quiet(rt'[order'[i]])
  <2> TAKE i \in DOMAIN order'
  <2>1. CASE order'[i] = j
    BY <1>2, <1>4, <2>1
  <2>2. CASE order'[i] # j
    <3>1. PICK k \in DOMAIN order : order'[i] = order[k]
      BY <1>3, <2>2
    <3> QED
      BY <1>4, <1>6, <2>2, <3>1
  <2> QED
    BY <2>1, <2>2
<1>8. ASSUME NEW k \in Jobs, Live(rt'[k]) PROVE \E i \in DOMAIN order' : order'[i] = k
  <2>1. CASE k = j
    BY <1>3, <2>1
  <2>2. CASE k # j
    <3>1. Live(rt[k]) /\ Sound(rt[k])
      BY <1>4, <1>8, <2>2 DEF IInv
    <3>2. PICK i \in DOMAIN order : order[i] = k
      BY <3>1 DEF IInv, OrderSound
    <3>3. rt[k].status \notin FinishedStatuses
      BY <3>1, LiveFacts, StatusSets
    <3> QED
      BY <1>3, <3>2, <3>3
  <2> QED
    BY <2>1, <2>2
<1>9. OrderSound'
  BY <1>3, <1>7, <1>8 DEF OrderSound
<1> QED
  BY <1>4, <1>5, <1>9 DEF IInv

\* Time changes the counters alone.
LEMMA TimeGoes ==
    ASSUME IInv, TimePasses, NEW j \in Jobs
    PROVE  /\ rt'[j] \in Runtime /\ Sound(rt'[j]) /\ Stays(rt[j], rt'[j])
           /\ Live(rt'[j]) = Live(rt[j]) /\ Quiet(rt'[j]) = Quiet(rt[j])
<1> DEFINE r == rt[j]
           age == IF r.age < Hard THEN r.age + 1 ELSE r.age
           idle == IF r.idle < Stall THEN r.idle + 1 ELSE r.idle
<1>1. r \in Runtime /\ Sound(r)
  BY DEF IInv
<1>2. rt'[j] = IF ~Unsettled(j) THEN r ELSE [r EXCEPT !.age = age, !.idle = idle]
  BY DEF TimePasses
<1>3. age \in 0..Hard /\ idle \in 0..Stall
  BY <1>1, Bounds DEF Runtime
<1> HIDE DEF age, idle, r
<1>4. CASE rt'[j] = r
  BY <1>1, <1>4 DEF Stays, r
<1>5. CASE rt'[j] = [r EXCEPT !.age = age, !.idle = idle]
  <2>1. rt'[j] \in Runtime
    BY <1>1, <1>3, <1>5 DEF Runtime
  <2>2. /\ rt'[j].settled = r.settled /\ rt'[j].wanted = r.wanted /\ rt'[j].told = r.told
        /\ rt'[j].session = r.session /\ rt'[j].kind = r.kind /\ rt'[j].status = r.status
    BY <1>1, <1>5 DEF Runtime
  <2>3. Quiet(rt'[j]) = Quiet(r) /\ Live(rt'[j]) = Live(r)
    BY <2>2 DEF Live, Quiet
  <2>4. Sound(rt'[j])
    BY <1>1, <2>1, <2>2, <2>3 DEF Sound
  <2> QED
    BY <2>1, <2>2, <2>3, <2>4 DEF Stays, BoardOf, r
<1> QED
  BY <1>2, <1>4, <1>5

LEMMA TimeInv ==
    ASSUME IInv, TimePasses
    PROVE  IInv'
<1>1. order' = order /\ rt' = [j \in Jobs |-> rt'[j]]
  BY DEF TimePasses
<1>2. \A j \in Jobs : /\ rt'[j] \in Runtime /\ Sound(rt'[j])
                      /\ Live(rt'[j]) = Live(rt[j]) /\ Quiet(rt'[j]) = Quiet(rt[j])
  BY TimeGoes
<1>3. rt' \in [Jobs -> Runtime]
  BY <1>1, <1>2
<1>4. \A i \in DOMAIN order : order[i] \in Jobs
  BY DEF IInv, OrderSound
<1> QED
  BY <1>1, <1>2, <1>3, <1>4 DEF IInv, OrderSound

LEMMA InitInv == Init => IInv
<1> SUFFICES ASSUME Init PROVE IInv
  OBVIOUS
<1>1. NoRuntime \in Runtime /\ Sound(NoRuntime) /\ ~Live(NoRuntime)
  <2>1. NoRuntime \in Runtime
    BY Bounds DEF NoRuntime, Runtime, Kinds, SessionSteps
  <2> QED
    BY <2>1 DEF NoRuntime, Sound, Live, Quiet, ActiveStatuses, CodexSteps
<1>2. order = <<>> /\ MaxStored \in Nat
  BY Bounds DEF Init
<1>3. rt \in [Jobs -> Runtime] /\ \A j \in Jobs : Sound(rt[j]) /\ ~Live(rt[j])
  BY <1>1 DEF Init
<1>4. order \in Seq(Jobs) /\ Len(order) = 0 /\ DOMAIN order = {}
  BY <1>2
<1> QED
  BY <1>2, <1>3, <1>4 DEF IInv, OrderSound

LEMMA InvStep == IInv /\ [Next]_vars => IInv'
<1> SUFFICES ASSUME IInv, [Next]_vars PROVE IInv'
  OBVIOUS
<1>1. CASE UNCHANGED vars
  BY <1>1 DEF vars, IInv, OrderSound
<1> QED
  BY <1>1, Steps, OneGoesInv, RefuseInv, AcceptInv, TimeInv

\* The records of the jobs are sound and the list of jobs has each once, whatever the
\* scheduler, the backends, the user and the clock do (DelegateTaskScheduler).
THEOREM Invariant == Spec => []IInv
BY InitInv, InvStep, PTL DEF Spec

\* Every job that is not settled is listed, active and has a session that can be
\* stopped, and a settled one has none, whatever settled it.
THEOREM JobsAgree == Spec => []JobsSound
<1>1. IInv => JobsSound
  <2> SUFFICES ASSUME IInv PROVE JobsSound
    OBVIOUS
  <2>1. TypeOK
    BY DEF TypeOK, IInv, OrderSound
  <2>2. \A j \in Jobs : Unsettled(j) <=> Live(rt[j])
    BY DEF Unsettled, Live, Quiet
  <2>3. SessionUntilSettled
    BY <2>2 DEF SessionUntilSettled, IInv, Sound
  <2>4. ActiveJobsListed
    BY <2>2 DEF ActiveJobsListed, IInv, Sound, OrderSound, Range
  <2> QED
    BY <2>1, <2>3, <2>4 DEF JobsSound
<1> QED
  BY <1>1, Invariant, PTL

\* A cancelled job is settled and reported as cancelled, and no other job is.
THEOREM CancelIsKept == Spec => []CancelKept
<1>1. IInv => CancelKept
  BY DEF IInv, Sound, CancelKept
<1> QED
  BY <1>1, Invariant, PTL

----------------------------------------------------------------------------
\* The scheduler implements the job board.

Told == [j \in Jobs |-> rt[j].told]

\* What the board sees of one job.
LEMMA BoardFields ==
    ASSUME IInv, NEW j \in Jobs
    PROVE  BoardState[j] = BoardOf(rt[j]) /\ Told[j] = rt[j].told
BY DEF BoardState, BoardOf, Told, Unsettled, Live, Quiet

LEMMA BoardFieldsNext ==
    ASSUME IInv', NEW j \in Jobs
    PROVE  BoardState'[j] = BoardOf(rt'[j]) /\ Told'[j] = rt'[j].told
BY DEF BoardState, BoardOf, Told, Unsettled, Live, Quiet

\* The slots the board counts are those the scheduler counts.
LEMMA SameSlots == ASSUME IInv PROVE Board!Active = ActiveJobs
<1>1. \A j \in Jobs : BoardState[j] = "active" <=> Live(rt[j])
  <2> TAKE j \in Jobs
  <2>1. rt[j].status # "active"
    BY StatusSets DEF IInv, Runtime
  <2> QED
    BY <2>1, BoardFields DEF BoardOf
<1>2. \A j \in Jobs : Live(rt[j]) <=> (j \in Range(order) /\ ~rt[j].settled)
  BY DEF IInv, OrderSound, Range, Live
<1>3. Range(order) \subseteq Jobs
  BY DEF IInv, OrderSound, Range
<1> QED
  BY <1>1, <1>2, <1>3 DEF Board!Active, ActiveJobs

\* A change of one job is a change of one entry of the board.
LEMMA BoardEntry ==
    ASSUME IInv, IInv', NEW j \in Jobs, NEW q, rt' = [rt EXCEPT ![j] = q]
    PROVE  /\ BoardState' = [BoardState EXCEPT ![j] = BoardOf(q)]
           /\ Told' = [Told EXCEPT ![j] = q.told]
<1>1. rt'[j] = q /\ \A k \in Jobs \ {j} : rt'[k] = rt[k]
  BY DEF IInv
<1>2. /\ \A k \in Jobs : BoardState[k] = BoardOf(rt[k]) /\ Told[k] = rt[k].told
      /\ \A k \in Jobs : BoardState'[k] = BoardOf(rt'[k]) /\ Told'[k] = rt'[k].told
  BY BoardFields, BoardFieldsNext
<1>3. /\ BoardState = [k \in Jobs |-> BoardState[k]] /\ BoardState' = [k \in Jobs |-> BoardState'[k]]
      /\ Told = [k \in Jobs |-> Told[k]] /\ Told' = [k \in Jobs |-> Told'[k]]
  BY DEF BoardState, Told
<1> QED
  BY <1>1, <1>2, <1>3

LEMMA SameCardinality == \A S : Board!Cardinality(S) = Cardinality(S)
BY DEF Board!Cardinality, Cardinality

LEMMA BoardInit == Init => Board!Init
BY DEF Init, Board!Init, BoardState, Unsettled, NoRuntime

LEMMA BoardStep == IInv /\ IInv' /\ [Next]_vars => [Board!Next]_(Board!vars)
<1> SUFFICES ASSUME IInv, IInv', [Next]_vars
             PROVE  Board!Next \/ (BoardState' = BoardState /\ Told' = Told)
  BY DEF Board!vars, Told
<1>1. ASSUME NEW j \in Jobs, NEW q, rt' = [rt EXCEPT ![j] = q], Stays(rt[j], q)
      PROVE  BoardState' = BoardState /\ Told' = Told
  <2>1. /\ BoardState' = [BoardState EXCEPT ![j] = BoardState[j]]
        /\ Told' = [Told EXCEPT ![j] = Told[j]]
    BY ZenonT(60), <1>1, BoardEntry, BoardFields DEF Stays
  <2> QED
    BY <2>1 DEF BoardState, Told
<1>2. CASE OneGoes
  <2>1. PICK j \in Jobs, q \in Runtime :
            Live(rt[j]) /\ Goes(rt[j], q) /\ rt' = [rt EXCEPT ![j] = q]
    BY <1>2 DEF OneGoes
  <2>2. CASE Ends(rt[j], q)
    <3>1. BoardOf(q) \in Board!Outcomes /\ q.told = 1
      BY <2>1, <2>2 DEF Goes, Sound, Ends, BoardOf, Live, FinishedStatuses, Board!Outcomes
    <3>2. BoardState[j] = "active"
      BY <2>1, BoardFields DEF BoardOf
    <3>3. /\ BoardState' = [BoardState EXCEPT ![j] = BoardOf(q)]
          /\ Told' = [Told EXCEPT ![j] = q.told]
      BY <2>1, BoardEntry
    <3>4. Board!Settle(j)
      BY <3>1, <3>2, <3>3 DEF Board!Settle, Told
    <3> QED
      BY <3>4 DEF Board!Next
  <2> QED
    BY <1>1, <2>1, <2>2 DEF Goes
<1>3. ASSUME NEW j \in Jobs, NEW why, Refuse(j, why)
      PROVE  Board!Next
  <2> DEFINE q == [rt[j] EXCEPT !.status = "refused"]
  <2>1. rt[j] \in Runtime /\ Sound(rt[j]) /\ rt[j].status = "unknown" /\ ~Live(rt[j])
    BY <1>3, QuietFacts DEF IInv, Refuse, Quiet
  <2>2. rt' = [rt EXCEPT ![j] = q]
    BY <1>3 DEF Refuse, IInv
  <2>3. BoardOf(q) = "refused" /\ q.told = rt[j].told
    BY <2>1, RefuseGoes DEF BoardOf
  <2> HIDE DEF q
  <2>4. BoardState[j] = "unknown" /\ Told[j] = rt[j].told
    BY <2>1, BoardFields DEF BoardOf
  <2>5. /\ BoardState' = [BoardState EXCEPT ![j] = "refused"]
        /\ Told' = [Told EXCEPT ![j] = Told[j]]
    <3>1. /\ BoardState' = [BoardState EXCEPT ![j] = BoardOf(q)]
          /\ Told' = [Told EXCEPT ![j] = q.told]
      BY <2>2, BoardEntry
    <3> QED
      BY <2>3, <2>4, <3>1
  <2>6. Told' = Told
    BY <2>5 DEF Told
  <2>7. Board!Refuse(j)
    BY <2>4, <2>5, <2>6 DEF Board!Refuse, Told
  <2> QED
    BY <2>7 DEF Board!Next
<1>4. ASSUME NEW j \in Jobs, NEW kind \in Kinds, NEW started \in BOOLEAN,
             Accept(j, kind, started)
      PROVE  Board!Next
  <2> DEFINE new == [NoRuntime EXCEPT !.status = "running", !.kind = kind,
                        !.session = IF kind = "codex" THEN "init" ELSE "working"]
             q == IF started THEN new ELSE Settle(new, FALSE)
  <2>1. rt[j].status = "unknown" /\ Sound(rt[j]) /\ ~Live(rt[j]) /\ rt[j].told = 0
    BY <1>4, QuietFacts DEF IInv, Accept, Quiet
  <2>2. Cardinality(Board!Active) < MaxActive /\ rt' = [rt EXCEPT ![j] = q]
    BY <1>4, SameSlots DEF Accept
  <2>3. /\ started  => BoardOf(q) = "active" /\ q.told = 0
        /\ ~started => BoardOf(q) = "failed" /\ q.told = 1
    BY NewRuntime DEF BoardOf
  <2> HIDE DEF q
  <2>4. BoardState[j] = "unknown" /\ Told[j] = 0
    BY <2>1, BoardFields DEF BoardOf
  <2>5. /\ BoardState' = [BoardState EXCEPT ![j] = BoardOf(q)]
        /\ Told' = [Told EXCEPT ![j] = q.told]
    BY <2>2, BoardEntry
  <2>6. CASE started
    <3>1. Told' = Told
      BY <2>3, <2>4, <2>5, <2>6 DEF Told
    <3>2. Board!Accept(j)
      BY <2>2, <2>3, <2>4, <2>5, <2>6, <3>1, SameCardinality DEF Board!Accept, Told
    <3> QED
      BY <3>2 DEF Board!Next
  <2>7. CASE ~started
    <3>1. Board!AcceptFailed(j)
      BY <2>2, <2>3, <2>4, <2>5, <2>7, SameCardinality DEF Board!AcceptFailed, Told
    <3> QED
      BY <3>1 DEF Board!Next
  <2> QED
    BY <2>6, <2>7
<1>5. CASE TimePasses
  <2>1. \A j \in Jobs : BoardOf(rt'[j]) = BoardOf(rt[j]) /\ rt'[j].told = rt[j].told
    BY <1>5, TimeGoes DEF Stays
  <2>2. /\ \A k \in Jobs : BoardState[k] = BoardOf(rt[k]) /\ Told[k] = rt[k].told
        /\ \A k \in Jobs : BoardState'[k] = BoardOf(rt'[k]) /\ Told'[k] = rt'[k].told
    BY BoardFields, BoardFieldsNext
  <2>3. /\ BoardState = [k \in Jobs |-> BoardState[k]] /\ BoardState' = [k \in Jobs |-> BoardState'[k]]
        /\ Told = [k \in Jobs |-> Told[k]] /\ Told' = [k \in Jobs |-> Told'[k]]
    BY DEF BoardState, Told
  <2> QED
    BY <2>1, <2>2, <2>3
<1>6. CASE UNCHANGED vars
  BY <1>6 DEF vars, BoardState, Told, Unsettled
<1> QED
  BY <1>2, <1>3, <1>4, <1>5, <1>6, Steps

\* Every job is refused or holds one of the slots until it is settled; it is
\* settled once, with an outcome that does not change, and its owner is told of it
\* once: the steps of the scheduler are steps of the job board.
THEOREM ImplementsBoard == Spec => Board!Init /\ [][Board!Next]_(Board!vars)
BY Invariant, BoardInit, BoardStep, PTL DEF Spec
=============================================================================
