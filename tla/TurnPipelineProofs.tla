------------------------- MODULE TurnPipelineProofs -------------------------
(***************************************************************************)
(* Proofs about TurnPipeline, for every set of agents and sessions and     *)
(* every bound.  First its type, that an agent works on one turn at a time *)
(* and that the turn of a session does not change while it is active; then *)
(* what speaks of single turns and of the calls the handlers still have to *)
(* make: every accepted turn is accounted for and ends at most once, the   *)
(* turns of a session start in order, the request in flight is the active  *)
(* turn, no wake-up is lost, and the task state of an idle session settles.*)
(***************************************************************************)
EXTENDS TurnPipeline, SequenceTheorems, FiniteSetTheorems, TLAPS

TaskType == [Sessions -> [state : TaskStates, turn : Nat]]

\* The calls on the stack carry what their handlers need.
LEMMA CallTypes ==
    ASSUME NEW c \in Calls
    PROVE  /\ c.call \in {"tryStart", "send", "finished", "failed", "release"}
              => c.session \in Sessions
           /\ c.call \in {"finished", "failed"} => c.turn \in Turn
           /\ c.call \in {"tryAgent", "release"} => c.agent \in Agents
           /\ c.call = "tryAgent" => c.rest \subseteq Sessions
           /\ c.call = "failed" => c.transient \in BOOLEAN
BY DEF Calls

\* The operators that make calls make well-typed ones.
LEMMA CallsMade ==
    /\ \A s \in Sessions : TryStart(s) \in Calls /\ Send(s) \in Calls
    /\ \A a \in Agents : \A rest \in SUBSET Sessions : TryAgent(a, rest) \in Calls
    /\ \A s \in Sessions : \A t \in Turn : Finished(s, t) \in Calls
    /\ \A s \in Sessions : \A t \in Turn : \A b \in BOOLEAN : Failed(s, t, b) \in Calls
    /\ \A a \in Agents : \A s \in Sessions : Release(a, s) \in Calls
BY DEF Calls, TryStart, Send, TryAgent, Finished, Failed, Release

\* What a handler leaves to be started is a sequence of calls.
LEMMA RestartType ==
    ASSUME live \subseteq Sessions, NEW s \in Sessions
    PROVE  Restart(s) \in Seq(Calls)
<1>1. AgentOf[s] \in Agents
  BY PipelineAssumption DEF PipelineAssumption
<1>2. SessionsOf(AgentOf[s]) \subseteq Sessions
  BY DEF SessionsOf
<1> QED
  BY <1>1, <1>2, CallsMade DEF Restart

LEMMA InsertCall ==
    ASSUME NEW S, NEW p \in Seq(S), NEW c \in S, NEW q \in Seq(S)
    PROVE  /\ p \o <<c>> \in Seq(S)
           /\ p \o <<c>> \o q \in Seq(S)
<1>1. <<c>> \in Seq(S)
  OBVIOUS
<1>2. p \o <<c>> \in Seq(S)
  BY <1>1, ConcatProperties
<1> QED
  BY <1>2, ConcatProperties

LEMMA TaskAfterType ==
    ASSUME task \in TaskType, NEW s \in Sessions, NEW state \in TaskStates, NEW t \in Turn
    PROVE  TaskAfter(s, state, t) \in TaskType
BY DEF TaskType, TaskAfter, TurnIdOf, Turn


LEMMA StateType ==
    ASSUME NEW f \in TaskType, NEW s, NEW state \in {"done", "failed"}
    PROVE  [f EXCEPT ![s].state = state] \in TaskType
BY DEF TaskType, TaskStates

LEMMA ExceptType ==
    ASSUME NEW D, NEW R, NEW f \in [D -> R], NEW i, NEW x \in R
    PROVE  [f EXCEPT ![i] = x] \in [D -> R]
OBVIOUS

\* The initial state satisfies the invariant.
LEMMA InitInv == Init => IInv
<1> SUFFICES ASSUME Init PROVE IInv
  OBVIOUS
<1> USE DEF Init
<1>1. TypeOK
  BY PipelineAssumption DEF PipelineAssumption, TypeOK, NoTurn, Turn, Sources, TaskStates
<1>2. RuntimeTagged
  BY DEF RuntimeTagged
<1>3. ReleaseAfterRemoval
  BY DEF ReleaseAfterRemoval
<1>4. OneTurnPerAgent
  BY DEF OneTurnPerAgent, HasActive, NoTurn
<1> QED
  BY <1>1, <1>2, <1>3, <1>4 DEF IInv

LEMMA MergedType == \A t \in Turn : Merged(t) \in Turn /\ Merged(t).id = t.id
BY DEF Merged, Turn

\* Messages and replies arriving keep the type.
LEMMA ArrivalType ==
    ASSUME TypeOK, \/ \E s \in Sessions : MergeMessage(s) \/ EnqueueMessage(s)
                   \/ TeammateReply
    PROVE  TypeOK'
<1> USE PipelineAssumption DEF PipelineAssumption, TypeOK
<1>1. ASSUME NEW s \in Sessions, MergeMessage(s) PROVE TypeOK'
  <2> DEFINE n == Len(queue[s])
  <2>1. n \in 1 .. Len(queue[s]) /\ queue[s] \in Seq(Turn)
    BY <1>1 DEF MergeMessage, Mergeable
  <2>2. queue[s][n] \in Turn
    BY <2>1
  <2>3. Merged(queue[s][n]) \in Turn
    BY <2>2, MergedType
  <2>4. queue' \in [Sessions -> Seq(Turn)]
    BY <1>1, <2>1, <2>3 DEF MergeMessage
  <2>5. task' \in TaskType
    <3>1. task' = TaskAfter(s, "queued", queue[s][n])
      BY <1>1 DEF MergeMessage
    <3> HIDE DEF n
    <3> QED
      BY <2>2, <3>1, TaskAfterType DEF TaskType, TaskStates
  <2> QED
    BY <1>1, <2>4, <2>5 DEF MergeMessage, TaskType
<1>2. ASSUME NEW s \in Sessions, EnqueueMessage(s) PROVE TypeOK'
  <2> DEFINE turn == [id |-> nextTurn, source |-> "user", merged |-> 1]
  <2>1. turn \in Turn
    BY DEF Turn, Sources
  <2>2. queue' = [queue EXCEPT ![s] = Append(@, turn)] /\ task' = TaskAfter(s, "queued", turn)
    BY <1>2 DEF EnqueueMessage, Enqueued
  <2> HIDE DEF turn
  <2>3. queue' \in [Sessions -> Seq(Turn)] /\ task' \in TaskType
    <3>1. queue' \in [Sessions -> Seq(Turn)]
      BY <2>1, <2>2
    <3>2. "queued" \in TaskStates /\ task \in TaskType
      BY DEF TaskStates, TaskType
    <3> QED
      BY <2>1, <2>2, <3>1, <3>2, TaskAfterType
  <2>4. stack' \in Seq(Calls)
    BY <1>2, CallsMade DEF EnqueueMessage
  <2>5. home' \in [TurnIds -> Sessions \cup {NoSession}] /\ nextTurn' \in Nat
    <3>1. home' = [home EXCEPT ![nextTurn] = s]
      BY <1>2 DEF EnqueueMessage
    <3> QED
      BY <1>2, <3>1, ExceptType DEF EnqueueMessage
  <2> QED
    BY <1>2, <2>3, <2>4, <2>5 DEF EnqueueMessage, TaskType
<1>3. CASE TeammateReply
  <2> DEFINE turn == [id |-> nextTurn, source |-> "internal", merged |-> 1]
  <2>1. turn \in Turn /\ current \in Sessions
    BY <1>3 DEF TeammateReply, Turn, Sources
  <2>2. queue' = [queue EXCEPT ![current] = Append(@, turn)]
    BY <1>3 DEF TeammateReply, Enqueued
  <2>3. queue' \in [Sessions -> Seq(Turn)]
    <3> HIDE DEF turn
    <3> QED
      BY <2>1, <2>2
  <2>4. stack' \in Seq(Calls)
    BY <1>3, <2>1, CallsMade DEF TeammateReply
  <2>5. home' \in [TurnIds -> Sessions \cup {NoSession}] /\ nextTurn' \in Nat
    <3>1. home' = [home EXCEPT ![nextTurn] = current]
      BY <1>3 DEF TeammateReply
    <3> QED
      BY <1>3, <2>1, <3>1, ExceptType DEF TeammateReply
  <2> QED
    BY <1>3, <2>3, <2>4, <2>5 DEF TeammateReply
<1> QED
  BY <1>1, <1>2, <1>3

\* The call on top of the stack, and what is left below it.
LEMMA TopCall ==
    ASSUME TypeOK, NEW c, Next1(c)
    PROVE  /\ Head(stack) \in Calls
           /\ Head(stack).call = c
           /\ Tail(stack) \in Seq(Calls)
BY DEF TypeOK, Next1

\* A cleared turn leaves a typed pipeline and lane.
LEMMA ClearType ==
    ASSUME TypeOK, NEW s \in Sessions, ClearTurn(s)
    PROVE  /\ active' \in [Sessions -> Turn]
           /\ lane' \in [Agents -> Sessions \cup {NoSession}]
<1>1. NoTurn \in Turn
  BY DEF NoTurn, Turn, Sources
<1> QED
  BY <1>1 DEF ClearTurn, TypeOK

\* Starting a turn, and handing it to the runtime, keep the type.
LEMMA StartType ==
    ASSUME TypeOK, \/ StartTurn \/ SkipStart \/ SendAccepted \/ SendRefused
                   \/ OfferSession \/ StopOffering
    PROVE  TypeOK'
<1> USE DEF TypeOK
<1>1. CASE StartTurn
  <2> DEFINE s == Head(stack).session
  <2> DEFINE turn == Head(queue[s])
  <2>1. s \in Sessions /\ Tail(stack) \in Seq(Calls)
    BY <1>1, TopCall, CallTypes DEF StartTurn
  <2>2. queue[s] \in Seq(Turn) /\ queue[s] # <<>> /\ AgentOf[s] \in Agents
    BY <1>1, <2>1, PipelineAssumption DEF StartTurn, MayStart, PipelineAssumption
  <2>3. turn \in Turn /\ Tail(queue[s]) \in Seq(Turn)
    BY <2>2
  <2>4. /\ queue' = [queue EXCEPT ![s] = Tail(@)]
        /\ active' = [active EXCEPT ![s] = turn]
        /\ lane' = [lane EXCEPT ![AgentOf[s]] = s]
        /\ runtime' = [runtime EXCEPT ![AgentOf[s]].session = s]
        /\ context' = [context EXCEPT ![s] = replied[s]]
        /\ task' = TaskAfter(s, "running", turn)
        /\ stack' = <<Send(s)>> \o Tail(stack)
    BY <1>1 DEF StartTurn
  <2> HIDE DEF s, turn
  <2>5. queue' \in [Sessions -> Seq(Turn)] /\ active' \in [Sessions -> Turn]
    BY <2>1, <2>3, <2>4
  <2>6. /\ lane' \in [Agents -> Sessions \cup {NoSession}]
        /\ runtime' \in [Agents -> [session : Sessions \cup {NoSession}, turn : Nat]]
        /\ context' \in [Sessions -> SUBSET Nat]
    BY <2>1, <2>2, <2>4
  <2>7. task' \in TaskType
    BY <2>1, <2>3, <2>4, TaskAfterType DEF TaskType, TaskStates
  <2>8. stack' \in Seq(Calls)
    BY <2>1, <2>4, CallsMade
  <2> QED
    BY <1>1, <2>5, <2>6, <2>7, <2>8 DEF StartTurn, TaskType
<1>2. CASE SkipStart
  BY <1>2, TopCall DEF SkipStart, Return
<1>3. CASE SendAccepted
  <2> DEFINE s == Head(stack).session
  <2>1. s \in Sessions /\ stack' \in Seq(Calls)
    BY <1>3, TopCall, CallTypes DEF SendAccepted, Return
  <2>2. active[s].id \in Nat
    BY <2>1 DEF Turn
  <2>3. runtime' \in [Agents -> [session : Sessions \cup {NoSession}, turn : Nat]]
    BY <1>3, <2>1, <2>2 DEF SendAccepted
  <2> QED
    BY <1>3, <2>1, <2>3 DEF SendAccepted
<1>4. CASE SendRefused
  <2> DEFINE s == Head(stack).session
  <2>1. s \in Sessions /\ Tail(stack) \in Seq(Calls)
    BY <1>4, TopCall, CallTypes DEF SendRefused
  <2>2. /\ ClearTurn(s)
        /\ runtime' = [runtime EXCEPT ![AgentOf[s]].turn = 0]
        /\ stack' = Restart(s) \o <<Failed(s, active[s], FALSE)>> \o Tail(stack)
    BY <1>4 DEF SendRefused
  <2> HIDE DEF s
  <2>3. Restart(s) \in Seq(Calls) /\ Failed(s, active[s], FALSE) \in Calls
    BY <2>1, RestartType, CallsMade
  <2>4. stack' \in Seq(Calls)
    BY <2>1, <2>2, <2>3, InsertCall
  <2>5. runtime' \in [Agents -> [session : Sessions \cup {NoSession}, turn : Nat]]
    BY <2>2
  <2> QED
    BY <1>4, <2>1, <2>2, <2>4, <2>5, ClearType DEF SendRefused
<1>5. CASE OfferSession
  <2> DEFINE offer == Head(stack)
  <2>1. offer.agent \in Agents /\ offer.rest \subseteq Sessions /\ Tail(stack) \in Seq(Calls)
    BY <1>5, TopCall, CallTypes DEF OfferSession
  <2>2. PICK s \in offer.rest :
            stack' = <<TryStart(s), TryAgent(offer.agent, offer.rest \ {s})>> \o Tail(stack)
    BY <1>5 DEF OfferSession
  <2> HIDE DEF offer
  <2>3. TryStart(s) \in Calls /\ TryAgent(offer.agent, offer.rest \ {s}) \in Calls
    BY <2>1, CallsMade
  <2>4. stack' \in Seq(Calls)
    BY <2>1, <2>2, <2>3
  <2> QED
    BY <1>5, <2>4 DEF OfferSession
<1>6. CASE StopOffering
  BY <1>6, TopCall DEF StopOffering, Return
<1> QED
  BY <1>1, <1>2, <1>3, <1>4, <1>5, <1>6

\* Ending a turn keeps the type.  The session that the runtime's signal is tagged
\* with exists because a request is in flight.
LEMMA EndType ==
    ASSUME TypeOK, RuntimeTagged,
           \/ \E a \in Agents : RuntimeEnds(a)
           \/ RecordFinished \/ RecordFailed
           \/ \E s \in Sessions : AbortTurn(s)
    PROVE  TypeOK'
<1> USE DEF TypeOK
<1>1. ASSUME NEW a \in Agents, RuntimeFinished(a) PROVE TypeOK'
  <2> DEFINE s == runtime[a].session
  <2>1. s \in Sessions
    BY <1>1 DEF RuntimeFinished, RuntimeTagged
  <2>2. /\ ClearTurn(s)
        /\ stack' = Restart(s) \o <<Finished(s, active[s])>>
        /\ runtime' = [runtime EXCEPT ![a].turn = 0]
    BY <1>1 DEF RuntimeFinished
  <2> HIDE DEF s
  <2>3. Restart(s) \in Seq(Calls) /\ Finished(s, active[s]) \in Calls
    BY <2>1, RestartType, CallsMade
  <2>4. stack' \in Seq(Calls)
    BY <2>2, <2>3, InsertCall
  <2>5. runtime' \in [Agents -> [session : Sessions \cup {NoSession}, turn : Nat]]
    BY <2>2
  <2> QED
    BY <1>1, <2>1, <2>2, <2>4, <2>5, ClearType DEF RuntimeFinished
<1>2. ASSUME NEW a \in Agents, RuntimeFailed(a) PROVE TypeOK'
  <2> DEFINE s == runtime[a].session
  <2>1. s \in Sessions
    BY <1>2 DEF RuntimeFailed, RuntimeTagged
  <2>2. PICK transient \in BOOLEAN :
            ClearTurn(s) /\ stack' = Restart(s) \o <<Failed(s, active[s], transient)>>
    BY <1>2 DEF RuntimeFailed
  <2>3. runtime' = [runtime EXCEPT ![a].turn = 0]
    BY <1>2 DEF RuntimeFailed
  <2> HIDE DEF s
  <2>4. Restart(s) \in Seq(Calls) /\ Failed(s, active[s], transient) \in Calls
    BY <2>1, RestartType, CallsMade
  <2>5. stack' \in Seq(Calls)
    BY <2>2, <2>4, InsertCall
  <2>6. runtime' \in [Agents -> [session : Sessions \cup {NoSession}, turn : Nat]]
    BY <2>3
  <2> QED
    BY <1>2, <2>1, <2>2, <2>5, <2>6, ClearType DEF RuntimeFailed
<1>3. CASE RecordFinished
  <2> DEFINE s == Head(stack).session
  <2> DEFINE t == Head(stack).turn
  <2>1. s \in Sessions /\ t \in Turn /\ stack' \in Seq(Calls)
    BY <1>3, TopCall, CallTypes DEF RecordFinished, Return
  <2>2. /\ task' = task \/ task' = TaskAfter(s, "done", t)
        /\ \/ replied' = [replied EXCEPT ![s] = IF s \in live THEN @ \cup {t.id} ELSE @]
           \/ replied' = replied
        /\ terminal' = [i \in TurnIds |-> terminal[i] + IF i = t.id THEN 1 ELSE 0]
    BY <1>3 DEF RecordFinished
  <2> HIDE DEF s, t
  <2>3. task' \in TaskType
    BY SMTT(60), <2>1, <2>2, TaskAfterType DEF TaskType, TaskStates
  <2>4. replied' \in [Sessions -> SUBSET Nat]
    <3>1. replied[s] \cup {t.id} \in SUBSET Nat
      BY <2>1 DEF Turn
    <3> QED
      BY <2>2, <3>1, ExceptType
  <2>5. terminal' \in [TurnIds -> Nat]
    BY <2>2
  <2> QED
    BY <1>3, <2>1, <2>3, <2>4, <2>5 DEF RecordFinished, TaskType
<1>4. CASE RecordFailed
  <2> DEFINE s == Head(stack).session
  <2> DEFINE t == Head(stack).turn
  <2>1. s \in Sessions /\ t \in Turn /\ stack' \in Seq(Calls)
    BY <1>4, TopCall, CallTypes DEF RecordFailed, Return
  <2>2. /\ task' = TaskAfter(s, "blocked", t) \/ task' = TaskAfter(s, "failed", t)
        /\ \/ replied' = [replied EXCEPT ![s] = @ \cup {t.id}]
           \/ replied' = replied
        /\ terminal' = [i \in TurnIds |-> terminal[i] + IF i = t.id THEN 1 ELSE 0]
    BY <1>4 DEF RecordFailed
  <2> HIDE DEF s, t
  <2>3. task' \in TaskType
    BY SMTT(60), <2>1, <2>2, TaskAfterType DEF TaskType, TaskStates
  <2>4. replied' \in [Sessions -> SUBSET Nat]
    <3>1. replied[s] \cup {t.id} \in SUBSET Nat
      BY <2>1 DEF Turn
    <3> QED
      BY <2>2, <3>1, ExceptType
  <2>5. terminal' \in [TurnIds -> Nat]
    BY <2>2
  <2> QED
    BY <1>4, <2>1, <2>3, <2>4, <2>5 DEF RecordFailed, TaskType
<1>5. ASSUME NEW s \in Sessions, AbortTurn(s) PROVE TypeOK'
  <2>1. /\ task' = TaskAfter(s, "canceled", active[s])
        /\ runtime' = [runtime EXCEPT ![AgentOf[s]].turn = 0]
        /\ ClearTurn(s)
        /\ terminal' = [i \in TurnIds |-> terminal[i] + IF i = active[s].id THEN 1 ELSE 0]
        /\ stack' = Restart(s)
    BY <1>5 DEF AbortTurn
  <2>2. task' \in TaskType
    BY <2>1, TaskAfterType DEF TaskType, TaskStates
  <2>3. terminal' \in [TurnIds -> Nat]
    BY <2>1
  <2>4. runtime' \in [Agents -> [session : Sessions \cup {NoSession}, turn : Nat]]
    BY <2>1
  <2> QED
    BY ZenonT(60), <1>5, <2>1, <2>2, <2>3, <2>4, RestartType, ClearType DEF AbortTurn, TaskType
<1> QED
  BY <1>1, <1>2, <1>3, <1>4, <1>5 DEF RuntimeEnds

\* Delegate jobs, and sessions shown and removed, keep the type.
LEMMA SideType ==
    ASSUME TypeOK,
           \/ \E a \in Agents : \/ DelegateAccepted(a) \/ DelegateRefused(a)
                                \/ DelegateAcceptedSettled(a) \/ DelegateSettled(a)
           \/ \E s \in Sessions : SwitchSession(s) \/ RemoveSession(s)
           \/ ReleaseRuntime
    PROVE  TypeOK'
<1> USE DEF TypeOK
<1>1. ASSUME NEW a \in Agents, DelegateAccepted(a) \/ DelegateRefused(a) PROVE TypeOK'
  <2>1. runtime[a].session \in Sessions /\ active[runtime[a].session] \in Turn
    BY <1>1 DEF DelegateAccepted, DelegateRefused
  <2>2. \E state \in {"blocked", "running"} :
            task' = TaskAfter(runtime[a].session, state, active[runtime[a].session])
    BY <1>1 DEF DelegateAccepted, DelegateRefused
  <2>3. task' \in TaskType
    BY <2>1, <2>2, TaskAfterType DEF TaskType, TaskStates
  <2>4. CASE DelegateAccepted(a)
    BY <2>3, <2>4 DEF DelegateAccepted, TaskType
  <2>5. CASE DelegateRefused(a)
    BY <2>3, <2>5 DEF DelegateRefused, TaskType
  <2> QED
    BY <1>1, <2>4, <2>5
<1>2. ASSUME NEW a \in Agents, DelegateAcceptedSettled(a) PROVE TypeOK'
  <2> DEFINE s == runtime[a].session
  <2>1. s \in Sessions /\ active[s] \in Turn
    BY <1>2 DEF DelegateAcceptedSettled
  <2>2. PICK primary \in SessionsOf(a), state \in {"done", "failed"} :
            \/ task' = [TaskAfter(s, "running", active[s]) EXCEPT ![s].state = state]
            \/ task' = [TaskAfter(s, "blocked", active[s]) EXCEPT ![primary].state = state]
    BY <1>2 DEF DelegateAcceptedSettled
  <2>3. /\ TaskAfter(s, "running", active[s]) \in TaskType
        /\ TaskAfter(s, "blocked", active[s]) \in TaskType
    BY <2>1, TaskAfterType DEF TaskType, TaskStates
  <2> HIDE DEF s
  <2>4. task' \in TaskType
    <3>1. CASE task' = [TaskAfter(s, "running", active[s]) EXCEPT ![s].state = state]
      BY <2>3, <3>1, StateType
    <3>2. CASE task' = [TaskAfter(s, "blocked", active[s]) EXCEPT ![primary].state = state]
      BY <2>3, <3>2, StateType
    <3> QED
      BY <2>2, <3>1, <3>2
  <2> QED
    BY <1>2, <2>4 DEF DelegateAcceptedSettled, TaskType
<1>3. ASSUME NEW a \in Agents, DelegateSettled(a) PROVE TypeOK'
  <2>1. task \in TaskType
    BY DEF TaskType
  <2>2. task' \in TaskType
    <3>1. CASE SessionsOf(a) = {}
      BY <1>3, <2>1, <3>1 DEF DelegateSettled
    <3>2. CASE SessionsOf(a) # {}
      <4>1. PICK primary \in SessionsOf(a), state \in {"done", "failed"} :
                task' = [task EXCEPT ![primary].state = state]
        BY <1>3, <3>2 DEF DelegateSettled
      <4> QED
        BY <2>1, <4>1, StateType
    <3> QED
      BY <3>1, <3>2
  <2> QED
    BY <1>3, <2>2 DEF DelegateSettled, TaskType
<1>4. ASSUME NEW s \in Sessions, SwitchSession(s) PROVE TypeOK'
  BY <1>4 DEF SwitchSession
<1>5. ASSUME NEW s \in Sessions, RemoveSession(s) PROVE TypeOK'
  <2> DEFINE a == AgentOf[s]
  <2>1. a \in Agents /\ SessionsOf(a) \subseteq Sessions
    BY PipelineAssumption DEF PipelineAssumption, SessionsOf
  <2>2. stack' = <<TryAgent(a, SessionsOf(a) \ {s}), Release(a, s)>>
    BY <1>5 DEF RemoveSession
  <2>3. stack' \in Seq(Calls)
    <3> HIDE DEF a
    <3>1. TryAgent(a, SessionsOf(a) \ {s}) \in Calls /\ Release(a, s) \in Calls
      BY <2>1, CallsMade
    <3> QED
      BY <2>2, <3>1
  <2>4. NoTurn \in Turn
    BY DEF NoTurn, Turn, Sources
  <2>5. queue' \in [Sessions -> Seq(Turn)] /\ active' \in [Sessions -> Turn]
    BY <1>5, <2>4 DEF RemoveSession
  <2>6. /\ lane' \in [Agents -> Sessions \cup {NoSession}]
        /\ runtime' \in [Agents -> [session : Sessions \cup {NoSession}, turn : Nat]]
    BY <1>5 DEF RemoveSession
  <2>7. task' \in TaskType /\ replied' \in [Sessions -> SUBSET Nat]
    BY <1>5 DEF RemoveSession, TaskType, TaskStates
  <2> QED
    BY <1>5, <2>3, <2>5, <2>6, <2>7 DEF RemoveSession, TaskType
<1>6. CASE ReleaseRuntime
  <2>1. stack' \in Seq(Calls)
    BY <1>6, TopCall DEF ReleaseRuntime, Return
  <2> QED
    BY <1>6, <2>1 DEF ReleaseRuntime
<1> QED
  BY <1>1, <1>2, <1>3, <1>4, <1>5, <1>6

LEMMA TypeStep == TypeOK /\ RuntimeTagged /\ [Next]_vars => TypeOK'
<1> SUFFICES ASSUME TypeOK, RuntimeTagged, [Next]_vars PROVE TypeOK'
  OBVIOUS
<1>1. CASE UNCHANGED vars
  BY <1>1 DEF vars, TypeOK
<1>2. CASE Next
  BY <1>2, ArrivalType, StartType, EndType, SideType DEF Next, Step
<1> QED
  BY <1>1, <1>2

-----------------------------------------------------------------------------
\* Only SendAccepted puts a request in flight, for the session it is tagged with.
LEMMA TaggedStep == TypeOK /\ RuntimeTagged /\ [Next]_vars => RuntimeTagged'
<1> SUFFICES ASSUME TypeOK, RuntimeTagged, [Next]_vars PROVE RuntimeTagged'
  OBVIOUS
<1> USE DEF TypeOK, RuntimeTagged
<1>1. CASE UNCHANGED runtime
  BY <1>1
<1>2. ASSUME NEW a, runtime' = [runtime EXCEPT ![a].turn = 0] PROVE RuntimeTagged'
  BY <1>2
<1>3. CASE StartTurn
  <2>1. Head(stack).session \in Sessions
    BY <1>3, TopCall, CallTypes DEF StartTurn
  <2> QED
    BY <1>3, <2>1 DEF StartTurn
<1>4. CASE SendAccepted
  <2>1. Head(stack).session \in Sessions
    BY <1>4, TopCall, CallTypes DEF SendAccepted
  <2> QED
    BY <1>4, <2>1 DEF SendAccepted
<1>5. CASE SendRefused
  BY <1>2, <1>5 DEF SendRefused
<1>6. CASE \E a \in Agents : RuntimeEnds(a)
  BY <1>2, <1>6 DEF RuntimeEnds, RuntimeFinished, RuntimeFailed
<1>7. CASE \E s \in Sessions : AbortTurn(s)
  BY <1>2, <1>7 DEF AbortTurn
<1>8. CASE \E s \in Sessions : SwitchSession(s)
  BY <1>8 DEF SwitchSession
<1>9. CASE \E s \in Sessions : RemoveSession(s)
  BY <1>1, <1>2, <1>9 DEF RemoveSession
<1>10. CASE ReleaseRuntime
  BY <1>10 DEF ReleaseRuntime
<1>11. CASE UNCHANGED vars
  BY <1>1, <1>11 DEF vars
<1> QED
  BY <1>1, <1>3, <1>4, <1>5, <1>6, <1>7, <1>8, <1>9, <1>10, <1>11
     DEF Next, Step, MergeMessage, EnqueueMessage, TeammateReply, SkipStart, OfferSession,
         StopOffering, RecordFinished, RecordFailed, DelegateAccepted, DelegateRefused,
         DelegateAcceptedSettled, DelegateSettled

-----------------------------------------------------------------------------
\* Sessions are only ever removed, so an agent that has lost one stays so.
LEMMA LiveShrinks == [Next]_vars => live' \subseteq live
<1> SUFFICES ASSUME [Next]_vars PROVE live' \subseteq live
  OBVIOUS
<1>1. CASE \E s \in Sessions : RemoveSession(s)
  BY <1>1 DEF RemoveSession
<1>2. CASE UNCHANGED live
  BY <1>2
<1> QED
  BY <1>1, <1>2
     DEF Next, Step, RuntimeEnds, MergeMessage, EnqueueMessage, TeammateReply, StartTurn,
         SkipStart, SendAccepted, SendRefused, OfferSession, StopOffering, RuntimeFinished,
         RuntimeFailed, RecordFinished, RecordFailed, AbortTurn, DelegateAccepted,
         DelegateRefused, DelegateAcceptedSettled, DelegateSettled, SwitchSession, ReleaseRuntime, vars

LEMMA SafeCallsGrow == live' \subseteq live => SafeCalls \subseteq SafeCalls'
BY DEF SafeCalls, Intact

LEMMA SafeCallsMade ==
    ASSUME live \subseteq Sessions
    PROVE  /\ \A s \in Sessions : TryStart(s) \in SafeCalls /\ Send(s) \in SafeCalls
           /\ \A a \in Agents : \A rest \in SUBSET Sessions : TryAgent(a, rest) \in SafeCalls
           /\ \A s \in Sessions : \A t \in Turn : Finished(s, t) \in SafeCalls
           /\ \A s \in Sessions : \A t \in Turn : \A b \in BOOLEAN :
                 Failed(s, t, b) \in SafeCalls
           /\ \A s \in Sessions : Restart(s) \in Seq(SafeCalls)
<1>1. /\ \A s \in Sessions : TryStart(s) \in SafeCalls /\ Send(s) \in SafeCalls
      /\ \A a \in Agents : \A rest \in SUBSET Sessions : TryAgent(a, rest) \in SafeCalls
      /\ \A s \in Sessions : \A t \in Turn : Finished(s, t) \in SafeCalls
      /\ \A s \in Sessions : \A t \in Turn : \A b \in BOOLEAN : Failed(s, t, b) \in SafeCalls
  BY CallsMade DEF SafeCalls, TryStart, Send, TryAgent, Finished, Failed
<1>2. ASSUME NEW s \in Sessions PROVE Restart(s) \in Seq(SafeCalls)
  <2>1. AgentOf[s] \in Agents /\ SessionsOf(AgentOf[s]) \subseteq Sessions
    BY PipelineAssumption DEF PipelineAssumption, SessionsOf
  <2> QED
    BY <1>1, <2>1 DEF Restart
<1> QED
  BY <1>1, <1>2

\* Only RemoveSession leaves a call that releases the runtime.
LEMMA ReleaseStep ==
    TypeOK /\ RuntimeTagged /\ ReleaseAfterRemoval /\ [Next]_vars => ReleaseAfterRemoval'
<1> SUFFICES ASSUME TypeOK, RuntimeTagged, ReleaseAfterRemoval, [Next]_vars
             PROVE  ReleaseAfterRemoval'
  OBVIOUS
<1> USE DEF TypeOK
<1>1. stack \in Seq(SafeCalls)
  BY DEF ReleaseAfterRemoval
<1>2. ASSUME stack' \in Seq(SafeCalls) PROVE ReleaseAfterRemoval'
  BY <1>2, LiveShrinks, SafeCallsGrow, SeqMonotonic DEF ReleaseAfterRemoval
<1>3. stack # <<>> => Tail(stack) \in Seq(SafeCalls)
  BY <1>1
<1>4. CASE \E s \in Sessions : EnqueueMessage(s)
  BY <1>2, <1>4, SafeCallsMade DEF EnqueueMessage
<1>5. CASE TeammateReply
  <2>1. TryStart(current) \in SafeCalls
    BY <1>5, SafeCallsMade DEF TeammateReply
  <2> QED
    BY <1>2, <1>5, <2>1 DEF TeammateReply
<1>6. CASE StartTurn
  <2> DEFINE s == Head(stack).session
  <2>1. Send(s) \in SafeCalls /\ Tail(stack) \in Seq(SafeCalls)
    BY <1>3, <1>6, TopCall, CallTypes, SafeCallsMade DEF StartTurn, Next1
  <2>2. stack' = <<Send(s)>> \o Tail(stack)
    BY <1>6 DEF StartTurn
  <2> QED
    BY <1>2, <2>1, <2>2
<1>7. CASE SendRefused
  <2> DEFINE s == Head(stack).session
  <2>1. s \in Sessions /\ Tail(stack) \in Seq(SafeCalls)
    BY <1>3, <1>7, TopCall, CallTypes DEF SendRefused, Next1
  <2>2. stack' = Restart(s) \o <<Failed(s, active[s], FALSE)>> \o Tail(stack)
    BY <1>7 DEF SendRefused
  <2> HIDE DEF s
  <2>3. Restart(s) \in Seq(SafeCalls) /\ Failed(s, active[s], FALSE) \in SafeCalls
    BY <2>1, SafeCallsMade
  <2> QED
    BY <1>2, <2>1, <2>2, <2>3, InsertCall
<1>8. CASE OfferSession
  <2> DEFINE offer == Head(stack)
  <2>1. offer.agent \in Agents /\ offer.rest \subseteq Sessions
    BY <1>8, TopCall, CallTypes DEF OfferSession
  <2>2. PICK s \in offer.rest :
            stack' = <<TryStart(s), TryAgent(offer.agent, offer.rest \ {s})>> \o Tail(stack)
    BY <1>8 DEF OfferSession
  <2>3. Tail(stack) \in Seq(SafeCalls)
    BY <1>3, <1>8 DEF OfferSession, Next1
  <2> HIDE DEF offer
  <2>4. TryStart(s) \in SafeCalls /\ TryAgent(offer.agent, offer.rest \ {s}) \in SafeCalls
    BY <2>1, SafeCallsMade
  <2> QED
    BY <1>2, <2>2, <2>3, <2>4
<1>9. ASSUME NEW a \in Agents, RuntimeEnds(a) PROVE ReleaseAfterRemoval'
  <2> DEFINE s == runtime[a].session
  <2>1. s \in Sessions
    BY <1>9 DEF RuntimeEnds, RuntimeFinished, RuntimeFailed, RuntimeTagged
  <2>2. \/ stack' = Restart(s) \o <<Finished(s, active[s])>>
        \/ \E b \in BOOLEAN : stack' = Restart(s) \o <<Failed(s, active[s], b)>>
    BY <1>9 DEF RuntimeEnds, RuntimeFinished, RuntimeFailed
  <2> HIDE DEF s
  <2>3. /\ Restart(s) \in Seq(SafeCalls)
        /\ Finished(s, active[s]) \in SafeCalls
        /\ \A b \in BOOLEAN : Failed(s, active[s], b) \in SafeCalls
    BY <2>1, SafeCallsMade
  <2>4. PICK c \in SafeCalls : stack' = Restart(s) \o <<c>>
    BY <2>2, <2>3
  <2>5. stack' \in Seq(SafeCalls)
    BY <2>3, <2>4, InsertCall
  <2> QED
    BY <1>2, <2>5
<1>10. CASE \E s \in Sessions : AbortTurn(s)
  BY <1>2, <1>10, SafeCallsMade DEF AbortTurn
<1>11. ASSUME NEW s \in Sessions, RemoveSession(s) PROVE ReleaseAfterRemoval'
  <2> DEFINE a == AgentOf[s]
  <2>1. a \in Agents /\ SessionsOf(a) \subseteq Sessions
    BY PipelineAssumption DEF PipelineAssumption, SessionsOf
  <2>2. stack' = <<TryAgent(a, SessionsOf(a) \ {s}), Release(a, s)>>
    BY <1>11 DEF RemoveSession
  <2>3. ~Intact(a)'
    BY <1>11 DEF RemoveSession, Intact
  <2>4. TryAgent(a, SessionsOf(a) \ {s}) \in SafeCalls'
    <3>1. TryAgent(a, SessionsOf(a) \ {s}) \in SafeCalls
      <4> HIDE DEF a
      <4> QED
        BY <2>1, SafeCallsMade
    <3> QED
      BY <3>1, LiveShrinks, SafeCallsGrow
  <2>5. Release(a, s) \in SafeCalls'
    BY <2>1, <2>3, CallsMade DEF SafeCalls, Release
  <2> HIDE DEF a
  <2> QED
    BY <2>2, <2>4, <2>5 DEF ReleaseAfterRemoval
<1>12. CASE stack # <<>> /\ Return
  BY <1>2, <1>3, <1>12 DEF Return
<1>13. CASE UNCHANGED stack
  BY <1>1, <1>2, <1>13
<1>14. CASE SkipStart \/ SendAccepted \/ StopOffering
  BY <1>12, <1>14 DEF SkipStart, SendAccepted, StopOffering, Next1
<1>15. CASE RecordFinished \/ RecordFailed \/ ReleaseRuntime
  BY <1>12, <1>15 DEF RecordFinished, RecordFailed, ReleaseRuntime, Next1
<1>16. CASE \E s \in Sessions : MergeMessage(s) \/ SwitchSession(s)
  BY <1>13, <1>16 DEF MergeMessage, SwitchSession
<1>17. CASE \E a \in Agents : \/ DelegateAccepted(a) \/ DelegateRefused(a)
                              \/ DelegateAcceptedSettled(a) \/ DelegateSettled(a)
  BY <1>13, <1>17 DEF DelegateAccepted, DelegateRefused, DelegateAcceptedSettled, DelegateSettled
<1>18. CASE UNCHANGED vars
  BY <1>13, <1>18 DEF vars
<1> HIDE DEF TypeOK
<1> QED
  BY <1>4, <1>5, <1>6, <1>7, <1>8, <1>9, <1>10, <1>11, <1>14, <1>15, <1>16, <1>17, <1>18
     DEF Next, Step

-----------------------------------------------------------------------------
\* Giving up the lane after clearing the turn leaves OneTurnPerAgent alone.
LEMMA ClearKeepsOne ==
    ASSUME TypeOK, OneTurnPerAgent, NEW s \in Sessions, ClearTurn(s), UNCHANGED live
    PROVE  OneTurnPerAgent'
<1> SUFFICES ASSUME NEW r \in Sessions, HasActive(r)', Intact(AgentOf[r])'
             PROVE  lane'[AgentOf[r]] = r
  BY DEF OneTurnPerAgent
<1>1. r # s
  BY DEF ClearTurn, HasActive, NoTurn, TypeOK
<1>2. HasActive(r) /\ Intact(AgentOf[r])
  BY <1>1 DEF ClearTurn, HasActive, Intact, TypeOK
<1>3. lane[AgentOf[r]] = r
  BY <1>2 DEF OneTurnPerAgent
<1> QED
  BY <1>1, <1>3 DEF ClearTurn

LEMMA OneTurnStep == IInv /\ [Next]_vars => OneTurnPerAgent'
<1> SUFFICES ASSUME IInv, [Next]_vars PROVE OneTurnPerAgent'
  OBVIOUS
<1> USE DEF IInv
<1>1. CASE StartTurn
  <2> DEFINE s == Head(stack).session
  <2> DEFINE a == AgentOf[s]
  <2>1. s \in Sessions /\ a \in Agents
    BY <1>1, TopCall, CallTypes, PipelineAssumption DEF StartTurn, PipelineAssumption
  <2>2. /\ lane[a] \in {NoSession, s}
        /\ active' = [active EXCEPT ![s] = Head(queue[s])]
        /\ lane' = [lane EXCEPT ![a] = s]
        /\ live' = live
    BY <1>1 DEF StartTurn, MayStart
  <2> HIDE DEF s
  <2> SUFFICES ASSUME NEW r \in Sessions, HasActive(r)', Intact(AgentOf[r])'
               PROVE  lane'[AgentOf[r]] = r
    BY DEF OneTurnPerAgent
  <2>3. CASE r = s
    BY <2>1, <2>2, <2>3 DEF TypeOK
  <2>4. CASE r # s
    <3>1. HasActive(r) /\ Intact(AgentOf[r])
      BY <2>2, <2>4 DEF HasActive, Intact
    <3>2. lane[AgentOf[r]] = r
      BY <3>1 DEF OneTurnPerAgent
    <3>3. AgentOf[r] # a
      BY <2>2, <2>4, <3>2, PipelineAssumption DEF PipelineAssumption
    <3> QED
      BY <2>2, <3>2, <3>3
  <2> QED
    BY <2>3, <2>4
<1>2. CASE SendRefused
  <2>1. Head(stack).session \in Sessions
    BY <1>2, TopCall, CallTypes DEF SendRefused
  <2> QED
    BY <1>2, <2>1, ClearKeepsOne DEF SendRefused
<1>3. ASSUME NEW a \in Agents, RuntimeEnds(a) PROVE OneTurnPerAgent'
  <2>1. runtime[a].session \in Sessions
    BY <1>3 DEF RuntimeEnds, RuntimeFinished, RuntimeFailed, RuntimeTagged
  <2> QED
    BY <1>3, <2>1, ClearKeepsOne DEF RuntimeEnds, RuntimeFinished, RuntimeFailed
<1>4. CASE \E s \in Sessions : AbortTurn(s)
  BY <1>4, ClearKeepsOne DEF AbortTurn
<1>5. ASSUME NEW s \in Sessions, RemoveSession(s) PROVE OneTurnPerAgent'
  <2> SUFFICES ASSUME NEW r \in Sessions, HasActive(r)', Intact(AgentOf[r])'
               PROVE  lane'[AgentOf[r]] = r
    BY DEF OneTurnPerAgent
  <2>1. AgentOf[r] # AgentOf[s] /\ Intact(AgentOf[r])
    BY <1>5 DEF RemoveSession, Intact
  <2>2. HasActive(r)
    BY <1>5, <2>1 DEF RemoveSession, HasActive, TypeOK
  <2>3. lane[AgentOf[r]] = r
    BY <2>1, <2>2 DEF OneTurnPerAgent
  <2> QED
    BY <1>5, <2>1, <2>3 DEF RemoveSession
<1>6. CASE ReleaseRuntime
  <2> DEFINE a == Head(stack).agent
  <2>1. ~Intact(a)
    BY <1>6 DEF ReleaseRuntime, Next1, ReleaseAfterRemoval, SafeCalls
  <2>2. lane' = [lane EXCEPT ![a] = NoSession] /\ active' = active /\ live' = live
    BY <1>6 DEF ReleaseRuntime
  <2> HIDE DEF a
  <2> QED
    BY <2>1, <2>2 DEF OneTurnPerAgent, HasActive, Intact
<1>7. CASE UNCHANGED <<live, active, lane>>
  BY <1>7 DEF OneTurnPerAgent, HasActive, Intact
<1>8. CASE SkipStart \/ SendAccepted \/ OfferSession \/ StopOffering \/ RecordFinished
           \/ RecordFailed
  BY <1>7, <1>8
     DEF SkipStart, SendAccepted, OfferSession, StopOffering, RecordFinished, RecordFailed
<1>9. CASE TeammateReply \/ \E s \in Sessions : \/ MergeMessage(s) \/ EnqueueMessage(s)
                                               \/ SwitchSession(s)
  BY <1>7, <1>9 DEF TeammateReply, MergeMessage, EnqueueMessage, SwitchSession
<1>10. CASE \E a \in Agents : \/ DelegateAccepted(a) \/ DelegateRefused(a)
                              \/ DelegateAcceptedSettled(a) \/ DelegateSettled(a)
  BY <1>7, <1>10 DEF DelegateAccepted, DelegateRefused, DelegateAcceptedSettled, DelegateSettled
<1>11. CASE UNCHANGED vars
  BY <1>7, <1>11 DEF vars
<1> QED
  BY <1>1, <1>2, <1>3, <1>4, <1>5, <1>6, <1>8, <1>9, <1>10, <1>11 DEF Next, Step

-----------------------------------------------------------------------------
\* The inductive invariant.
LEMMA InvStep == IInv /\ [Next]_vars => IInv'
BY TypeStep, TaggedStep, ReleaseStep, OneTurnStep DEF IInv

\* It holds in every state the handlers of ConversationService and its runtimes lead to.
THEOREM Invariant == Spec => []IInv
BY InitInv, InvStep, PTL DEF Spec

\* Every variable keeps its type, whatever handlers call each other.
THEOREM TypeCorrect == Spec => []TypeOK
<1>1. IInv => TypeOK
  BY DEF IInv
<1> QED
  BY <1>1, Invariant, PTL

\* While its sessions exist, an agent works for one session at a time.
THEOREM OneTurnAtATime == Spec => []OneTurnPerAgent
<1>1. IInv => OneTurnPerAgent
  BY DEF IInv
<1> QED
  BY <1>1, Invariant, PTL

-----------------------------------------------------------------------------
(* What the handlers still have to do, for the lane and the runtime.       *)

\* A turn is sent by the call that StartTurn leaves on top of the stack.
SendsFirst ==
    \A k \in 1 .. Len(stack) :
        stack[k].call = "send" =>
            /\ k = 1
            /\ HasActive(stack[k].session)
            /\ lane[AgentOf[stack[k].session]] = stack[k].session

ActiveLive == \A s \in Sessions : HasActive(s) => s \in live

ToRelease(a) == \E c \in Range(stack) : c.call = "release" /\ c.agent = a

\* A lane is held for an active turn.  Once two sessions of the agent are gone it
\* may be held for none, but then it is about to be forgotten.
LaneSound(a) ==
    lane[a] # NoSession =>
        /\ AgentOf[lane[a]] = a
        /\ HasActive(lane[a]) \/ (ToRelease(a) /\ ~AtMostOneGone(a))

\* The active turn is in flight or is the next thing the handlers send.
FlightSound(s) ==
    HasActive(s) /\ Intact(AgentOf[s]) =>
        \/ runtime[AgentOf[s]] = [session |-> s, turn |-> active[s].id]
        \/ stack # <<>> /\ Head(stack) = Send(s)

\* The handlers will offer the agent of a session to it.
ToOffer(s) ==
    \/ TryStart(s) \in Range(stack)
    \/ \E c \in Range(stack) : c.call = "tryAgent" /\ c.agent = AgentOf[s] /\ s \in c.rest

Working(a) == \E r \in Sessions : AgentOf[r] = a /\ HasActive(r)

WakeSound(s) ==
    s \in live /\ queue[s] # <<>> /\ AtMostOneGone(AgentOf[s]) =>
        Working(AgentOf[s]) \/ ToOffer(s)

ToRecord(s) == \E c \in Range(stack) : c.call \in {"finished", "failed"} /\ c.session = s

TaskSound(s) ==
    s \in live /\ queue[s] = <<>> /\ ~HasActive(s) /\ task[s].state \in {"queued", "running"}
        => ToRecord(s)

CallsSound ==
    /\ SendsFirst
    /\ ActiveLive
    /\ \A a \in Agents : LaneSound(a)
    /\ \A s \in Sessions : FlightSound(s) /\ WakeSound(s) /\ TaskSound(s)

-----------------------------------------------------------------------------
(* Where a turn is.                                                        *)

\* A call that will record the end of a turn.
Ends(c) == c.call \in {"finished", "failed"} /\ c.turn.id # 0

\* A turn of the session that has not ended.
Open(s, i) == i \in TurnIds /\ home[i] = s /\ terminal[i] = 0

\* The turn is ahead of those that the session has queued.
Ahead(s, i) == \A k \in 1 .. Len(queue[s]) : i < queue[s][k].id

QueueSound(s) ==
    \A k \in 1 .. Len(queue[s]) :
        /\ Open(s, queue[s][k].id)
        /\ \A l \in 1 .. k - 1 : queue[s][l].id < queue[s][k].id

ActiveSound(s) == HasActive(s) => Open(s, active[s].id) /\ Ahead(s, active[s].id)

EndSound(c) ==
    Ends(c) => /\ Open(c.session, c.turn.id)
               /\ Ahead(c.session, c.turn.id)
               /\ HasActive(c.session) => c.turn.id < active[c.session].id

\* No turn has two calls that will record its end.
Once(q) == \A k, l \in 1 .. Len(q) : Ends(q[k]) /\ Ends(q[l]) /\ k # l => q[k].turn.id # q[l].turn.id

TurnSound(i) ==
    /\ home[i] = NoSession <=> i >= nextTurn
    /\ terminal[i] \in {0, 1}
    /\ terminal[i] = 1 => home[i] # NoSession /\ Ahead(home[i], i)
    /\ home[i] \in live =>
           \/ \E k \in 1 .. Len(queue[home[i]]) : queue[home[i]][k].id = i
           \/ active[home[i]].id = i
           \/ \E c \in Range(stack) : Ends(c) /\ c.turn.id = i
           \/ terminal[i] = 1

TurnsSound ==
    /\ \A s \in Sessions : QueueSound(s) /\ ActiveSound(s)
    /\ \A c \in Range(stack) : EndSound(c)
    /\ Once(stack)
    /\ nextTurn # 0
    /\ \A i \in TurnIds : TurnSound(i)

-----------------------------------------------------------------------------
AccountsInv == IInv /\ CallsSound /\ TurnsSound

-----------------------------------------------------------------------------
(* The calls on the stack.                                                 *)

LEMMA RangeHead ==
    ASSUME NEW q \in Seq(Calls), q # <<>>
    PROVE  Range(q) = {Head(q)} \cup Range(Tail(q))
<1> DEFINE h == <<Head(q)>>
<1> DEFINE r == Tail(q)
<1>1. h \in Seq(Calls) /\ r \in Seq(Calls)
  OBVIOUS
<1>2. q = h \o r
  OBVIOUS
<1>3. Range(h) = {Head(q)}
  BY DEF Range
<1> HIDE DEF h, r
<1>4. Range(h \o r) = Range(h) \cup Range(r)
  BY <1>1, RangeConcatenation
<1> QED
  BY <1>2, <1>3, <1>4 DEF r

LEMMA RangeEmpty == Range(<<>>) = {}
BY DEF Range

LEMMA RangeOne == \A c : Range(<<c>>) = {c}
BY DEF Range

LEMMA RangeTwo == \A c, d : Range(<<c, d>>) = {c, d}
<1> SUFFICES ASSUME NEW c, NEW d PROVE Range(<<c, d>>) = {c, d}
  OBVIOUS
<1>1. DOMAIN <<c, d>> = {1, 2}
  OBVIOUS
<1> QED
  BY <1>1 DEF Range

\* Calls pushed on what is left of the stack.
LEMMA RangePushed ==
    ASSUME NEW p \in Seq(Calls), NEW c \in Calls, NEW q \in Seq(Calls)
    PROVE  /\ Range(p \o <<c>>) = Range(p) \cup {c}
           /\ Range(<<c>> \o q) = {c} \cup Range(q)
           /\ Range(p \o <<c>> \o q) = Range(p) \cup {c} \cup Range(q)
<1> DEFINE one == <<c>>
<1>1. one \in Seq(Calls) /\ Range(one) = {c}
  BY RangeOne
<1> HIDE DEF one
<1> DEFINE pc == p \o one
<1>2. pc \in Seq(Calls)
  BY <1>1, ConcatProperties
<1>3. Range(pc) = Range(p) \cup {c}
  BY <1>1, RangeConcatenation
<1> HIDE DEF pc
<1>4. Range(pc \o q) = Range(pc) \cup Range(q)
  BY <1>2, RangeConcatenation
<1>5. Range(one \o q) = {c} \cup Range(q)
  BY <1>1, RangeConcatenation
<1> QED
  BY <1>3, <1>4, <1>5 DEF one, pc

LEMMA RangePushedTwo ==
    ASSUME NEW d \in Calls, NEW c \in Calls, NEW q \in Seq(Calls)
    PROVE  Range(<<d, c>> \o q) = {d, c} \cup Range(q)
<1> DEFINE two == <<d, c>>
<1>1. two \in Seq(Calls) /\ Range(two) = {d, c}
  BY RangeTwo
<1> HIDE DEF two
<1>2. Range(two \o q) = Range(two) \cup Range(q)
  BY <1>1, RangeConcatenation
<1> QED
  BY <1>1, <1>2 DEF two

\* The calls that Restart leaves.
LEMMA RangeRestart ==
    ASSUME live \subseteq Sessions, NEW s \in Sessions
    PROVE  Range(Restart(s)) = {TryStart(s)} \cup
              IF s \in live THEN {TryAgent(AgentOf[s], SessionsOf(AgentOf[s]))} ELSE {}
<1>1. CASE s \in live
  <2> DEFINE t == TryAgent(AgentOf[s], SessionsOf(AgentOf[s]))
  <2>1. Restart(s) = <<TryStart(s)>> \o <<t>>
    BY <1>1 DEF Restart
  <2>2. TryStart(s) \in Calls /\ t \in Calls
    BY CallsMade, PipelineAssumption DEF PipelineAssumption, SessionsOf
  <2> DEFINE one == <<TryStart(s)>>
  <2>3. Range(one) = {TryStart(s)} /\ one \in Seq(Calls)
    BY <2>2, RangeOne
  <2> HIDE DEF t, one
  <2>4. Range(one \o <<t>>) = {TryStart(s), t}
    BY <2>2, <2>3, RangePushed
  <2> QED
    BY <1>1, <2>1, <2>4 DEF t, one
<1>2. CASE s \notin live
  <2>1. Restart(s) = <<TryStart(s)>>
    BY <1>2 DEF Restart
  <2> QED
    BY <1>2, <2>1, RangeOne
<1> QED
  BY <1>1, <1>2

\* Nothing waits when no handler runs.
LEMMA NothingWaits ==
    ASSUME Quiet
    PROVE  /\ \A a : ~ToRelease(a)
           /\ \A s : ~ToOffer(s) /\ ~ToRecord(s)
BY RangeEmpty DEF Quiet, ToRelease, ToOffer, ToRecord

\* What is below the call on top stays, whatever is pushed in its place.
LEMMA RestWaits ==
    ASSUME TypeOK, NEW c, Next1(c), Range(Tail(stack)) \subseteq Range(stack')
    PROVE  /\ c # "release" => \A a : ToRelease(a) => ToRelease(a)'
           /\ c \notin {"finished", "failed"} => \A s : ToRecord(s) => ToRecord(s)'
           /\ c \notin {"tryStart", "tryAgent"} => \A s : ToOffer(s) => ToOffer(s)'
<1>1. \A d \in Range(stack) : d.call # c => d \in Range(stack')
  BY RangeHead DEF TypeOK, Next1
<1> QED
  BY <1>1 DEF ToRelease, ToRecord, ToOffer, TryStart

\* A turn is sent from the top only.
LEMMA NoSendBelow ==
    ASSUME TypeOK, SendsFirst, stack # <<>>
    PROVE  \A c \in Range(Tail(stack)) : c.call # "send"
<1> SUFFICES ASSUME NEW k \in 1 .. Len(Tail(stack)) PROVE Tail(stack)[k].call # "send"
  BY RangeOfSeq DEF TypeOK, Range
<1>1. k + 1 \in 1 .. Len(stack) /\ Tail(stack)[k] = stack[k + 1] /\ k + 1 # 1
  BY DEF TypeOK
<1> QED
  BY <1>1 DEF SendsFirst

LEMMA NoSend ==
    ASSUME stack' \in Seq(Calls), \A c \in Range(stack') : c.call # "send"
    PROVE  SendsFirst'
BY DEF SendsFirst, Range

-----------------------------------------------------------------------------
(* What a step does not disturb.                                           *)

\* A turn has an id, so a session that starts one is active.
LEMMA QueuedIds ==
    ASSUME TypeOK, TurnsSound, NEW s \in Sessions, queue[s] # <<>>
    PROVE  Head(queue[s]) \in Turn /\ Head(queue[s]).id # 0
<1>1. queue[s] \in Seq(Turn) /\ 1 \in 1 .. Len(queue[s]) /\ Head(queue[s]) = queue[s][1]
  BY DEF TypeOK
<1>2. Open(s, queue[s][1].id)
  BY <1>1 DEF TurnsSound, QueueSound
<1> QED
  BY <1>1, <1>2 DEF Open, TurnIds

LEMMA LaneFrame ==
    ASSUME TypeOK, UNCHANGED <<live, active, lane>>, NEW a \in Agents, LaneSound(a),
           ToRelease(a) => ToRelease(a)'
    PROVE  LaneSound(a)'
BY DEF LaneSound, HasActive, AtMostOneGone

LEMMA FlightFrame ==
    ASSUME UNCHANGED <<live, active, runtime>>, NEW s \in Sessions, FlightSound(s),
           ~(stack # <<>> /\ Head(stack) = Send(s))
    PROVE  FlightSound(s)'
BY DEF FlightSound, HasActive, Intact

LEMMA WakeFrame ==
    ASSUME UNCHANGED <<live, active, queue>>, NEW s \in Sessions, WakeSound(s),
           ToOffer(s) => ToOffer(s)'
    PROVE  WakeSound(s)'
BY DEF WakeSound, HasActive, AtMostOneGone, Working

LEMMA TaskFrame ==
    ASSUME UNCHANGED <<live, active, queue>>, NEW s \in Sessions, TaskSound(s),
           ToRecord(s) => ToRecord(s)', task'[s] = task[s]
    PROVE  TaskSound(s)'
BY DEF TaskSound, HasActive

\* TaskAfter changes the task state of one session only.
LEMMA TaskAfterAt ==
    ASSUME TypeOK, NEW s \in Sessions, NEW state, NEW t
    PROVE  /\ TaskAfter(s, state, t)[s].state = state
           /\ \A r \in Sessions : r # s => TaskAfter(s, state, t)[r] = task[r]
BY DEF TypeOK, TaskAfter

-----------------------------------------------------------------------------
(* Every action keeps CallsSound.                                          *)

\* A start takes the lane, which was free or the session's own, and sends.
LEMMA StartCalls ==
    ASSUME AccountsInv, TypeOK', StartTurn
    PROVE  CallsSound'
<1>1. PICK s \in Sessions :
          /\ Head(stack).session = s
          /\ s \in live /\ ~HasActive(s) /\ queue[s] # <<>>
          /\ lane[AgentOf[s]] \in {NoSession, s}
          /\ queue' = [queue EXCEPT ![s] = Tail(@)]
          /\ active' = [active EXCEPT ![s] = Head(queue[s])]
          /\ lane' = [lane EXCEPT ![AgentOf[s]] = s]
          /\ runtime' = [runtime EXCEPT ![AgentOf[s]].session = s]
          /\ task' = TaskAfter(s, "running", Head(queue[s]))
          /\ stack' = <<Send(s)>> \o Tail(stack)
          /\ live' = live
  <2>1. Head(stack).session \in Sessions
    BY TopCall, CallTypes DEF AccountsInv, IInv, StartTurn
  <2> QED
    BY <2>1 DEF StartTurn, MayStart
<1>2. /\ Next1("tryStart") /\ Head(stack).call = "tryStart"
      /\ stack # <<>> /\ Tail(stack) \in Seq(Calls)
  BY TopCall DEF AccountsInv, IInv, StartTurn, Next1
<1>3. Head(queue[s]).id # 0
  BY <1>1, QueuedIds DEF AccountsInv, IInv
<1>4. Send(s) \in Calls /\ Range(stack') = {Send(s)} \cup Range(Tail(stack))
  BY <1>1, <1>2, CallsMade, RangePushed
<1> DEFINE a == AgentOf[s]
<1>5. a \in Agents
  BY PipelineAssumption DEF PipelineAssumption
<1> HIDE DEF a
<1>6. \A c \in Range(Tail(stack)) : c.call # "send"
  BY <1>2, NoSendBelow DEF AccountsInv, IInv, CallsSound
<1>7. HasActive(s)' /\ \A r \in Sessions : r # s => active'[r] = active[r] /\ (HasActive(r)' <=> HasActive(r))
  BY <1>1, <1>3 DEF AccountsInv, IInv, TypeOK, HasActive
<1>8. SendsFirst'
  <2> SUFFICES ASSUME NEW k \in 1 .. Len(stack'), stack'[k].call = "send"
               PROVE  /\ k = 1
                      /\ HasActive(stack[k].session)'
                      /\ lane'[AgentOf[stack'[k].session]] = stack'[k].session
    BY DEF SendsFirst
  <2>1. k = 1
    <3>1. CASE k # 1
      <4>1. k - 1 \in 1 .. Len(Tail(stack)) /\ stack'[k] = Tail(stack)[k - 1]
        <5> DEFINE q == Tail(stack)
        <5> DEFINE c == Send(s)
        <5>1. q \in Seq(Calls) /\ stack' = <<c>> \o q
          BY <1>1, <1>2
        <5> HIDE DEF q, c
        <5>2. k - 1 \in 1 .. Len(q) /\ stack'[k] = q[k - 1]
          BY <3>1, <5>1
        <5> QED
          BY <5>2 DEF q
      <4>2. Tail(stack)[k - 1] \in Range(Tail(stack))
        BY <1>2, <4>1, RangeEquality
      <4> QED
        BY <1>6, <4>1, <4>2
    <3> QED
      BY <3>1
  <2>2. stack'[1] = Send(s)
    BY <1>1, <1>2
  <2>3. stack'[1].session = s
    BY <2>2 DEF Send
  <2> QED
    BY <1>1, <1>5, <1>7, <2>1, <2>3 DEF AccountsInv, IInv, TypeOK, a
<1>9. ActiveLive'
  BY <1>1, <1>7 DEF AccountsInv, CallsSound, ActiveLive
<1>10. \A b : ToRelease(b) => ToRelease(b)'
  BY <1>2, <1>4, RestWaits DEF AccountsInv, IInv
<1>11. ASSUME NEW b \in Agents PROVE LaneSound(b)'
  <2>1. CASE b = a
    <3>1. lane'[b] = s
      BY <1>1, <2>1 DEF AccountsInv, IInv, TypeOK, a
    <3> QED
      BY <1>7, <2>1, <3>1 DEF LaneSound, a
  <2>2. CASE b # a
    <3>1. lane'[b] = lane[b] /\ LaneSound(b)
      BY <1>1, <2>2 DEF AccountsInv, CallsSound, a
    <3>2. lane[b] # NoSession => AgentOf[lane[b]] = b /\ lane[b] # s /\ lane[b] \in Sessions
      BY <2>2, <3>1 DEF LaneSound, a, AccountsInv, IInv, TypeOK
    <3> QED
      BY <1>1, <1>7, <1>10, <3>1, <3>2 DEF LaneSound, AtMostOneGone
  <2> QED
    BY <2>1, <2>2
<1>12. ASSUME NEW r \in Sessions PROVE FlightSound(r)'
  <2>1. CASE r = s
    <3>1. stack' # <<>> /\ Head(stack') = Send(s)
      BY <1>1, <1>2
    <3> QED
      BY <2>1, <3>1 DEF FlightSound
  <2>2. CASE r # s
    <3> SUFFICES ASSUME HasActive(r), Intact(AgentOf[r])
                 PROVE  runtime'[AgentOf[r]] = [session |-> r, turn |-> active'[r].id]
      BY <1>1, <1>7, <2>2 DEF FlightSound, Intact
    <3>1. lane[AgentOf[r]] = r /\ AgentOf[r] # a
      BY <1>1, <2>2, PipelineAssumption DEF AccountsInv, IInv, OneTurnPerAgent, PipelineAssumption, a
    <3>2. Head(stack) # Send(r)
      BY <1>2 DEF Send
    <3>3. runtime[AgentOf[r]] = [session |-> r, turn |-> active[r].id]
      BY <3>2 DEF AccountsInv, CallsSound, FlightSound
    <3> QED
      BY <1>1, <1>7, <2>2, <3>1, <3>3 DEF a
  <2> QED
    BY <2>1, <2>2
<1>13. ASSUME NEW r \in Sessions PROVE WakeSound(r)'
  <2>1. CASE AgentOf[r] = a
    BY <1>7, <2>1 DEF WakeSound, Working, a
  <2>2. CASE AgentOf[r] # a
    <3>1. queue'[r] = queue[r] /\ r # s
      BY <1>1, <2>2 DEF a, AccountsInv, IInv, TypeOK
    <3>2. ToOffer(r) => ToOffer(r)'
      <4> SUFFICES ASSUME ToOffer(r) PROVE ToOffer(r)'
        OBVIOUS
      <4>1. \A c \in Range(stack) : c # Head(stack) => c \in Range(stack')
        BY <1>2, <1>4, RangeHead DEF AccountsInv, IInv, TypeOK
      <4>2. TryStart(r) # Head(stack)
        BY <1>1, <3>1 DEF TryStart
      <4> QED
        BY <1>2, <4>1, <4>2 DEF ToOffer
    <3>3. Working(AgentOf[r]) => Working(AgentOf[r])'
      BY <1>7 DEF Working
    <3> QED
      BY <1>1, <3>1, <3>2, <3>3 DEF AccountsInv, CallsSound, WakeSound, AtMostOneGone
  <2> QED
    BY <2>1, <2>2
<1>14. ASSUME NEW r \in Sessions PROVE TaskSound(r)'
  <2>1. CASE r = s
    BY <1>7, <2>1 DEF TaskSound
  <2>2. CASE r # s
    <3>1. queue'[r] = queue[r]
      BY <1>1, <2>2 DEF AccountsInv, IInv, TypeOK
    <3>2. task'[r] = task[r]
      <4>1. TypeOK
        BY DEF AccountsInv, IInv
      <4> QED
        BY <1>1, <2>2, <4>1, TaskAfterAt
    <3>3. ToRecord(r) => ToRecord(r)'
      BY <1>2, <1>4, RestWaits DEF AccountsInv, IInv
    <3> QED
      BY <1>1, <1>7, <2>2, <3>1, <3>2, <3>3 DEF AccountsInv, CallsSound, TaskSound
  <2> QED
    BY <2>1, <2>2
<1> QED
  BY <1>8, <1>9, <1>11, <1>12, <1>13, <1>14 DEF CallsSound

\* A cleared turn gives back the lane that was held for it, and the handlers offer
\* the agent to all its sessions.
LEMMA ClearedCalls ==
    ASSUME AccountsInv, TypeOK', NEW s \in Sessions, ClearTurn(s), UNCHANGED <<live, queue>>,
           Range(Restart(s)) \subseteq Range(stack'),
           \A c \in Range(stack') : c.call # "send",
           \A a : ToRelease(a) => ToRelease(a)',
           \A r : ToOffer(r) => ToOffer(r)'
    PROVE  /\ SendsFirst' /\ ActiveLive'
           /\ \A a \in Agents : LaneSound(a)'
           /\ \A r \in Sessions : WakeSound(r)'
<1>1. /\ ~HasActive(s)'
      /\ \A r \in Sessions : r # s => active'[r] = active[r] /\ (HasActive(r)' <=> HasActive(r))
  BY DEF ClearTurn, AccountsInv, IInv, TypeOK, HasActive, NoTurn
<1>2. SendsFirst'
  BY NoSend DEF TypeOK
<1>3. ActiveLive'
  BY <1>1 DEF AccountsInv, CallsSound, ActiveLive
<1>4. ASSUME NEW a \in Agents PROVE LaneSound(a)'
  <2> SUFFICES ASSUME lane'[a] # NoSession PROVE LaneSound(a)'
    BY DEF LaneSound
  <2>1. lane'[a] = lane[a] /\ LaneSound(a)
    BY DEF ClearTurn, AccountsInv, CallsSound, IInv, TypeOK
  <2>2. HasActive(lane[a]) => lane[a] # s
    <3> SUFFICES ASSUME HasActive(s), lane[a] = s PROVE FALSE
      OBVIOUS
    <3>1. AgentOf[s] = a /\ s \in live
      BY <2>1 DEF LaneSound, AccountsInv, CallsSound, ActiveLive
    <3>2. lane'[a] = NoSession
      BY <3>1 DEF ClearTurn, AccountsInv, IInv, TypeOK
    <3> QED
      BY <3>2
  <2>3. lane[a] \in Sessions
    BY <2>1 DEF AccountsInv, IInv, TypeOK
  <2> QED
    BY <1>1, <2>1, <2>2, <2>3 DEF LaneSound, AtMostOneGone
<1>5. ASSUME NEW r \in Sessions PROVE WakeSound(r)'
  <2> SUFFICES ASSUME r \in live, queue[r] # <<>>, AtMostOneGone(AgentOf[r])
               PROVE  Working(AgentOf[r])' \/ ToOffer(r)'
    BY DEF WakeSound, AtMostOneGone
  <2>1. CASE ToOffer(r)
    BY <2>1
  <2>2. CASE Working(AgentOf[r])
    <3>1. PICK q \in Sessions : AgentOf[q] = AgentOf[r] /\ HasActive(q)
      BY <2>2 DEF Working
    <3>2. CASE q # s
      BY <1>1, <3>1, <3>2 DEF Working
    <3>3. CASE q = s
      <4>1. s \in live /\ r \in SessionsOf(AgentOf[s])
        BY <3>1, <3>3 DEF AccountsInv, CallsSound, ActiveLive, SessionsOf
      <4>2. TryAgent(AgentOf[s], SessionsOf(AgentOf[s])) \in Range(stack')
        BY <4>1, RangeRestart DEF AccountsInv, IInv, TypeOK
      <4> QED
        BY <3>1, <3>3, <4>1, <4>2 DEF ToOffer, TryAgent
    <3> QED
      BY <3>2, <3>3
  <2> QED
    BY <2>1, <2>2 DEF AccountsInv, CallsSound, WakeSound
<1> QED
  BY <1>2, <1>3, <1>4, <1>5

\* Restart leaves neither a send nor the end of a turn.
LEMMA RestartCalls ==
    ASSUME live \subseteq Sessions, NEW s \in Sessions
    PROVE  \A c \in Range(Restart(s)) : c.call \in {"tryStart", "tryAgent"}
BY RangeRestart DEF TryStart, TryAgent

LEMMA FailedRecords == \A s, t, b : Failed(s, t, b).call = "failed" /\ Failed(s, t, b).session = s
BY DEF Failed

LEMMA FinishedRecords == \A s, t : Finished(s, t).call = "finished" /\ Finished(s, t).session = s
BY DEF Finished

\* A request that cannot be sent: the agent is given back inside the start.
LEMMA RefusedCalls ==
    ASSUME AccountsInv, TypeOK', SendRefused
    PROVE  CallsSound'
<1>1. PICK s \in Sessions :
          /\ Head(stack).session = s
          /\ ClearTurn(s)
          /\ runtime' = [runtime EXCEPT ![AgentOf[s]].turn = 0]
          /\ stack' = Restart(s) \o <<Failed(s, active[s], FALSE)>> \o Tail(stack)
  <2>1. Head(stack).session \in Sessions
    BY TopCall, CallTypes DEF AccountsInv, IInv, SendRefused
  <2> QED
    BY <2>1 DEF SendRefused
<1>2. /\ Next1("send") /\ Head(stack).call = "send" /\ stack # <<>>
      /\ Tail(stack) \in Seq(Calls) /\ UNCHANGED <<live, queue, task>>
  BY TopCall DEF AccountsInv, IInv, SendRefused, Next1
<1>3. Range(stack') = Range(Restart(s)) \cup {Failed(s, active[s], FALSE)} \cup Range(Tail(stack))
  <2> DEFINE p == Restart(s)
  <2> DEFINE c == Failed(s, active[s], FALSE)
  <2> DEFINE q == Tail(stack)
  <2>1. p \in Seq(Calls) /\ c \in Calls /\ q \in Seq(Calls)
    BY <1>2, RestartType, CallsMade DEF AccountsInv, IInv, TypeOK
  <2>2. stack' = p \o <<c>> \o q
    BY <1>1
  <2> HIDE DEF p, c, q
  <2>3. Range(stack') = Range(p) \cup {c} \cup Range(q)
    BY <2>1, <2>2, RangePushed
  <2> QED
    BY <2>3 DEF p, c, q
<1>4. /\ \A a : ToRelease(a) => ToRelease(a)'
      /\ \A r : ToOffer(r) => ToOffer(r)'
      /\ \A r : ToRecord(r) => ToRecord(r)'
  BY <1>2, <1>3, RestWaits DEF AccountsInv, IInv
<1>5. \A c \in Range(stack') : c.call # "send"
  <2>1. \A c \in Range(Tail(stack)) : c.call # "send"
    BY <1>2, NoSendBelow DEF AccountsInv, IInv, CallsSound
  <2>2. \A c \in Range(Restart(s)) : c.call # "send"
    BY RestartCalls DEF AccountsInv, IInv, TypeOK
  <2> QED
    BY ZenonT(60), <1>3, <2>1, <2>2, FailedRecords
<1>6. /\ SendsFirst' /\ ActiveLive'
      /\ \A a \in Agents : LaneSound(a)'
      /\ \A r \in Sessions : WakeSound(r)'
  BY <1>1, <1>2, <1>3, <1>4, <1>5, ClearedCalls
<1>7. HasActive(s) /\ lane[AgentOf[s]] = s
  <2>1. 1 \in 1 .. Len(stack) /\ stack[1] = Head(stack)
    BY <1>2 DEF AccountsInv, IInv, TypeOK
  <2> QED
    BY <1>1, <1>2, <2>1 DEF AccountsInv, CallsSound, SendsFirst
<1>8. /\ ~HasActive(s)'
      /\ \A r \in Sessions : r # s => active'[r] = active[r] /\ (HasActive(r)' <=> HasActive(r))
  BY <1>1 DEF ClearTurn, AccountsInv, IInv, TypeOK, HasActive, NoTurn
<1>9. ASSUME NEW r \in Sessions PROVE FlightSound(r)'
  <2> SUFFICES ASSUME HasActive(r)', Intact(AgentOf[r]), r # s
               PROVE  runtime'[AgentOf[r]] = [session |-> r, turn |-> active'[r].id]
    BY <1>2, <1>8 DEF FlightSound, Intact
  <2>1. HasActive(r) /\ active'[r] = active[r]
    BY <1>8
  <2>2. AgentOf[r] # AgentOf[s]
    BY <1>7, <2>1 DEF AccountsInv, IInv, OneTurnPerAgent
  <2>3. Head(stack) # Send(r)
    BY <1>1 DEF Send
  <2>4. runtime[AgentOf[r]] = [session |-> r, turn |-> active[r].id]
    BY <2>1, <2>3 DEF AccountsInv, CallsSound, FlightSound
  <2> QED
    BY <1>1, <2>1, <2>2, <2>4
<1>10. ASSUME NEW r \in Sessions PROVE TaskSound(r)'
  <2>1. CASE r = s
    <3>1. Failed(s, active[s], FALSE) \in Range(stack')
      BY <1>3
    <3>2. ToRecord(s)'
      <4> DEFINE c == Failed(s, active[s], FALSE)
      <4>1. c \in Range(stack') /\ c.call = "failed" /\ c.session = s
        BY <3>1, FailedRecords
      <4> HIDE DEF c
      <4> QED
        BY <4>1 DEF ToRecord
    <3> QED
      BY <2>1, <3>2 DEF TaskSound
  <2>2. CASE r # s
    BY <1>2, <1>4, <1>8, <2>2 DEF AccountsInv, CallsSound, TaskSound
  <2> QED
    BY <2>1, <2>2
<1> QED
  BY <1>6, <1>9, <1>10 DEF CallsSound

\* A request that ends: its session is the one with the active turn, if the agent
\* has all its sessions.
LEMMA EndedCalls ==
    ASSUME AccountsInv, TypeOK', NEW a \in Agents, RuntimeEnds(a)
    PROVE  CallsSound'
<1>1. PICK s \in Sessions : runtime[a].session = s
  BY DEF RuntimeEnds, RuntimeFinished, RuntimeFailed, AccountsInv, IInv, RuntimeTagged
<1>2. /\ ClearTurn(s)
      /\ runtime' = [runtime EXCEPT ![a].turn = 0]
      /\ Quiet /\ UNCHANGED <<live, queue, task>>
  BY <1>1 DEF RuntimeEnds, RuntimeFinished, RuntimeFailed
<1>3. PICK c \in Calls : /\ c.call \in {"finished", "failed"} /\ c.session = s
                         /\ stack' = Restart(s) \o <<c>>
  <2>1. /\ Finished(s, active[s]) \in Calls
        /\ \A b \in BOOLEAN : Failed(s, active[s], b) \in Calls
    BY CallsMade DEF AccountsInv, IInv, TypeOK
  <2>2. \/ stack' = Restart(s) \o <<Finished(s, active[s])>>
        \/ \E b \in BOOLEAN : stack' = Restart(s) \o <<Failed(s, active[s], b)>>
    BY <1>1 DEF RuntimeEnds, RuntimeFinished, RuntimeFailed
  <2>3. CASE stack' = Restart(s) \o <<Finished(s, active[s])>>
    BY <2>1, <2>3, FinishedRecords
  <2>4. ASSUME NEW b \in BOOLEAN, stack' = Restart(s) \o <<Failed(s, active[s], b)>>
        PROVE  \E c \in Calls : /\ c.call \in {"finished", "failed"} /\ c.session = s
                                /\ stack' = Restart(s) \o <<c>>
    <3>1. Failed(s, active[s], b) \in Calls
      BY <2>1
    <3> QED
      BY <2>4, <3>1, FailedRecords
  <2> QED
    BY <2>2, <2>3, <2>4
<1>4. Range(stack') = Range(Restart(s)) \cup {c}
  <2>1. Restart(s) \in Seq(Calls)
    BY RestartType DEF AccountsInv, IInv, TypeOK
  <2> QED
    BY <1>3, <2>1, RangePushed
<1>5. \A d \in Range(stack') : d.call # "send"
  BY <1>3, <1>4, RestartCalls DEF AccountsInv, IInv, TypeOK
<1>6. /\ SendsFirst' /\ ActiveLive'
      /\ \A b \in Agents : LaneSound(b)'
      /\ \A r \in Sessions : WakeSound(r)'
  BY <1>2, <1>4, <1>5, NothingWaits, ClearedCalls
<1>7. /\ ~HasActive(s)'
      /\ \A r \in Sessions : r # s => active'[r] = active[r] /\ (HasActive(r)' <=> HasActive(r))
  BY <1>2 DEF ClearTurn, AccountsInv, IInv, TypeOK, HasActive, NoTurn
<1>8. ASSUME NEW r \in Sessions PROVE FlightSound(r)'
  <2> SUFFICES ASSUME HasActive(r)', Intact(AgentOf[r]), r # s
               PROVE  runtime'[AgentOf[r]] = [session |-> r, turn |-> active'[r].id]
    BY <1>2, <1>7 DEF FlightSound, Intact
  <2>1. HasActive(r) /\ active'[r] = active[r]
    BY <1>7
  <2>2. runtime[AgentOf[r]] = [session |-> r, turn |-> active[r].id]
    BY <1>2, <2>1 DEF AccountsInv, CallsSound, FlightSound, Quiet
  <2>3. AgentOf[r] # a
    BY <1>1, <2>2
  <2> QED
    BY <1>2, <2>1, <2>2, <2>3
<1>9. ASSUME NEW r \in Sessions PROVE TaskSound(r)'
  <2>1. CASE r = s
    <3>1. ToRecord(s)'
      BY <1>3, <1>4 DEF ToRecord
    <3> QED
      BY <2>1, <3>1 DEF TaskSound
  <2>2. CASE r # s
    BY <1>2, <1>7, <2>2, NothingWaits DEF AccountsInv, CallsSound, TaskSound
  <2> QED
    BY <2>1, <2>2
<1> QED
  BY <1>6, <1>8, <1>9 DEF CallsSound

\* The user stops the active turn of a session.
LEMMA AbortCalls ==
    ASSUME AccountsInv, TypeOK', NEW s \in Sessions, AbortTurn(s)
    PROVE  CallsSound'
<1>1. /\ ClearTurn(s) /\ HasActive(s)
      /\ runtime' = [runtime EXCEPT ![AgentOf[s]].turn = 0]
      /\ task' = TaskAfter(s, "canceled", active[s])
      /\ stack' = Restart(s)
      /\ Quiet /\ UNCHANGED <<live, queue>>
  BY DEF AbortTurn
<1>2. \A d \in Range(stack') : d.call # "send"
  BY <1>1, RestartCalls DEF AccountsInv, IInv, TypeOK
<1>3. /\ SendsFirst' /\ ActiveLive'
      /\ \A b \in Agents : LaneSound(b)'
      /\ \A r \in Sessions : WakeSound(r)'
  BY <1>1, <1>2, NothingWaits, ClearedCalls
<1>4. /\ ~HasActive(s)'
      /\ \A r \in Sessions : r # s => active'[r] = active[r] /\ (HasActive(r)' <=> HasActive(r))
  BY <1>1 DEF ClearTurn, AccountsInv, IInv, TypeOK, HasActive, NoTurn
<1>5. ASSUME NEW r \in Sessions PROVE FlightSound(r)'
  <2> SUFFICES ASSUME HasActive(r)', Intact(AgentOf[r]), r # s
               PROVE  runtime'[AgentOf[r]] = [session |-> r, turn |-> active'[r].id]
    BY <1>1, <1>4 DEF FlightSound, Intact
  <2>1. HasActive(r) /\ active'[r] = active[r]
    BY <1>4
  <2>2. runtime[AgentOf[r]] = [session |-> r, turn |-> active[r].id]
    BY <1>1, <2>1 DEF AccountsInv, CallsSound, FlightSound, Quiet
  <2>3. AgentOf[r] # AgentOf[s]
    BY <1>1, <2>1 DEF AccountsInv, IInv, OneTurnPerAgent
  <2> QED
    BY <1>1, <2>1, <2>2, <2>3
<1>6. ASSUME NEW r \in Sessions PROVE TaskSound(r)'
  <2>0. TypeOK
    BY DEF AccountsInv, IInv
  <2>1. CASE r = s
    <3>1. task'[s].state = "canceled"
      BY <1>1, <2>0, TaskAfterAt
    <3> QED
      BY <2>1, <3>1 DEF TaskSound
  <2>2. CASE r # s
    <3>1. task'[r] = task[r]
      BY <1>1, <2>0, <2>2, TaskAfterAt
    <3> QED
      BY <1>1, <1>4, <2>2, <3>1, NothingWaits DEF AccountsInv, CallsSound, TaskSound
  <2> QED
    BY <2>1, <2>2
<1> QED
  BY <1>3, <1>5, <1>6 DEF CallsSound

\* Whoever holds the lane of an agent works, while at most one session is gone and
\* the lane is not about to be forgotten.
LEMMA HeldWorks ==
    ASSUME TypeOK, NEW a \in Agents, LaneSound(a), lane[a] # NoSession, AtMostOneGone(a)
    PROVE  Working(a)
BY DEF LaneSound, Working, TypeOK

\* A call that returns leaves what is below it, and nothing is sent.
LEMMA Popped ==
    ASSUME AccountsInv, TypeOK', NEW c, Next1(c), Return
    PROVE  /\ SendsFirst'
           /\ \A d \in Range(stack) : d # Head(stack) => d \in Range(stack')
           /\ Range(Tail(stack)) \subseteq Range(stack')
           /\ Head(stack).call = c
<1>1. stack # <<>> /\ stack' = Tail(stack) /\ TypeOK /\ SendsFirst /\ Head(stack).call = c
  BY DEF Next1, Return, AccountsInv, IInv, CallsSound
<1>2. SendsFirst'
  BY <1>1, NoSendBelow, NoSend DEF TypeOK
<1> QED
  BY <1>1, <1>2, RangeHead DEF TypeOK

\* A start that is refused: the session waits for the turn that holds the agent.
LEMMA SkipCalls ==
    ASSUME AccountsInv, TypeOK', SkipStart
    PROVE  CallsSound'
<1>1. PICK s \in Sessions : Head(stack).session = s /\ ~MayStart(s)
  <2>1. Head(stack).session \in Sessions
    BY TopCall, CallTypes DEF AccountsInv, IInv, SkipStart
  <2> QED
    BY <2>1 DEF SkipStart
<1>2. /\ Next1("tryStart") /\ Return
      /\ UNCHANGED <<live, queue, active, lane, runtime, task>>
      /\ TypeOK /\ CallsSound
  BY DEF SkipStart, AccountsInv, IInv
<1>3. /\ SendsFirst'
      /\ \A d \in Range(stack) : d # Head(stack) => d \in Range(stack')
      /\ Range(Tail(stack)) \subseteq Range(stack')
      /\ Head(stack).call = "tryStart"
  BY <1>2, Popped
<1>4. ActiveLive'
  BY <1>2 DEF CallsSound, ActiveLive, HasActive
<1>5. \A a \in Agents : LaneSound(a)'
  BY <1>2, <1>3, RestWaits, LaneFrame DEF CallsSound
<1>6. \A r \in Sessions : FlightSound(r)'
  BY <1>2, <1>3, FlightFrame DEF CallsSound, Send
<1>7. ASSUME NEW r \in Sessions PROVE WakeSound(r)'
  <2>1. ASSUME r \in live, queue[r] # <<>>, AtMostOneGone(AgentOf[r]), TryStart(r) = Head(stack)
        PROVE  Working(AgentOf[r])
    <3>1. r = s
      BY <1>1, <2>1 DEF TryStart
    <3>2. HasActive(r) \/ lane[AgentOf[r]] # NoSession
      BY <1>1, <2>1, <3>1 DEF MayStart
    <3>3. AgentOf[r] \in Agents
      BY PipelineAssumption DEF PipelineAssumption
    <3> QED
      BY <1>2, <2>1, <3>2, <3>3, HeldWorks DEF CallsSound, Working
  <2>2. ToOffer(r) => ToOffer(r)' \/ TryStart(r) = Head(stack)
    BY <1>3 DEF ToOffer
  <2> QED
    BY <1>2, <2>1, <2>2 DEF CallsSound, WakeSound, Working, HasActive, AtMostOneGone
<1>8. \A r \in Sessions : TaskSound(r)'
  BY <1>2, <1>3, RestWaits, TaskFrame DEF CallsSound
<1> QED
  BY <1>3, <1>4, <1>5, <1>6, <1>7, <1>8 DEF CallsSound

\* Offering the agent ends when it works or every session has been offered.
LEMMA StopCalls ==
    ASSUME AccountsInv, TypeOK', StopOffering
    PROVE  CallsSound'
<1>1. /\ Next1("tryAgent") /\ Return
      /\ UNCHANGED <<live, queue, active, lane, runtime, task>>
      /\ TypeOK /\ CallsSound
      /\ Head(stack).rest = {} \/ lane[Head(stack).agent] # NoSession
  BY DEF StopOffering, AccountsInv, IInv
<1>2. /\ SendsFirst'
      /\ \A d \in Range(stack) : d # Head(stack) => d \in Range(stack')
      /\ Range(Tail(stack)) \subseteq Range(stack')
      /\ Head(stack).call = "tryAgent"
  BY <1>1, Popped
<1>3. ActiveLive'
  BY <1>1 DEF CallsSound, ActiveLive, HasActive
<1>4. \A a \in Agents : LaneSound(a)'
  BY <1>1, <1>2, RestWaits, LaneFrame DEF CallsSound
<1>5. \A r \in Sessions : FlightSound(r)'
  BY <1>1, <1>2, FlightFrame DEF CallsSound, Send
<1>6. ASSUME NEW r \in Sessions PROVE WakeSound(r)'
  <2>1. ASSUME AtMostOneGone(AgentOf[r]), Head(stack).agent = AgentOf[r], r \in Head(stack).rest
        PROVE  Working(AgentOf[r])
    <3>1. AgentOf[r] \in Agents
      BY PipelineAssumption DEF PipelineAssumption
    <3> QED
      BY <1>1, <2>1, <3>1, HeldWorks DEF CallsSound
  <2>2. ToOffer(r) =>
            ToOffer(r)' \/ (Head(stack).agent = AgentOf[r] /\ r \in Head(stack).rest)
    <3>1. TryStart(r) # Head(stack)
      BY <1>2 DEF TryStart
    <3> QED
      BY <1>2, <3>1 DEF ToOffer
  <2> QED
    BY <1>1, <2>1, <2>2 DEF CallsSound, WakeSound, Working, HasActive, AtMostOneGone
<1>7. \A r \in Sessions : TaskSound(r)'
  BY <1>1, <1>2, RestWaits, TaskFrame DEF CallsSound
<1> QED
  BY <1>2, <1>3, <1>4, <1>5, <1>6, <1>7 DEF CallsSound

\* The next session of the agent is tried, and the others keep waiting.
LEMMA OfferCalls ==
    ASSUME AccountsInv, TypeOK', OfferSession
    PROVE  CallsSound'
<1>1. PICK a \in Agents, rest \in SUBSET Sessions, s \in Sessions :
          /\ s \in rest
          /\ Head(stack).agent = a /\ Head(stack).rest = rest
          /\ stack' = <<TryStart(s), TryAgent(a, rest \ {s})>> \o Tail(stack)
  <2>1. Head(stack).agent \in Agents /\ Head(stack).rest \in SUBSET Sessions
    BY TopCall, CallTypes DEF AccountsInv, IInv, OfferSession
  <2>2. PICK s \in Head(stack).rest :
            stack' = <<TryStart(s), TryAgent(Head(stack).agent, Head(stack).rest \ {s})>> \o Tail(stack)
    BY DEF OfferSession
  <2> QED
    BY <2>1, <2>2
<1>2. /\ Next1("tryAgent") /\ Head(stack).call = "tryAgent" /\ stack # <<>>
      /\ Tail(stack) \in Seq(Calls)
      /\ UNCHANGED <<live, queue, active, lane, runtime, task>>
      /\ TypeOK /\ CallsSound /\ SendsFirst
  BY TopCall DEF OfferSession, AccountsInv, IInv, CallsSound, Next1
<1>3. Range(stack') = {TryStart(s), TryAgent(a, rest \ {s})} \cup Range(Tail(stack))
  <2> DEFINE d == TryStart(s)
  <2> DEFINE c == TryAgent(a, rest \ {s})
  <2>1. d \in Calls /\ c \in Calls
    <3>1. rest \ {s} \in SUBSET Sessions
      OBVIOUS
    <3> QED
      BY <3>1, CallsMade
  <2> DEFINE q == Tail(stack)
  <2>2. stack' = <<d, c>> \o q /\ q \in Seq(Calls)
    BY <1>1, <1>2
  <2> HIDE DEF c, d, q
  <2>3. Range(<<d, c>> \o q) = {d, c} \cup Range(q)
    BY <2>1, <2>2, RangePushedTwo
  <2> QED
    BY <2>2, <2>3 DEF c, d, q
<1>4. \A d \in Range(stack) : d # Head(stack) => d \in Range(stack')
  BY <1>2, <1>3, RangeHead DEF TypeOK
<1>5. SendsFirst'
  <2>1. \A d \in Range(stack') : d.call # "send"
    BY <1>2, <1>3, NoSendBelow DEF TryStart, TryAgent
  <2> QED
    BY <2>1, NoSend DEF TypeOK
<1>6. ActiveLive'
  BY <1>2 DEF CallsSound, ActiveLive, HasActive
<1>7. \A b \in Agents : LaneSound(b)'
  BY <1>2, <1>3, RestWaits, LaneFrame DEF CallsSound
<1>8. \A r \in Sessions : FlightSound(r)'
  BY <1>2, FlightFrame DEF CallsSound, Send
<1>9. ASSUME NEW r \in Sessions PROVE WakeSound(r)'
  <2>1. ToOffer(r) => ToOffer(r)'
    <3>1. CASE r = s
      BY <1>3, <3>1 DEF ToOffer
    <3>2. CASE r # s /\ a = AgentOf[r] /\ r \in rest
      <4> DEFINE c == TryAgent(a, rest \ {s})
      <4>1. c \in Range(stack') /\ c.call = "tryAgent" /\ c.agent = a /\ c.rest = rest \ {s}
        BY <1>3 DEF TryAgent
      <4> HIDE DEF c
      <4> QED
        BY <3>2, <4>1 DEF ToOffer
    <3>3. CASE ~(a = AgentOf[r] /\ r \in rest)
      <4>1. TryStart(r) # Head(stack)
        BY <1>2 DEF TryStart
      <4> QED
        BY <1>1, <1>4, <3>3, <4>1 DEF ToOffer
    <3> QED
      BY <3>1, <3>2, <3>3
  <2> QED
    BY <1>2, <2>1, WakeFrame DEF CallsSound
<1>10. \A r \in Sessions : TaskSound(r)'
  BY <1>2, <1>3, RestWaits, TaskFrame DEF CallsSound
<1> QED
  BY <1>5, <1>6, <1>7, <1>8, <1>9, <1>10 DEF CallsSound

\* The runtime takes the turn: it is in flight.
LEMMA AcceptedCalls ==
    ASSUME AccountsInv, TypeOK', SendAccepted
    PROVE  CallsSound'
<1>1. PICK s \in Sessions :
          /\ Head(stack).session = s
          /\ runtime' = [runtime EXCEPT ![AgentOf[s]] = [session |-> s, turn |-> active[s].id]]
  <2>1. Head(stack).session \in Sessions
    BY TopCall, CallTypes DEF AccountsInv, IInv, SendAccepted
  <2> QED
    BY <2>1 DEF SendAccepted
<1>2. /\ Next1("send") /\ Return /\ stack # <<>>
      /\ UNCHANGED <<live, queue, active, lane, task>>
      /\ TypeOK /\ CallsSound
  BY DEF SendAccepted, AccountsInv, IInv, Next1
<1>3. /\ SendsFirst'
      /\ Range(Tail(stack)) \subseteq Range(stack')
      /\ Head(stack).call = "send"
  BY <1>2, Popped
<1>4. HasActive(s) /\ lane[AgentOf[s]] = s
  <2>1. 1 \in 1 .. Len(stack) /\ stack[1] = Head(stack)
    BY <1>2 DEF TypeOK
  <2> QED
    BY <1>1, <1>2, <1>3, <2>1 DEF CallsSound, SendsFirst
<1>5. ActiveLive'
  BY <1>2 DEF CallsSound, ActiveLive, HasActive
<1>6. \A a \in Agents : LaneSound(a)'
  BY <1>2, <1>3, RestWaits, LaneFrame DEF CallsSound
<1>7. ASSUME NEW r \in Sessions PROVE FlightSound(r)'
  <2> SUFFICES ASSUME HasActive(r), Intact(AgentOf[r])
               PROVE  runtime'[AgentOf[r]] = [session |-> r, turn |-> active[r].id]
    BY <1>2 DEF FlightSound, HasActive, Intact
  <2>1. AgentOf[r] \in Agents
    BY PipelineAssumption DEF PipelineAssumption
  <2>2. CASE r = s
    BY <1>1, <1>2, <2>1, <2>2 DEF TypeOK
  <2>3. CASE r # s
    <3>1. AgentOf[r] # AgentOf[s]
      BY <1>4, <2>3 DEF AccountsInv, IInv, OneTurnPerAgent
    <3>2. Head(stack) # Send(r)
      BY <1>1, <2>3 DEF Send
    <3> QED
      BY <1>1, <1>2, <3>1, <3>2 DEF CallsSound, FlightSound
  <2> QED
    BY <2>2, <2>3
<1>8. \A r \in Sessions : WakeSound(r)'
  BY <1>2, <1>3, RestWaits, WakeFrame DEF CallsSound
<1>9. \A r \in Sessions : TaskSound(r)'
  BY <1>2, <1>3, RestWaits, TaskFrame DEF CallsSound
<1> QED
  BY <1>3, <1>5, <1>6, <1>7, <1>8, <1>9 DEF CallsSound

\* The end of a turn is recorded: the session does not show a waiting or running
\* turn any more, unless another start has said so since.
LEMMA RecordCalls ==
    ASSUME AccountsInv, TypeOK', RecordFinished \/ RecordFailed
    PROVE  CallsSound'
<1>1. PICK c \in {"finished", "failed"} : Next1(c)
  BY DEF RecordFinished, RecordFailed
<1>2. PICK s \in Sessions, t \in Turn : Head(stack).session = s /\ Head(stack).turn = t
  BY <1>1, TopCall, CallTypes DEF AccountsInv, IInv
<1>3. /\ Return /\ UNCHANGED <<live, queue, active, lane, runtime>>
      /\ TypeOK /\ CallsSound
  BY DEF RecordFinished, RecordFailed, AccountsInv, IInv
<1>4. /\ SendsFirst'
      /\ \A d \in Range(stack) : d # Head(stack) => d \in Range(stack')
      /\ Range(Tail(stack)) \subseteq Range(stack')
      /\ Head(stack).call = c
  BY <1>1, <1>3, Popped
<1>5. ActiveLive'
  BY <1>3 DEF CallsSound, ActiveLive, HasActive
<1>6. \A a \in Agents : LaneSound(a)'
  BY <1>1, <1>3, <1>4, RestWaits, LaneFrame DEF CallsSound
<1>7. \A r \in Sessions : FlightSound(r)'
  BY <1>1, <1>3, <1>4, FlightFrame DEF CallsSound, Send
<1>8. \A r \in Sessions : WakeSound(r)'
  BY <1>1, <1>3, <1>4, RestWaits, WakeFrame DEF CallsSound
<1>9. ASSUME NEW r \in Sessions PROVE TaskSound(r)'
  <2>1. \/ task' = task /\ task[s].state = "blocked"
        \/ \E state \in {"done", "blocked", "failed"} : task' = TaskAfter(s, state, t)
    BY <1>2 DEF RecordFinished, RecordFailed, KeepsTask
  <2>2. CASE r = s
    <3>1. task'[s].state \in {"done", "blocked", "failed"}
      BY <1>3, <2>1, TaskAfterAt
    <3> QED
      BY <2>2, <3>1 DEF TaskSound
  <2>3. CASE r # s
    <3>1. task'[r] = task[r]
      BY <1>3, <2>1, <2>3, TaskAfterAt
    <3>2. ToRecord(r) => ToRecord(r)'
      BY <1>2, <1>4, <2>3 DEF ToRecord
    <3> QED
      BY <1>3, <3>1, <3>2, TaskFrame DEF CallsSound
  <2> QED
    BY <2>2, <2>3
<1> QED
  BY <1>4, <1>5, <1>6, <1>7, <1>8, <1>9 DEF CallsSound

\* The end of a removal forgets the agent's lane.
LEMMA ReleaseCalls ==
    ASSUME AccountsInv, TypeOK', ReleaseRuntime
    PROVE  CallsSound'
<1>1. PICK a \in Agents : Head(stack).agent = a
  BY TopCall, CallTypes DEF AccountsInv, IInv, ReleaseRuntime
<1>2. /\ Next1("release") /\ Return /\ UNCHANGED <<live, queue, active, task>>
      /\ lane' = [lane EXCEPT ![a] = NoSession]
      /\ \A b \in Agents : b # a => runtime'[b] = runtime[b]
      /\ TypeOK /\ CallsSound /\ OneTurnPerAgent
  <2>1. TypeOK /\ CallsSound /\ OneTurnPerAgent
    BY DEF AccountsInv, IInv
  <2>2. /\ Next1("release") /\ Return /\ UNCHANGED <<live, queue, active, task>>
        /\ lane' = [lane EXCEPT ![a] = NoSession]
        /\ \/ runtime' = [runtime EXCEPT ![a] = [session |-> NoSession, turn |-> 0]]
           \/ runtime' = runtime
    BY <1>1 DEF ReleaseRuntime
  <2> QED
    BY <2>1, <2>2 DEF TypeOK
<1>3. /\ SendsFirst'
      /\ \A d \in Range(stack) : d # Head(stack) => d \in Range(stack')
      /\ Range(Tail(stack)) \subseteq Range(stack')
      /\ Head(stack).call = "release"
  BY <1>2, Popped
<1>4. ~Intact(a)
  BY <1>1, <1>2, <1>3 DEF AccountsInv, IInv, ReleaseAfterRemoval, SafeCalls, Next1
<1>5. ActiveLive'
  BY <1>2 DEF CallsSound, ActiveLive, HasActive
<1>6. ASSUME NEW b \in Agents PROVE LaneSound(b)'
  <2>1. CASE b = a
    BY <1>2, <2>1 DEF LaneSound, TypeOK
  <2>2. CASE b # a
    <3>1. ToRelease(b) => ToRelease(b)'
      BY <1>1, <1>3, <2>2 DEF ToRelease
    <3> QED
      BY <1>2, <2>2, <3>1 DEF CallsSound, LaneSound, HasActive, AtMostOneGone, TypeOK
  <2> QED
    BY <2>1, <2>2
<1>7. ASSUME NEW r \in Sessions PROVE FlightSound(r)'
  <2>1. Head(stack) # Send(r) /\ AgentOf[r] \in Agents
    BY <1>3, PipelineAssumption DEF Send, PipelineAssumption
  <2> QED
    BY <1>2, <1>4, <2>1 DEF CallsSound, FlightSound, HasActive, Intact
<1>8. \A r \in Sessions : WakeSound(r)'
  BY <1>2, <1>3, RestWaits, WakeFrame DEF CallsSound
<1>9. \A r \in Sessions : TaskSound(r)'
  BY <1>2, <1>3, RestWaits, TaskFrame DEF CallsSound
<1> QED
  BY <1>3, <1>5, <1>6, <1>7, <1>8, <1>9 DEF CallsSound

\* A session is removed: the others are offered its agent, and then the lane of the
\* agent is forgotten, whoever holds it.
LEMMA RemoveCalls ==
    ASSUME AccountsInv, TypeOK', NEW s \in Sessions, RemoveSession(s)
    PROVE  CallsSound'
<1> DEFINE a == AgentOf[s]
<1> DEFINE others == SessionsOf(a) \ {s}
<1> DEFINE running == runtime[a].turn # 0 /\ lane[a] = s
<1>1. /\ Quiet /\ s \in live /\ live' = live \ {s}
      /\ runtime' = IF running THEN [runtime EXCEPT ![a].turn = 0] ELSE runtime
      /\ lane' = IF running THEN [lane EXCEPT ![a] = NoSession] ELSE lane
      /\ queue' = [queue EXCEPT ![s] = <<>>]
      /\ active' = [active EXCEPT ![s] = NoTurn]
      /\ task' = [task EXCEPT ![s] = [state |-> "none", turn |-> 0]]
      /\ stack' = <<TryAgent(a, others), Release(a, s)>>
  BY DEF RemoveSession
<1>2. TypeOK /\ CallsSound
  BY DEF AccountsInv, IInv
<1>3. a \in Agents
  BY PipelineAssumption DEF PipelineAssumption
<1>4. /\ ~HasActive(s)'
      /\ \A r \in Sessions : r # s => /\ active'[r] = active[r] /\ (HasActive(r)' <=> HasActive(r))
                                      /\ queue'[r] = queue[r] /\ task'[r] = task[r]
  BY <1>1, <1>2 DEF TypeOK, HasActive, NoTurn
<1>5. /\ \E c \in Range(stack') : c.call = "tryAgent" /\ c.agent = a /\ c.rest = others
      /\ ToRelease(a)'
      /\ \A c \in Range(stack') : c.call # "send"
  <2> DEFINE c == TryAgent(a, others)
  <2> DEFINE d == Release(a, s)
  <2>1. /\ c.call = "tryAgent" /\ c.agent = a /\ c.rest = others
        /\ d.call = "release" /\ d.agent = a
    BY DEF TryAgent, Release
  <2> HIDE DEF others
  <2>2. Range(stack') = {c, d}
    <3>1. stack' = <<c, d>>
      BY <1>1
    <3> HIDE DEF c, d
    <3> QED
      BY <3>1, RangeTwo
  <2> HIDE DEF c, d
  <2> QED
    BY <2>1, <2>2 DEF ToRelease
<1>6. SendsFirst'
  BY <1>5, NoSend DEF TypeOK
<1>7. ActiveLive'
  BY <1>1, <1>2, <1>4 DEF CallsSound, ActiveLive
<1>8. ASSUME NEW b \in Agents PROVE LaneSound(b)'
  <2> SUFFICES ASSUME lane'[b] # NoSession
               PROVE  /\ AgentOf[lane'[b]] = b
                      /\ active'[lane'[b]].id # 0 \/ (ToRelease(b)' /\ ~AtMostOneGone(b)')
    BY DEF LaneSound, HasActive
  <2>1. /\ lane'[b] = lane[b] /\ lane[b] \in Sessions
        /\ AgentOf[lane[b]] = b /\ HasActive(lane[b])
    <3>1. lane'[b] = lane[b] /\ lane[b] \in Sessions
      BY <1>1, <1>2 DEF TypeOK
    <3> QED
      BY <1>1, <1>2, <3>1, NothingWaits DEF CallsSound, LaneSound
  <2>2. CASE lane[b] # s
    BY <1>4, <2>1, <2>2 DEF HasActive
  <2>3. CASE lane[b] = s
    <3>1. b = a /\ HasActive(s)
      BY <2>1, <2>3
    <3>2. runtime[a].turn = 0
      <4>1. running => lane'[a] = NoSession
        BY <1>1, <1>2, <1>3 DEF TypeOK
      <4> QED
        BY <2>1, <2>3, <3>1, <4>1
    <3>3. ~Intact(a)
      <4>1. FlightSound(s) /\ stack = <<>>
        BY <1>1, <1>2 DEF CallsSound, Quiet
      <4>2. runtime[a] = [session |-> s, turn |-> active[s].id] => active[s].id = 0
        BY <3>2
      <4> QED
        BY <3>1, <4>1, <4>2 DEF FlightSound, HasActive
    <3>4. ~AtMostOneGone(a)'
      <4>1. PICK r \in Sessions : AgentOf[r] = a /\ r \notin live
        BY <3>3 DEF Intact
      <4> QED
        BY <1>1, <4>1 DEF AtMostOneGone
    <3> QED
      BY <1>5, <2>1, <3>1, <3>4
  <2> QED
    BY <2>2, <2>3
<1>9. ASSUME NEW r \in Sessions PROVE FlightSound(r)'
  <2> SUFFICES ASSUME HasActive(r)', Intact(AgentOf[r])'
               PROVE  runtime'[AgentOf[r]] = [session |-> r, turn |-> active'[r].id]
    BY DEF FlightSound
  <2>1. AgentOf[r] # a /\ Intact(AgentOf[r]) /\ r # s
    BY <1>1 DEF Intact
  <2> QED
    BY <1>1, <1>2, <1>4, <2>1 DEF CallsSound, FlightSound, Quiet
<1>10. ASSUME NEW r \in Sessions PROVE WakeSound(r)'
  <2> SUFFICES ASSUME r \in live, r # s, queue[r] # <<>>, AtMostOneGone(AgentOf[r])'
               PROVE  Working(AgentOf[r])' \/ ToOffer(r)'
    BY <1>1, <1>2, <1>4 DEF WakeSound, TypeOK
  <2>1. CASE AgentOf[r] = a
    <3>1. r \in others
      BY <2>1 DEF SessionsOf
    <3> QED
      BY <1>5, <2>1, <3>1 DEF ToOffer
  <2>2. CASE AgentOf[r] # a
    <3>1. AtMostOneGone(AgentOf[r])
      BY <1>1 DEF AtMostOneGone
    <3>2. PICK q \in Sessions : AgentOf[q] = AgentOf[r] /\ HasActive(q)
      BY <1>1, <1>2, <3>1, NothingWaits DEF CallsSound, WakeSound, Working
    <3>3. q # s
      BY <2>2, <3>2
    <3> QED
      BY <1>4, <3>2, <3>3 DEF Working
  <2> QED
    BY <2>1, <2>2
<1>11. ASSUME NEW r \in Sessions PROVE TaskSound(r)'
  BY <1>1, <1>2, <1>4, NothingWaits DEF CallsSound, TaskSound
<1> QED
  BY <1>6, <1>7, <1>8, <1>9, <1>10, <1>11 DEF CallsSound

\* A message or a reply becomes a turn, and the handler tries to start it.
LEMMA ArrivalCalls ==
    ASSUME AccountsInv, TypeOK', TeammateReply \/ \E s \in Sessions : EnqueueMessage(s)
    PROVE  CallsSound'
<1>1. TypeOK /\ CallsSound
  BY DEF AccountsInv, IInv
<1>2. PICK s \in Sessions, t \in Turn :
          /\ queue' = [queue EXCEPT ![s] = Append(@, t)]
          /\ stack' = <<TryStart(s)>>
          /\ \A r \in Sessions : r # s => task'[r] = task[r]
  <2>1. nextTurn \in Nat
    BY <1>1 DEF TypeOK
  <2>2. CASE TeammateReply
    <3>1. [id |-> nextTurn, source |-> "internal", merged |-> 1] \in Turn /\ current \in Sessions
      BY <1>1, <2>1, <2>2 DEF Turn, Sources, TeammateReply, TypeOK
    <3> QED
      BY <2>2, <3>1 DEF TeammateReply, Enqueued
  <2>3. ASSUME NEW s \in Sessions, EnqueueMessage(s)
        PROVE  \E t \in Turn :
                  /\ queue' = [queue EXCEPT ![s] = Append(@, t)]
                  /\ stack' = <<TryStart(s)>>
                  /\ \A r \in Sessions : r # s => task'[r] = task[r]
    <3> DEFINE t == [id |-> nextTurn, source |-> "user", merged |-> 1]
    <3>1. t \in Turn
      BY <2>1 DEF Turn, Sources
    <3>2. queue' = [queue EXCEPT ![s] = Append(@, t)] /\ task' = TaskAfter(s, "queued", t)
          /\ stack' = <<TryStart(s)>>
      BY <2>3 DEF EnqueueMessage, Enqueued
    <3> HIDE DEF t
    <3>3. \A r \in Sessions : r # s => task'[r] = task[r]
      BY <1>1, <3>2, TaskAfterAt
    <3> QED
      BY <3>1, <3>2, <3>3
  <2> QED
    BY <2>2, <2>3
<1>3. Quiet /\ UNCHANGED <<live, active, lane, runtime>>
  BY DEF TeammateReply, EnqueueMessage
<1>4. Range(stack') = {TryStart(s)}
  BY <1>2, RangeOne
<1>5. /\ queue'[s] # <<>>
      /\ \A r \in Sessions : r # s => queue'[r] = queue[r]
  BY <1>1, <1>2 DEF TypeOK
<1>6. SendsFirst'
  BY <1>4, NoSend DEF TypeOK, TryStart
<1>7. ActiveLive'
  BY <1>1, <1>3 DEF CallsSound, ActiveLive, HasActive
<1>8. \A a \in Agents : LaneSound(a)'
  BY <1>1, <1>3, NothingWaits, LaneFrame DEF CallsSound
<1>9. \A r \in Sessions : FlightSound(r)'
  BY <1>1, <1>3, FlightFrame DEF CallsSound, Quiet
<1>10. ASSUME NEW r \in Sessions PROVE WakeSound(r)'
  <2>1. CASE r = s
    BY <1>4, <2>1 DEF WakeSound, ToOffer
  <2>2. CASE r # s
    BY <1>1, <1>3, <1>5, <2>2, NothingWaits
       DEF CallsSound, WakeSound, Working, HasActive, AtMostOneGone
  <2> QED
    BY <2>1, <2>2
<1>11. ASSUME NEW r \in Sessions PROVE TaskSound(r)'
  <2>1. CASE r = s
    BY <1>5, <2>1 DEF TaskSound
  <2>2. CASE r # s
    BY <1>1, <1>2, <1>3, <1>5, <2>2, NothingWaits DEF CallsSound, TaskSound, HasActive
  <2> QED
    BY <2>1, <2>2
<1> QED
  BY <1>6, <1>7, <1>8, <1>9, <1>10, <1>11 DEF CallsSound

\* What happens while no handler runs and leaves no call: merges, switches of the
\* session shown, and the events of delegate jobs.
LEMMA QuietCalls ==
    ASSUME AccountsInv, TypeOK', Quiet, UNCHANGED <<live, active, lane, stack>>,
           \A r \in Sessions : queue'[r] = <<>> <=> queue[r] = <<>>,
           \A r \in Sessions : \/ task'[r] = task[r]
                              \/ task'[r].state \notin {"queued", "running"}
                              \/ HasActive(r) \/ queue[r] # <<>>,
           \A a \in Agents : runtime'[a] = runtime[a] \/ runtime[a].turn = 0
    PROVE  CallsSound'
<1>1. TypeOK /\ CallsSound
  BY DEF AccountsInv, IInv
<1>2. SendsFirst'
  BY DEF SendsFirst, Quiet
<1>3. ActiveLive'
  BY <1>1 DEF CallsSound, ActiveLive, HasActive
<1>4. \A a \in Agents : LaneSound(a)'
  BY <1>1, NothingWaits, LaneFrame DEF CallsSound
<1>5. ASSUME NEW r \in Sessions PROVE FlightSound(r)'
  <2> SUFFICES ASSUME HasActive(r), Intact(AgentOf[r])
               PROVE  runtime'[AgentOf[r]] = [session |-> r, turn |-> active[r].id]
    BY DEF FlightSound, HasActive, Intact
  <2>1. runtime[AgentOf[r]] = [session |-> r, turn |-> active[r].id]
    BY <1>1 DEF CallsSound, FlightSound, Quiet
  <2>2. runtime[AgentOf[r]].turn # 0
    BY <2>1 DEF HasActive
  <2> QED
    BY <2>1, <2>2, PipelineAssumption DEF PipelineAssumption
<1>6. \A r \in Sessions : WakeSound(r)'
  BY <1>1, NothingWaits DEF CallsSound, WakeSound, Working, HasActive, AtMostOneGone
<1>7. \A r \in Sessions : TaskSound(r)'
  BY <1>1, NothingWaits DEF CallsSound, TaskSound, HasActive
<1> QED
  BY <1>2, <1>3, <1>4, <1>5, <1>6, <1>7 DEF CallsSound

LEMMA SideCalls ==
    ASSUME AccountsInv, TypeOK',
           \/ \E s \in Sessions : MergeMessage(s) \/ SwitchSession(s)
           \/ \E a \in Agents : \/ DelegateAccepted(a) \/ DelegateRefused(a)
                                \/ DelegateAcceptedSettled(a) \/ DelegateSettled(a)
    PROVE  CallsSound'
<1>1. TypeOK
  BY DEF AccountsInv, IInv
<1>2. ASSUME NEW s \in Sessions, MergeMessage(s) PROVE CallsSound'
  <2> DEFINE n == Len(queue[s])
  <2>1. /\ Quiet /\ UNCHANGED <<live, active, lane, stack, runtime>>
        /\ queue[s] # <<>>
        /\ queue' = [queue EXCEPT ![s][n] = Merged(@)]
        /\ task' = TaskAfter(s, "queued", queue[s][n])
    BY <1>2 DEF MergeMessage, Mergeable
  <2> HIDE DEF n
  <2>2. \A r \in Sessions : r # s => task'[r] = task[r]
    BY <1>1, <2>1, TaskAfterAt
  <2>3. \A r \in Sessions : queue'[r] = <<>> <=> queue[r] = <<>>
    BY <1>1, <2>1 DEF TypeOK
  <2> QED
    BY <2>1, <2>2, <2>3, QuietCalls
<1>3. ASSUME NEW s \in Sessions, SwitchSession(s) PROVE CallsSound'
  <2>1. /\ Quiet /\ UNCHANGED <<live, active, lane, stack, queue, task>>
        /\ \/ runtime' = runtime
           \/ /\ runtime[AgentOf[s]].turn = 0
              /\ runtime' = [runtime EXCEPT ![AgentOf[s]].session = s]
    BY <1>3 DEF SwitchSession
  <2>2. \A a \in Agents : runtime'[a] = runtime[a] \/ runtime[a].turn = 0
    BY <1>1, <2>1 DEF TypeOK
  <2> QED
    BY <2>1, <2>2, QuietCalls
<1>4. ASSUME NEW a \in Agents, DelegateAccepted(a) \/ DelegateRefused(a) PROVE CallsSound'
  <2>1. PICK s \in Sessions, state \in {"blocked", "running"} :
            HasActive(s) /\ task' = TaskAfter(s, state, active[s])
    BY <1>1, <1>4 DEF DelegateAccepted, DelegateRefused, TypeOK
  <2>2. \A r \in Sessions : r # s => task'[r] = task[r]
    BY <1>1, <2>1, TaskAfterAt
  <2>3. Quiet /\ UNCHANGED <<live, active, lane, stack, queue, runtime>>
    BY <1>4 DEF DelegateAccepted, DelegateRefused
  <2> QED
    BY <2>1, <2>2, <2>3, QuietCalls
<1>5. ASSUME NEW a \in Agents, DelegateAcceptedSettled(a) PROVE CallsSound'
  <2>1. PICK s \in Sessions, primary \in Sessions, state \in {"done", "failed"} :
            /\ HasActive(s)
            /\ \/ task' = [TaskAfter(s, "running", active[s]) EXCEPT ![s].state = state]
               \/ task' = [TaskAfter(s, "blocked", active[s]) EXCEPT ![primary].state = state]
    BY <1>1, <1>5 DEF DelegateAcceptedSettled, TypeOK, SessionsOf
  <2>2. ASSUME NEW r \in Sessions, ~HasActive(r)
        PROVE  task'[r] = task[r] \/ task'[r].state \notin {"queued", "running"}
    <3>1. \A x \in {"running", "blocked"} : TaskAfter(s, x, active[s]) \in TaskType
      BY <1>1, TaskAfterType DEF TaskType, TaskStates, TypeOK
    <3>2. \A x \in {"running", "blocked"} : TaskAfter(s, x, active[s])[r] = task[r]
      BY <1>1, <2>1, <2>2, TaskAfterAt
    <3> HIDE DEF TaskAfter
    <3> QED
      BY <2>1, <3>1, <3>2 DEF TaskType
  <2>3. Quiet /\ UNCHANGED <<live, active, lane, stack, queue, runtime>>
    BY <1>5 DEF DelegateAcceptedSettled
  <2> QED
    BY <2>2, <2>3, QuietCalls
<1>6. ASSUME NEW a \in Agents, DelegateSettled(a) PROVE CallsSound'
  <2>1. \/ task' = task
        \/ \E primary \in Sessions, state \in {"done", "failed"} :
               task' = [task EXCEPT ![primary].state = state]
    BY <1>1, <1>6 DEF DelegateSettled, TypeOK, SessionsOf
  <2>2. \A r \in Sessions : task'[r] = task[r] \/ task'[r].state \notin {"queued", "running"}
    BY ZenonT(60), <1>1, <2>1 DEF TypeOK
  <2>3. Quiet /\ UNCHANGED <<live, active, lane, stack, queue, runtime>>
    BY <1>6 DEF DelegateSettled
  <2> QED
    BY <2>2, <2>3, QuietCalls
<1> QED
  BY <1>2, <1>3, <1>4, <1>5, <1>6

LEMMA CallsStep == AccountsInv /\ TypeOK' /\ [Next]_vars => CallsSound'
<1> SUFFICES ASSUME AccountsInv, TypeOK', [Next]_vars PROVE CallsSound'
  OBVIOUS
<1>1. CASE UNCHANGED vars
  BY <1>1 DEF vars, AccountsInv, CallsSound, SendsFirst, ActiveLive, LaneSound, FlightSound,
              WakeSound, TaskSound, HasActive, ToRelease, ToOffer, ToRecord, Working, Intact,
              AtMostOneGone
<1>2. CASE Step
  BY <1>2, StartCalls, SkipCalls, AcceptedCalls, RefusedCalls, OfferCalls, StopCalls,
     RecordCalls, ReleaseCalls DEF Step
<1>3. CASE TeammateReply \/ \E s \in Sessions : EnqueueMessage(s)
  BY <1>3, ArrivalCalls
<1>4. CASE \E s \in Sessions : AbortTurn(s) \/ RemoveSession(s)
  BY <1>4, AbortCalls, RemoveCalls
<1>5. CASE \E a \in Agents : RuntimeEnds(a)
  BY <1>5, EndedCalls
<1>6. CASE \/ \E s \in Sessions : MergeMessage(s) \/ SwitchSession(s)
           \/ \E a \in Agents : \/ DelegateAccepted(a) \/ DelegateRefused(a)
                                \/ DelegateAcceptedSettled(a) \/ DelegateSettled(a)
  BY <1>6, SideCalls
<1> QED
  BY <1>1, <1>2, <1>3, <1>4, <1>5, <1>6 DEF Next

-----------------------------------------------------------------------------
(* The ends that are still to be recorded.                                 *)

LEMMA OnceTail ==
    ASSUME NEW q \in Seq(Calls), q # <<>>, Once(q)
    PROVE  /\ Once(Tail(q))
           /\ Ends(Head(q)) =>
                 \A c \in Range(Tail(q)) : Ends(c) => c.turn.id # Head(q).turn.id
<1> DEFINE r == Tail(q)
<1> DEFINE m == Len(r)
<1>1. r \in Seq(Calls) /\ m \in Nat /\ Len(q) = m + 1 /\ Head(q) = q[1]
  OBVIOUS
<1>2. \A k \in 1 .. m : k + 1 \in 1 .. Len(q) /\ k + 1 # 1 /\ r[k] = q[k + 1]
  OBVIOUS
<1>3. Range(r) = {r[k] : k \in 1 .. m}
  BY <1>1, RangeEquality
<1>4. 1 \in 1 .. Len(q)
  BY <1>1
<1> HIDE DEF m, r
<1>5. ASSUME NEW k \in 1 .. m, NEW l \in 1 .. m, Ends(r[k]), Ends(r[l]), k # l
      PROVE  r[k].turn.id # r[l].turn.id
  <2>1. k + 1 # l + 1
    BY <1>5
  <2> QED
    BY <1>2, <1>5, <2>1 DEF Once
<1>6. Once(r)
  BY <1>5 DEF Once, m
<1>7. ASSUME Ends(Head(q)), NEW k \in 1 .. m, Ends(r[k]) PROVE r[k].turn.id # Head(q).turn.id
  BY <1>1, <1>2, <1>4, <1>7 DEF Once
<1> QED
  BY <1>3, <1>6, <1>7 DEF r

\* Calls put on top do not disturb it: those of Restart, and the end of a turn whose
\* end is not yet on the stack.
LEMMA OnceConcat ==
    ASSUME NEW p \in Seq(Calls), NEW q \in Seq(Calls), Once(p), Once(q),
           \A c \in Range(p), d \in Range(q) : Ends(c) /\ Ends(d) => c.turn.id # d.turn.id
    PROVE  Once(p \o q)
<1> DEFINE m == Len(p)
<1> DEFINE n == Len(q)
<1> DEFINE r == p \o q
<1>1. m \in Nat /\ n \in Nat /\ Len(r) = m + n
  OBVIOUS
<1>2. \A k \in 1 .. m : r[k] = p[k] /\ p[k] \in Range(p)
  BY RangeEquality
<1>3. \A k \in 1 .. m + n : k \notin 1 .. m => /\ k - m \in 1 .. n
                                            /\ r[k] = q[k - m] /\ q[k - m] \in Range(q)
  <2> SUFFICES ASSUME NEW k \in 1 .. m + n, k \notin 1 .. m
               PROVE  k - m \in 1 .. n /\ r[k] = q[k - m] /\ q[k - m] \in Range(q)
    OBVIOUS
  <2>1. k - m \in 1 .. n
    BY <1>1
  <2>2. r[k] = q[k - m]
    BY <1>1
  <2>3. q[k - m] \in Range(q)
    BY <2>1, RangeEquality
  <2> QED
    BY <2>1, <2>2, <2>3
<1> HIDE DEF m, n, r
<1>4. \A k, l \in 1 .. m : Ends(p[k]) /\ Ends(p[l]) /\ k # l => p[k].turn.id # p[l].turn.id
  BY DEF Once, m
<1>5. \A k, l \in 1 .. n : Ends(q[k]) /\ Ends(q[l]) /\ k # l => q[k].turn.id # q[l].turn.id
  BY DEF Once, n
<1>6. ASSUME NEW k \in 1 .. m + n, NEW l \in 1 .. m + n, Ends(r[k]), Ends(r[l]), k # l
      PROVE  r[k].turn.id # r[l].turn.id
  <2>1. CASE k \in 1 .. m /\ l \in 1 .. m
    BY <1>2, <1>4, <1>6, <2>1
  <2>2. CASE k \in 1 .. m /\ l \notin 1 .. m
    BY <1>2, <1>3, <1>6, <2>2
  <2>3. CASE k \notin 1 .. m /\ l \in 1 .. m
    BY <1>2, <1>3, <1>6, <2>3
  <2>4. CASE k \notin 1 .. m /\ l \notin 1 .. m
    <3>1. k - m # l - m
      BY <1>1, <1>6
    <3> QED
      BY <1>3, <1>5, <1>6, <2>4, <3>1
  <2> QED
    BY <2>1, <2>2, <2>3, <2>4
<1> QED
  BY <1>1, <1>6 DEF Once, r

LEMMA OnceOne == \A c : Once(<<c>>)
<1> SUFFICES ASSUME NEW c, NEW k \in 1 .. Len(<<c>>), NEW l \in 1 .. Len(<<c>>), k # l
             PROVE  FALSE
  BY DEF Once
<1>1. Len(<<c>>) = 1
  OBVIOUS
<1> QED
  BY <1>1

LEMMA NoneOnce ==
    ASSUME NEW q \in Seq(Calls), \A c \in Range(q) : ~Ends(c)
    PROVE  Once(q)
BY RangeEquality DEF Once

-----------------------------------------------------------------------------
(* Every action keeps TurnsSound.                                          *)

\* What moves no turn: the queued ids, and the ends still to be recorded, stay.
LEMMA TurnsFrame ==
    ASSUME TypeOK, TypeOK', TurnsSound, UNCHANGED <<live, active, home, terminal, nextTurn>>,
           \A s \in Sessions : /\ Len(queue'[s]) = Len(queue[s])
                              /\ \A k \in 1 .. Len(queue[s]) : queue'[s][k].id = queue[s][k].id,
           \A c \in Range(stack') : Ends(c) => c \in Range(stack),
           \A c \in Range(stack) : Ends(c) => c \in Range(stack'),
           Once(stack')
    PROVE  TurnsSound'
<1>1. \A s \in Sessions : \A i : Ahead(s, i) => Ahead(s, i)'
  BY DEF Ahead
<1>2. \A s, i : Open(s, i) => Open(s, i)'
  BY DEF Open
<1>3. ASSUME NEW s \in Sessions PROVE QueueSound(s)'
  <2> DEFINE n == Len(queue[s])
  <2>1. n \in Nat /\ QueueSound(s)
    BY DEF TypeOK, TurnsSound
  <2>2. \A k \in 1 .. n : \A l \in 1 .. k - 1 : l \in 1 .. n
    BY <2>1
  <2> QED
    BY <1>2, <2>1, <2>2 DEF QueueSound
<1>4. ASSUME NEW s \in Sessions PROVE ActiveSound(s)'
  BY <1>1, <1>2 DEF TurnsSound, ActiveSound, HasActive
<1>5. ASSUME NEW c \in Range(stack') PROVE EndSound(c)'
  <2> SUFFICES ASSUME Ends(c) PROVE EndSound(c)'
    BY DEF EndSound, Ends
  <2>1. EndSound(c)
    BY DEF TurnsSound
  <2>2. c \in Calls
    BY RangeOfSeq DEF TypeOK
  <2>3. c.session \in Sessions
    BY <2>2, CallTypes DEF Ends
  <2> QED
    BY <1>1, <1>2, <2>1, <2>3 DEF EndSound, HasActive
<1>6. ASSUME NEW i \in TurnIds PROVE TurnSound(i)'
  <2>1. TurnSound(i) /\ home[i] \in Sessions \cup {NoSession}
    BY DEF TurnsSound, TypeOK
  <2>2. live \subseteq Sessions
    BY DEF TypeOK
  <2> QED
    BY <1>1, <2>1, <2>2 DEF TurnSound, Ends
<1> QED
  BY <1>3, <1>4, <1>5, <1>6 DEF TurnsSound

\* A turn that is cleared leaves a call that will record its end.
LEMMA ClearedTurns ==
    ASSUME TypeOK, TypeOK', TurnsSound, NEW s \in Sessions, ClearTurn(s),
           UNCHANGED <<live, queue, home, terminal, nextTurn>>,
           NEW c \in Range(stack'), c.call \in {"finished", "failed"},
           c.session = s, c.turn = active[s],
           \A d \in Range(stack') : Ends(d) => d = c \/ d \in Range(stack),
           \A d \in Range(stack) : Ends(d) => d \in Range(stack'),
           Once(stack')
    PROVE  TurnsSound'
<1>1. /\ active'[s].id = 0
      /\ \A r \in Sessions : r # s => active'[r] = active[r]
  BY DEF ClearTurn, TypeOK, NoTurn
<1>2. \A r, i : (Ahead(r, i) => Ahead(r, i)') /\ (Open(r, i) => Open(r, i)')
  BY DEF Ahead, Open
<1>3. ASSUME NEW r \in Sessions PROVE QueueSound(r)'
  BY DEF TurnsSound, QueueSound, Open
<1>4. ASSUME NEW r \in Sessions PROVE ActiveSound(r)'
  <2>1. CASE r = s
    BY <1>1, <2>1 DEF ActiveSound, HasActive
  <2>2. CASE r # s
    BY <1>1, <1>2, <2>2 DEF TurnsSound, ActiveSound, HasActive
  <2> QED
    BY <2>1, <2>2
<1>5. ASSUME NEW d \in Range(stack') PROVE EndSound(d)'
  <2> SUFFICES ASSUME Ends(d) PROVE EndSound(d)'
    BY DEF EndSound, Ends
  <2>1. d.session \in Sessions
    <3>1. d \in Calls
      BY RangeOfSeq DEF TypeOK
    <3> QED
      BY <3>1, CallTypes DEF Ends
  <2>2. CASE d = c
    <3>1. HasActive(s) /\ ActiveSound(s)
      BY <2>2 DEF Ends, HasActive, TurnsSound
    <3>2. Open(s, c.turn.id)' /\ Ahead(s, c.turn.id)'
      BY <1>2, <3>1 DEF ActiveSound
    <3> QED
      BY <1>1, <2>2, <3>2 DEF EndSound, HasActive
  <2>3. CASE d \in Range(stack)
    <3>1. EndSound(d)
      BY <2>3 DEF TurnsSound
    <3>2. active'[d.session].id # 0 => active'[d.session] = active[d.session]
      BY <1>1, <2>1
    <3> QED
      BY <1>2, <3>1, <3>2 DEF EndSound, HasActive
  <2> QED
    BY <2>2, <2>3
<1>6. ASSUME NEW i \in TurnIds PROVE TurnSound(i)'
  <2>1. TurnSound(i) /\ live \subseteq Sessions /\ i # 0
    BY DEF TurnsSound, TypeOK, TurnIds
  <2>2. ASSUME home[i] \in live, active[home[i]].id = i, active'[home[i]].id # i
        PROVE  \E d \in Range(stack') : Ends(d) /\ d.turn.id = i
    <3>1. home[i] = s
      BY <1>1, <2>1, <2>2
    <3>2. Ends(c) /\ c.turn.id = i
      BY <2>1, <2>2, <3>1 DEF Ends
    <3> QED
      BY <3>2
  <2> QED
    BY <1>2, <2>1, <2>2 DEF TurnSound, Ends
<1> QED
  BY <1>3, <1>4, <1>5, <1>6 DEF TurnsSound

\* A message or a reply gets the next id, behind all the others.
LEMMA ArrivedTurns ==
    ASSUME TypeOK, TypeOK', TurnsSound, Quiet, NEW s \in Sessions, NEW t \in Turn,
           nextTurn <= MaxTurns, t.id = nextTurn,
           queue' = [queue EXCEPT ![s] = Append(@, t)],
           home' = [home EXCEPT ![nextTurn] = s], nextTurn' = nextTurn + 1,
           stack' = <<TryStart(s)>>, UNCHANGED <<live, active, terminal>>
    PROVE  TurnsSound'
<1> DEFINE n == nextTurn
<1> DEFINE m == Len(queue[s])
<1>1. n \in TurnIds /\ m \in Nat /\ s # NoSession
  BY PipelineAssumption DEF PipelineAssumption, TypeOK, TurnsSound, TurnIds
<1>2. home[n] = NoSession /\ terminal[n] = 0
  BY <1>1 DEF TurnsSound, TurnSound, TypeOK
<1>3. home'[n] = s /\ \A i \in TurnIds : i # n => home'[i] = home[i]
  BY <1>1 DEF TypeOK
<1>4. \A i \in TurnIds : home[i] # NoSession => i < n /\ home'[i] = home[i]
  BY <1>1, <1>3 DEF TurnsSound, TurnSound, TypeOK, TurnIds
<1>5. /\ Len(queue'[s]) = m + 1 /\ queue'[s][m + 1] = t
      /\ \A k \in 1 .. m : queue'[s][k] = queue[s][k]
      /\ \A r \in Sessions : r # s => queue'[r] = queue[r]
  BY DEF TypeOK
<1>6. \A k \in 1 .. m + 1 : k \in 1 .. m \/ k = m + 1
  BY <1>1
<1>7. Range(stack) = {} /\ Range(stack') = {TryStart(s)}
  BY RangeEmpty, RangeOne DEF Quiet
<1>8. \A r \in Sessions : \A i \in TurnIds : Open(r, i) => Open(r, i)' /\ i < n
  <2>1. \A r \in Sessions : r # NoSession
    BY PipelineAssumption DEF PipelineAssumption
  <2> QED
    BY <1>4, <2>1 DEF Open
<1>9. ASSUME NEW r \in Sessions, NEW i \in Nat, Ahead(r, i), i < n PROVE Ahead(r, i)'
  <2>1. CASE r = s
    <3> HIDE DEF m, n
    <3> SUFFICES ASSUME NEW k \in 1 .. m + 1 PROVE i < queue'[s][k].id
      BY <1>5, <2>1 DEF Ahead
    <3>1. CASE k \in 1 .. m
      BY <1>5, <1>9, <2>1, <3>1 DEF Ahead, m
    <3>2. CASE k = m + 1
      BY <1>5, <1>9, <3>2 DEF n
    <3> QED
      BY <1>6, <3>1, <3>2
  <2>2. CASE r # s
    BY <1>5, <1>9, <2>2 DEF Ahead
  <2> QED
    BY <2>1, <2>2
<1>10. ASSUME NEW r \in Sessions PROVE QueueSound(r)'
  <2>1. QueueSound(r)
    BY DEF TurnsSound
  <2>2. CASE r # s
    BY <1>5, <1>8, <2>1, <2>2 DEF QueueSound, Open
  <2>3. CASE r = s
    <3>1. \A k \in 1 .. m : queue[s][k].id < n
      BY <1>8, <2>1, <2>3 DEF QueueSound, Open
    <3>2. Open(s, t.id)'
      BY <1>1, <1>2, <1>3 DEF Open
    <3>3. \A k \in 1 .. m : \A l \in 1 .. k - 1 :
             l \in 1 .. m /\ queue[s][l].id < queue[s][k].id
      BY <1>1, <2>1, <2>3 DEF QueueSound
    <3>4. \A l \in 1 .. (m + 1) - 1 : l \in 1 .. m
      BY <1>1
    <3>5. t.id = n
      OBVIOUS
    <3> HIDE DEF m, n
    <3> DEFINE q == queue'[s]
    <3>6. Len(q) = m + 1 /\ q[m + 1].id = n /\ \A k \in 1 .. m : q[k].id = queue[s][k].id
      BY <1>5, <3>5
    <3> SUFFICES ASSUME NEW k \in 1 .. m + 1
                 PROVE  /\ Open(s, queue[s][k].id)'
                        /\ \A l \in 1 .. k - 1 : q[l].id < q[k].id
      BY <2>3, <3>6 DEF QueueSound
    <3>7. CASE k \in 1 .. m
      <4>1. q[k].id = queue[s][k].id
        BY <3>6, <3>7
      <4>2. Open(s, queue[s][k].id)'
        <5> DEFINE i == queue[s][k].id
        <5>1. i \in TurnIds /\ home'[i] = s /\ terminal'[i] = 0
          BY <1>8, <2>1, <2>3, <3>7 DEF QueueSound, Open, m
        <5> QED
          BY <4>1, <5>1 DEF Open
      <4> QED
        BY <3>3, <3>6, <3>7, <4>1, <4>2
    <3>8. CASE k = m + 1
      <4>1. \A l \in 1 .. k - 1 : l \in 1 .. m
        BY <3>4, <3>8
      <4>2. \A l \in 1 .. m : q[l].id < n
        BY <3>1, <3>6
      <4>3. q[k].id = n
        BY <3>6, <3>8
      <4>4. Open(s, queue[s][k].id)'
        BY <3>2, <3>5, <4>3 DEF Open
      <4> QED
        BY <4>1, <4>2, <4>3, <4>4
    <3> QED
      BY <1>6, <3>7, <3>8
  <2> QED
    BY <2>2, <2>3
<1>11. ASSUME NEW r \in Sessions PROVE ActiveSound(r)'
  <2>1. active[r].id \in Nat /\ ActiveSound(r)
    BY DEF TypeOK, Turn, TurnsSound
  <2> QED
    BY <1>8, <1>9, <2>1 DEF ActiveSound, HasActive, Open
<1>12. \A c \in Range(stack') : ~Ends(c)
  BY <1>7 DEF Ends, TryStart
<1>13. ASSUME NEW i \in TurnIds PROVE TurnSound(i)'
  <2>1. TurnSound(i)
    BY DEF TurnsSound
  <2>2. CASE i = n
    <3>1. \E k \in 1 .. Len(queue'[s]) : queue'[s][k].id = i
      <4>1. m + 1 \in 1 .. Len(queue'[s]) /\ queue'[s][m + 1].id = i
        BY <1>1, <1>5, <2>2
      <4> QED
        BY <4>1
    <3>2. ~(i >= n + 1) /\ terminal[i] = 0 /\ home'[i] = s
      BY <1>1, <1>2, <1>3, <2>2 DEF TurnIds
    <3> QED
      BY <1>1, <3>1, <3>2 DEF TurnSound
  <2>3. CASE i # n
    <3>1. home'[i] = home[i] /\ (i >= n <=> i >= n + 1)
      BY <1>1, <1>3, <2>3 DEF TurnIds
    <3>2. home[i] # NoSession => i < n /\ home[i] \in Sessions
      BY <1>4 DEF TypeOK
    <3>3. terminal[i] = 1 => Ahead(home[i], i)'
      BY <1>9, <2>1, <3>2 DEF TurnSound, TurnIds
    <3>4. ASSUME home[i] \in live, NEW k \in 1 .. Len(queue[home[i]]), queue[home[i]][k].id = i
          PROVE  \E l \in 1 .. Len(queue'[home[i]]) : queue'[home[i]][l].id = i
      <4>1. CASE home[i] = s
        <5>1. k \in 1 .. m + 1 /\ k \in 1 .. m
          BY <1>1, <3>4, <4>1
        <5> QED
          BY <1>5, <3>4, <4>1, <5>1
      <4>2. CASE home[i] # s
        BY <1>5, <3>4, <4>2 DEF TypeOK
      <4> QED
        BY <4>1, <4>2
    <3> HIDE DEF n
    <3> QED
      BY <1>7, <2>1, <3>1, <3>3, <3>4 DEF TurnSound, n
  <2> QED
    BY <2>2, <2>3
<1>14. Once(stack')
  BY <1>12, NoneOnce DEF TypeOK
<1>15. \A c \in Range(stack') : EndSound(c)'
  BY <1>12 DEF EndSound, Ends
<1>16. nextTurn' # 0
  BY DEF TypeOK
<1> HIDE DEF n, m
<1> QED
  BY <1>10, <1>11, <1>13, <1>14, <1>15, <1>16 DEF TurnsSound

\* The first turn that waits becomes the active one; it is ahead of the others, and
\* behind those that are ending.
LEMMA StartTurns ==
    ASSUME TypeOK, TypeOK', TurnsSound, StartTurn
    PROVE  TurnsSound'
<1>1. PICK s \in Sessions :
          /\ Head(stack).session = s
          /\ ~HasActive(s) /\ queue[s] # <<>>
          /\ queue' = [queue EXCEPT ![s] = Tail(@)]
          /\ active' = [active EXCEPT ![s] = Head(queue[s])]
          /\ stack' = <<Send(s)>> \o Tail(stack)
          /\ UNCHANGED <<live, home, terminal, nextTurn>>
  <2>1. Head(stack).session \in Sessions
    BY TopCall, CallTypes DEF StartTurn
  <2> QED
    BY <2>1 DEF StartTurn, MayStart
<1>2. /\ Head(stack).call = "tryStart" /\ stack # <<>>
      /\ Tail(stack) \in Seq(Calls) /\ stack \in Seq(Calls)
  BY TopCall DEF StartTurn, Next1, TypeOK
<1> DEFINE m == Len(Tail(queue[s]))
<1>3. /\ m \in Nat /\ Len(queue[s]) = m + 1 /\ Len(queue'[s]) = m
      /\ \A k \in 1 .. m : k + 1 \in 1 .. m + 1 /\ queue'[s][k] = queue[s][k + 1]
      /\ active'[s] = queue[s][1]
      /\ \A r \in Sessions : r # s => queue'[r] = queue[r] /\ active'[r] = active[r]
  <2>1. queue[s] \in Seq(Turn) /\ queue'[s] = Tail(queue[s])
    BY <1>1 DEF TypeOK
  <2> QED
    BY <1>1, <2>1 DEF TypeOK
<1> HIDE DEF m
<1>4. /\ \A c \in Range(stack') : Ends(c) => c \in Range(stack)
      /\ \A c \in Range(stack) : Ends(c) => c \in Range(stack')
      /\ Once(stack')
  <2>1. Send(s) \in Calls /\ ~Ends(Send(s))
    BY CallsMade DEF Ends, Send
  <2>2. Range(stack') = {Send(s)} \cup Range(Tail(stack))
    BY <1>1, <1>2, <2>1, RangePushed
  <2>3. Range(stack) = {Head(stack)} \cup Range(Tail(stack)) /\ ~Ends(Head(stack))
    BY <1>2, RangeHead DEF Ends
  <2>4. Once(stack')
    <3> DEFINE p == <<Send(s)>>
    <3> DEFINE q == Tail(stack)
    <3>1. p \in Seq(Calls) /\ Range(p) = {Send(s)} /\ Once(p) /\ q \in Seq(Calls)
      BY <1>2, <2>1, RangeOne, OnceOne
    <3>2. stack' = p \o q /\ Once(q)
      BY <1>1, <1>2, OnceTail DEF TurnsSound
    <3> HIDE DEF p, q
    <3> QED
      BY <2>1, <3>1, <3>2, OnceConcat
  <2> QED
    BY <2>1, <2>2, <2>3, <2>4
<1>5. \A r \in Sessions : \A i : Ahead(r, i) => Ahead(r, i)'
  <2> SUFFICES ASSUME NEW r \in Sessions, NEW i, Ahead(r, i) PROVE Ahead(r, i)'
    OBVIOUS
  <2>1. CASE r = s
    BY <1>3, <2>1 DEF Ahead
  <2>2. CASE r # s
    BY <1>3, <2>2 DEF Ahead
  <2> QED
    BY <2>1, <2>2
<1>6. \A r, i : Open(r, i) => Open(r, i)'
  BY <1>1 DEF Open
<1> DEFINE first == queue[s][1].id
<1>7. /\ QueueSound(s) /\ 1 \in 1 .. m + 1 /\ Open(s, first)
      /\ \A k \in 1 .. m : first < queue[s][k + 1].id
  <2>1. QueueSound(s) /\ 1 \in 1 .. m + 1
    BY <1>3 DEF TurnsSound
  <2>2. \A k \in 1 .. m : 1 \in 1 .. (k + 1) - 1
    BY <1>3
  <2> QED
    BY <1>3, <2>1, <2>2 DEF QueueSound
<1>8. ASSUME NEW r \in Sessions PROVE QueueSound(r)'
  <2>1. CASE r # s
    BY <1>1, <1>3, <2>1 DEF TurnsSound, QueueSound, Open
  <2>2. CASE r = s
    <3> SUFFICES ASSUME NEW k \in 1 .. m
                 PROVE  /\ Open(s, queue[s][k].id)'
                        /\ \A l \in 1 .. k - 1 : queue'[s][l].id < queue'[s][k].id
      BY <1>3, <2>2 DEF QueueSound
    <3>1. k + 1 \in 1 .. m + 1 /\ queue'[s][k] = queue[s][k + 1]
      BY <1>3
    <3>2. Open(s, queue[s][k].id)'
      BY <1>1, <1>3, <1>7, <3>1 DEF QueueSound, Open
    <3>3. ASSUME NEW l \in 1 .. k - 1 PROVE queue'[s][l].id < queue'[s][k].id
      <4>1. l \in 1 .. m /\ l + 1 \in 1 .. (k + 1) - 1
        BY <1>3
      <4>2. queue'[s][l] = queue[s][l + 1]
        BY <1>3, <4>1
      <4>3. queue[s][l + 1].id < queue[s][k + 1].id
        BY <1>3, <1>7, <3>1, <4>1 DEF QueueSound
      <4> QED
        BY <3>1, <4>2, <4>3
    <3> QED
      BY <3>2, <3>3
  <2> QED
    BY <2>1, <2>2
<1>9. ASSUME NEW r \in Sessions PROVE ActiveSound(r)'
  <2>1. CASE r # s
    BY <1>3, <1>5, <1>6, <2>1 DEF TurnsSound, ActiveSound, HasActive
  <2>2. CASE r = s
    <3>1. Ahead(s, active[s].id)'
      BY <1>3, <1>7 DEF Ahead
    <3>2. Open(s, active[s].id)'
      BY <1>1, <1>3, <1>7 DEF Open
    <3> QED
      BY <2>2, <3>1, <3>2 DEF ActiveSound
  <2> QED
    BY <2>1, <2>2
<1>10. ASSUME NEW c \in Range(stack') PROVE EndSound(c)'
  <2> SUFFICES ASSUME Ends(c) PROVE EndSound(c)'
    BY DEF EndSound, Ends
  <2>1. EndSound(c) /\ c \in Calls /\ c.session \in Sessions
    <3>1. c \in Range(stack) /\ c \in Calls
      BY <1>2, <1>4, RangeOfSeq
    <3> QED
      BY <3>1, CallTypes DEF TurnsSound, Ends
  <2>2. CASE c.session = s
    <3>1. c.turn.id < first
      BY <1>3, <1>7, <2>1, <2>2 DEF EndSound, Ahead
    <3> QED
      BY <1>3, <1>5, <1>6, <2>1, <2>2, <3>1 DEF EndSound
  <2>3. CASE c.session # s
    BY <1>3, <1>5, <1>6, <2>1, <2>3 DEF EndSound, HasActive
  <2> QED
    BY <2>2, <2>3
<1>11. ASSUME NEW i \in TurnIds PROVE TurnSound(i)'
  <2>1. /\ TurnSound(i) /\ live \subseteq Sessions /\ i # 0
        /\ home[i] \in Sessions \cup {NoSession}
    <3>1. i # 0
      BY DEF TurnIds
    <3> QED
      BY <3>1 DEF TurnsSound, TypeOK
  <2>2. terminal[i] = 1 => Ahead(home[i], i)'
    <3>1. home[i] # NoSession => home[i] \in Sessions /\ home'[i] = home[i]
      BY <1>1, <2>1
    <3> QED
      BY <1>1, <1>5, <2>1, <3>1 DEF TurnSound
  <2>3. ASSUME home[i] \in live, NEW k \in 1 .. Len(queue[home[i]]), queue[home[i]][k].id = i
        PROVE  \/ \E l \in 1 .. Len(queue'[home[i]]) : queue'[home[i]][l].id = i
               \/ active'[home[i]].id = i
    <3>1. CASE home[i] # s
      BY <1>3, <2>1, <2>3, <3>1
    <3>2. CASE home[i] = s /\ k = 1
      BY <1>3, <2>3, <3>2
    <3>3. CASE home[i] = s /\ k # 1
      <4>1. k - 1 \in 1 .. m /\ (k - 1) + 1 = k
        BY <1>3, <2>3, <3>3
      <4>2. queue'[s][k - 1] = queue[s][k]
        BY <1>3, <4>1
      <4> QED
        BY <1>3, <2>3, <3>3, <4>1, <4>2
    <3> QED
      BY <3>1, <3>2, <3>3
  <2>4. ASSUME home[i] \in live, active[home[i]].id = i
        PROVE  active'[home[i]].id = i
    <3>1. home[i] # s
      BY <1>1, <2>1, <2>4 DEF HasActive
    <3> QED
      BY <1>3, <2>1, <2>4, <3>1
  <2> QED
    BY <1>1, <1>4, <2>1, <2>2, <2>3, <2>4 DEF TurnSound, Ends
<1>12. nextTurn' # 0
  BY <1>1 DEF TurnsSound
<1> QED
  BY <1>4, <1>8, <1>9, <1>10, <1>11, <1>12 DEF TurnsSound

\* The end of a turn is recorded once.
LEMMA RecordTurns ==
    ASSUME TypeOK, TypeOK', TurnsSound, RecordFinished \/ RecordFailed
    PROVE  TurnsSound'
<1>1. PICK c \in {"finished", "failed"} : Next1(c)
  BY DEF RecordFinished, RecordFailed
<1>2. PICK s \in Sessions, t \in Turn : Head(stack).session = s /\ Head(stack).turn = t
  BY <1>1, TopCall, CallTypes
<1>3. /\ stack' = Tail(stack) /\ stack # <<>> /\ stack \in Seq(Calls)
      /\ UNCHANGED <<live, queue, active, home, nextTurn>>
      /\ terminal' = [i \in TurnIds |-> terminal[i] + IF i = t.id THEN 1 ELSE 0]
      /\ Head(stack).call \in {"finished", "failed"}
  BY <1>1, <1>2 DEF RecordFinished, RecordFailed, Return, Next1, TypeOK
<1> DEFINE e == t.id
<1> HIDE DEF e
<1>4. /\ Range(stack) = {Head(stack)} \cup Range(stack')
      /\ Once(stack')
      /\ e # 0 => \A d \in Range(stack') : Ends(d) => d.turn.id # e
  <2>1. Once(stack)
    BY DEF TurnsSound
  <2> QED
    BY <1>2, <1>3, <2>1, RangeHead, OnceTail DEF Ends, e
<1>5. /\ e \in Nat
      /\ \A i \in TurnIds : i # e => terminal'[i] = terminal[i]
      /\ e # 0 => e \in TurnIds /\ home[e] = s /\ terminal[e] = 0 /\ Ahead(s, e)
      /\ e # 0 => terminal'[e] = 1
      /\ e # 0 /\ HasActive(s) => e < active[s].id
  <2>1. \A i \in TurnIds : i # e => terminal'[i] = terminal[i]
    BY <1>3 DEF TypeOK, e
  <2>2. ASSUME e # 0 PROVE /\ e \in TurnIds /\ home[e] = s /\ terminal[e] = 0 /\ Ahead(s, e)
                           /\ HasActive(s) => e < active[s].id
    <3>1. EndSound(Head(stack)) /\ Ends(Head(stack))
      BY <1>2, <1>3, <1>4, <2>2 DEF TurnsSound, Ends, e
    <3> QED
      BY <1>2, <3>1 DEF EndSound, Open, e
  <2>3. ASSUME e # 0 PROVE terminal'[e] = 1
    <3>1. e \in TurnIds /\ terminal[e] = 0
      BY <2>2, <2>3
    <3>2. terminal'[e] = terminal[e] + 1
      BY <1>3, <3>1 DEF e
    <3> QED
      BY <3>1, <3>2
  <2>4. e \in Nat
    BY <1>2 DEF Turn, e
  <2> QED
    BY <2>1, <2>2, <2>3, <2>4
<1>6. \A i \in TurnIds : i # 0
  BY DEF TurnIds
<1>7. \A r, i : /\ Ahead(r, i) => Ahead(r, i)'
                /\ Open(r, i) /\ i # e => Open(r, i)'
  BY <1>3, <1>5 DEF Ahead, Open
<1>8. ASSUME NEW r \in Sessions PROVE QueueSound(r)'
  <2>1. QueueSound(r) /\ Len(queue[r]) \in Nat
    BY DEF TurnsSound, TypeOK
  <2>2. ASSUME NEW k \in 1 .. Len(queue[r]) PROVE Open(r, queue[r][k].id)'
    <3>1. Open(r, queue[r][k].id)
      BY <2>1 DEF QueueSound
    <3>2. queue[r][k].id # e
      <4> SUFFICES ASSUME queue[r][k].id = e PROVE FALSE
        OBVIOUS
      <4>1. e # 0 /\ r = s
        BY <1>5, <1>6, <3>1 DEF Open
      <4> QED
        BY <1>5, <4>1 DEF Ahead
    <3> QED
      BY <1>3, <1>5, <3>1, <3>2 DEF Open
  <2> QED
    BY <1>3, <2>1, <2>2 DEF QueueSound
<1>9. ASSUME NEW r \in Sessions PROVE ActiveSound(r)'
  <2> SUFFICES ASSUME HasActive(r) PROVE ActiveSound(r)'
    BY <1>3 DEF ActiveSound, HasActive
  <2>1. Open(r, active[r].id) /\ Ahead(r, active[r].id)
    BY DEF TurnsSound, ActiveSound
  <2>2. active[r].id # e
    <3> SUFFICES ASSUME active[r].id = e PROVE FALSE
      OBVIOUS
    <3>1. e # 0 /\ r = s
      BY <1>5, <1>6, <2>1 DEF Open
    <3> QED
      BY <1>5, <3>1
  <2> QED
    BY <1>3, <1>5, <2>1, <2>2 DEF ActiveSound, Open, Ahead
<1>10. ASSUME NEW d \in Range(stack') PROVE EndSound(d)'
  <2> SUFFICES ASSUME Ends(d) PROVE EndSound(d)'
    BY DEF EndSound, Ends
  <2>1. EndSound(d) /\ d.turn.id # e
    <3>1. EndSound(d)
      BY <1>4 DEF TurnsSound
    <3> QED
      BY <1>4, <3>1 DEF Ends
  <2>2. Open(d.session, d.turn.id)' /\ Ahead(d.session, d.turn.id)'
    BY <1>7, <2>1 DEF EndSound
  <2> QED
    BY <1>3, <2>1, <2>2 DEF EndSound, HasActive
<1>11. ASSUME NEW i \in TurnIds PROVE TurnSound(i)'
  <2>1. TurnSound(i)
    BY DEF TurnsSound
  <2>2. CASE i = e
    <3>1. home[i] = s /\ terminal'[i] = 1 /\ Ahead(s, i) /\ s # NoSession
      BY <1>5, <1>6, <2>2, PipelineAssumption DEF PipelineAssumption
    <3> QED
      BY <1>3, <2>1, <3>1 DEF TurnSound, Ahead
  <2>3. CASE i # e
    <3>1. terminal'[i] = terminal[i]
      BY <1>5, <2>3
    <3>2. \A d \in Range(stack) : Ends(d) /\ d.turn.id = i => d \in Range(stack')
      BY <1>2, <1>4, <2>3 DEF e
    <3> QED
      BY <1>3, <2>1, <3>1, <3>2 DEF TurnSound, Ahead, Ends
  <2> QED
    BY <2>2, <2>3
<1>12. nextTurn' # 0
  BY <1>3 DEF TurnsSound
<1> QED
  BY <1>4, <1>8, <1>9, <1>10, <1>11, <1>12 DEF TurnsSound

\* The user stops the active turn: it is cleared and its end recorded at once.
LEMMA AbortTurns ==
    ASSUME TypeOK, TypeOK', TurnsSound, NEW s \in Sessions, AbortTurn(s)
    PROVE  TurnsSound'
<1> DEFINE e == active[s].id
<1>1. /\ Quiet /\ HasActive(s) /\ ClearTurn(s) /\ stack' = Restart(s)
      /\ UNCHANGED <<live, queue, home, nextTurn>>
      /\ terminal' = [i \in TurnIds |-> terminal[i] + IF i = e THEN 1 ELSE 0]
  BY DEF AbortTurn
<1>2. /\ active'[s].id = 0
      /\ \A r \in Sessions : r # s => active'[r] = active[r]
  BY <1>1 DEF ClearTurn, TypeOK, NoTurn
<1>3. Range(stack) = {} /\ \A c \in Range(stack') : ~Ends(c)
  <2>1. Range(stack) = {}
    BY <1>1, RangeEmpty DEF Quiet
  <2>2. \A c \in Range(stack') : c.call \in {"tryStart", "tryAgent"}
    BY <1>1, RestartCalls DEF TypeOK
  <2> QED
    BY <2>1, <2>2 DEF Ends
<1>4. /\ \A i \in TurnIds : i # e => terminal'[i] = terminal[i]
      /\ e \in TurnIds /\ home[e] = s /\ terminal[e] = 0 /\ Ahead(s, e) /\ terminal'[e] = 1
  <2>1. \A i \in TurnIds : i # e => terminal'[i] = terminal[i]
    BY <1>1 DEF TypeOK
  <2>2. e \in TurnIds /\ home[e] = s /\ terminal[e] = 0 /\ Ahead(s, e)
    BY <1>1 DEF TurnsSound, ActiveSound, Open
  <2> QED
    BY <1>1, <2>1, <2>2
<1> HIDE DEF e
<1>5. ASSUME NEW r \in Sessions PROVE QueueSound(r)'
  <2>1. QueueSound(r) /\ Len(queue[r]) \in Nat
    BY DEF TurnsSound, TypeOK
  <2>2. ASSUME NEW k \in 1 .. Len(queue[r]) PROVE Open(r, queue[r][k].id)'
    <3>1. Open(r, queue[r][k].id)
      BY <2>1 DEF QueueSound
    <3>2. queue[r][k].id # e
      <4>1. e \in Nat
        BY DEF e, TypeOK, Turn
      <4> QED
        BY <1>4, <3>1, <4>1 DEF Open, Ahead
    <3> QED
      BY <1>1, <1>4, <3>1, <3>2 DEF Open
  <2> QED
    BY <1>1, <2>1, <2>2 DEF QueueSound
<1>6. ASSUME NEW r \in Sessions PROVE ActiveSound(r)'
  <2>1. CASE r = s
    BY <1>2, <2>1 DEF ActiveSound, HasActive
  <2>2. CASE r # s
    <3> SUFFICES ASSUME HasActive(r) PROVE ActiveSound(r)'
      BY <1>2, <2>2 DEF ActiveSound, HasActive
    <3>1. Open(r, active[r].id) /\ Ahead(r, active[r].id)
      BY DEF TurnsSound, ActiveSound
    <3>2. active[r].id # e
      BY <1>4, <2>2, <3>1 DEF Open
    <3> QED
      BY <1>1, <1>2, <1>4, <2>2, <3>1, <3>2 DEF ActiveSound, Open, Ahead
  <2> QED
    BY <2>1, <2>2
<1>7. ASSUME NEW i \in TurnIds PROVE TurnSound(i)'
  <2>1. TurnSound(i) /\ live \subseteq Sessions
    BY DEF TurnsSound, TypeOK
  <2>2. CASE i = e
    <3>1. home[i] = s /\ terminal'[i] = 1 /\ Ahead(s, i) /\ s # NoSession
      BY <1>4, <2>2, PipelineAssumption DEF PipelineAssumption
    <3> QED
      BY <1>1, <2>1, <3>1 DEF TurnSound, Ahead
  <2>3. CASE i # e
    <3>1. terminal'[i] = terminal[i]
      BY <1>4, <2>3
    <3>2. home[i] \in live /\ active[home[i]].id = i => active'[home[i]].id = i
      BY <1>2, <2>1, <2>3 DEF e
    <3> QED
      BY <1>1, <1>3, <2>1, <3>1, <3>2 DEF TurnSound, Ahead
  <2> QED
    BY <2>2, <2>3
<1>8. Once(stack')
  BY <1>3, NoneOnce DEF TypeOK
<1>9. \A c \in Range(stack') : EndSound(c)'
  BY <1>3 DEF EndSound, Ends
<1>10. nextTurn' # 0
  BY <1>1 DEF TurnsSound
<1> QED
  BY <1>5, <1>6, <1>7, <1>8, <1>9, <1>10 DEF TurnsSound

\* A session that is removed takes its turns with it.
LEMMA RemoveTurns ==
    ASSUME TypeOK, TypeOK', TurnsSound, NEW s \in Sessions, RemoveSession(s)
    PROVE  TurnsSound'
<1>1. /\ Quiet /\ live' = live \ {s}
      /\ queue'[s] = <<>> /\ active'[s].id = 0
      /\ \A r \in Sessions : r # s => queue'[r] = queue[r] /\ active'[r] = active[r]
      /\ UNCHANGED <<home, terminal, nextTurn>>
      /\ stack' = <<TryAgent(AgentOf[s], SessionsOf(AgentOf[s]) \ {s}), Release(AgentOf[s], s)>>
  BY DEF RemoveSession, TypeOK, NoTurn
<1>2. Range(stack) = {}
  BY <1>1, RangeEmpty DEF Quiet
<1>3. \A c \in Range(stack') : ~Ends(c)
  <2> DEFINE c == TryAgent(AgentOf[s], SessionsOf(AgentOf[s]) \ {s})
  <2> DEFINE d == Release(AgentOf[s], s)
  <2>1. stack' = <<c, d>> /\ ~Ends(c) /\ ~Ends(d)
    BY <1>1 DEF Ends, TryAgent, Release
  <2> HIDE DEF c, d
  <2>2. Range(stack') = {c, d}
    BY <2>1, RangeTwo
  <2> QED
    BY <2>1, <2>2
<1>4. \A r \in Sessions : \A i : Ahead(r, i) => Ahead(r, i)'
  <2> SUFFICES ASSUME NEW r \in Sessions, NEW i, Ahead(r, i) PROVE Ahead(r, i)'
    OBVIOUS
  <2>1. CASE r = s
    BY <1>1, <2>1 DEF Ahead
  <2>2. CASE r # s
    BY <1>1, <2>2 DEF Ahead
  <2> QED
    BY <2>1, <2>2
<1>5. ASSUME NEW r \in Sessions PROVE QueueSound(r)' /\ ActiveSound(r)'
  <2>1. CASE r = s
    BY <1>1, <2>1 DEF QueueSound, ActiveSound, HasActive
  <2>2. CASE r # s
    BY <1>1, <2>2 DEF TurnsSound, QueueSound, ActiveSound, HasActive, Open, Ahead
  <2> QED
    BY <2>1, <2>2
<1>6. ASSUME NEW i \in TurnIds PROVE TurnSound(i)'
  <2>1. TurnSound(i) /\ live \subseteq Sessions /\ home[i] \in Sessions \cup {NoSession}
    BY DEF TurnsSound, TypeOK
  <2>2. terminal[i] = 1 => Ahead(home[i], i)'
    <3>1. home[i] # NoSession => home[i] \in Sessions /\ home'[i] = home[i]
      BY <1>1, <2>1
    <3> QED
      BY <1>1, <1>4, <2>1, <3>1 DEF TurnSound
  <2>3. home[i] \in live' => /\ home[i] \in live
                             /\ queue'[home[i]] = queue[home[i]]
                             /\ active'[home[i]] = active[home[i]]
    BY <1>1, <2>1
  <2> QED
    BY <1>1, <1>2, <2>1, <2>2, <2>3 DEF TurnSound
<1>7. Once(stack')
  BY <1>3, NoneOnce DEF TypeOK
<1>8. \A c \in Range(stack') : EndSound(c)'
  BY <1>3 DEF EndSound, Ends
<1>9. nextTurn' # 0
  BY <1>1 DEF TurnsSound
<1> QED
  BY <1>5, <1>6, <1>7, <1>8, <1>9 DEF TurnsSound

\* A call that returns, and records no end, moves no turn.
LEMMA PoppedTurns ==
    ASSUME TypeOK, TypeOK', TurnsSound, NEW c, Next1(c), c \notin {"finished", "failed"}, Return,
           UNCHANGED <<live, queue, active, home, terminal, nextTurn>>
    PROVE  TurnsSound'
<1>1. /\ stack \in Seq(Calls) /\ stack # <<>> /\ stack' = Tail(stack)
      /\ Once(stack) /\ ~Ends(Head(stack))
  BY DEF TypeOK, Next1, Return, TurnsSound, Ends
<1>2. Range(stack) = {Head(stack)} \cup Range(stack') /\ Once(stack')
  BY <1>1, RangeHead, OnceTail
<1>3. /\ \A d \in Range(stack') : Ends(d) => d \in Range(stack)
      /\ \A d \in Range(stack) : Ends(d) => d \in Range(stack')
  BY <1>1, <1>2
<1> QED
  BY <1>2, <1>3, TurnsFrame

\* Offering the agent to a session leaves two calls that record no end.
LEMMA OfferedTurns ==
    ASSUME TypeOK, TypeOK', TurnsSound, OfferSession
    PROVE  TurnsSound'
<1>1. PICK a \in Agents, rest \in SUBSET Sessions, s \in Sessions :
          stack' = <<TryStart(s), TryAgent(a, rest)>> \o Tail(stack)
  <2>1. Head(stack).agent \in Agents /\ Head(stack).rest \in SUBSET Sessions
    BY TopCall, CallTypes DEF OfferSession
  <2>2. PICK s \in Head(stack).rest :
            stack' = <<TryStart(s), TryAgent(Head(stack).agent, Head(stack).rest \ {s})>> \o Tail(stack)
    BY DEF OfferSession
  <2>3. s \in Sessions /\ Head(stack).rest \ {s} \in SUBSET Sessions
    BY <2>1
  <2> QED
    BY <2>1, <2>2, <2>3
<1> DEFINE p == <<TryStart(s), TryAgent(a, rest)>>
<1> DEFINE q == Tail(stack)
<1>2. /\ stack \in Seq(Calls) /\ stack # <<>> /\ q \in Seq(Calls) /\ ~Ends(Head(stack))
      /\ Once(stack) /\ UNCHANGED <<live, queue, active, home, terminal, nextTurn>>
  BY TopCall DEF OfferSession, Next1, TypeOK, Ends, TurnsSound
<1>3. p \in Seq(Calls) /\ \A c \in Range(p) : ~Ends(c)
  <2> DEFINE c == TryStart(s)
  <2> DEFINE d == TryAgent(a, rest)
  <2>1. c \in Calls /\ d \in Calls /\ ~Ends(c) /\ ~Ends(d)
    BY CallsMade DEF Ends, TryStart, TryAgent
  <2>2. p = <<c, d>>
    OBVIOUS
  <2> HIDE DEF c, d, p
  <2> QED
    BY <2>1, <2>2, RangeTwo
<1>4. stack' = p \o q
  BY <1>1
<1> HIDE DEF p, q
<1>5. Range(stack') = Range(p) \cup Range(q)
  BY <1>2, <1>3, <1>4, RangeConcatenation
<1>6. Once(q) /\ Range(stack) = {Head(stack)} \cup Range(q)
  BY <1>2, OnceTail, RangeHead DEF q
<1>7. Once(stack')
  BY <1>2, <1>3, <1>4, <1>6, NoneOnce, OnceConcat
<1>8. /\ \A d \in Range(stack') : Ends(d) => d \in Range(stack)
      /\ \A d \in Range(stack) : Ends(d) => d \in Range(stack')
  BY <1>2, <1>3, <1>5, <1>6
<1> QED
  BY <1>2, <1>7, <1>8, TurnsFrame

\* A request that cannot be sent leaves its turn to be recorded as failed, above the
\* ends of turns that started before it.
LEMMA RefusedTurns ==
    ASSUME TypeOK, TypeOK', TurnsSound, SendRefused
    PROVE  TurnsSound'
<1>1. PICK s \in Sessions :
          /\ ClearTurn(s)
          /\ stack' = Restart(s) \o <<Failed(s, active[s], FALSE)>> \o Tail(stack)
  <2>1. Head(stack).session \in Sessions
    BY TopCall, CallTypes DEF SendRefused
  <2> QED
    BY <2>1 DEF SendRefused
<1> DEFINE c == Failed(s, active[s], FALSE)
<1> DEFINE p == Restart(s)
<1> DEFINE q == Tail(stack)
<1>2. /\ stack \in Seq(Calls) /\ stack # <<>> /\ q \in Seq(Calls) /\ ~Ends(Head(stack))
      /\ Once(stack) /\ UNCHANGED <<live, queue, home, terminal, nextTurn>>
      /\ stack' = p \o <<c>> \o q
  BY <1>1, TopCall DEF SendRefused, Next1, TypeOK, Ends, TurnsSound
<1>3. /\ c \in Calls /\ c.call = "failed" /\ c.session = s /\ c.turn = active[s]
      /\ active[s].id \in Nat
  BY CallsMade DEF TypeOK, Failed, Turn
<1>4. p \in Seq(Calls) /\ \A d \in Range(p) : ~Ends(d)
  <2>1. live \subseteq Sessions
    BY DEF TypeOK
  <2>2. \A d \in Range(p) : d.call \in {"tryStart", "tryAgent"}
    BY <2>1, RestartCalls
  <2> QED
    BY <2>1, <2>2, RestartType DEF Ends
<1> HIDE DEF c, p, q
<1>5. Once(q) /\ Range(stack) = {Head(stack)} \cup Range(q)
  BY <1>2, OnceTail, RangeHead DEF q
<1>6. ASSUME Ends(c), NEW d \in Range(q), Ends(d) PROVE c.turn.id # d.turn.id
  <2>1. HasActive(s) /\ ActiveSound(s) /\ EndSound(d)
    BY <1>3, <1>5, <1>6 DEF Ends, HasActive, TurnsSound
  <2>2. home[active[s].id] = s /\ home[d.turn.id] = d.session
    BY <1>6, <2>1 DEF ActiveSound, EndSound, Open
  <2>3. d.session = s => d.turn.id < active[s].id
    BY <1>6, <2>1 DEF EndSound
  <2> QED
    BY <1>3, <2>2, <2>3
<1> DEFINE one == <<c>>
<1>7. one \in Seq(Calls) /\ Range(one) = {c} /\ Once(one)
  BY <1>3, RangeOne, OnceOne
<1>8. stack' = (p \o one) \o q
  BY <1>2
<1> HIDE DEF one
<1> DEFINE u == p \o one
<1>9. u \in Seq(Calls) /\ Range(u) = Range(p) \cup {c} /\ Once(u)
  BY <1>4, <1>7, ConcatProperties, RangeConcatenation, NoneOnce, OnceConcat
<1> HIDE DEF u
<1>10. Range(u \o q) = Range(u) \cup Range(q) /\ Once(u \o q)
  BY SMTT(60), <1>2, <1>4, <1>5, <1>6, <1>9, RangeConcatenation, OnceConcat
<1>11. /\ c \in Range(stack') /\ Once(stack')
       /\ \A d \in Range(stack') : Ends(d) => d = c \/ d \in Range(stack)
       /\ \A d \in Range(stack) : Ends(d) => d \in Range(stack')
  BY <1>2, <1>4, <1>5, <1>8, <1>9, <1>10 DEF u
<1> QED
  BY <1>1, <1>2, <1>3, <1>11, ClearedTurns

\* A request that ends leaves the turn it was for to be recorded.
LEMMA EndedTurns ==
    ASSUME TypeOK, TypeOK', TurnsSound, RuntimeTagged, NEW a \in Agents, RuntimeEnds(a)
    PROVE  TurnsSound'
<1>1. PICK s \in Sessions, c \in Calls :
          /\ c.call \in {"finished", "failed"} /\ c.session = s /\ c.turn = active[s]
          /\ ClearTurn(s)
          /\ stack' = Restart(s) \o <<c>>
  <2>1. runtime[a].session \in Sessions
    BY DEF RuntimeEnds, RuntimeFinished, RuntimeFailed, RuntimeTagged
  <2> DEFINE s == runtime[a].session
  <2>2. CASE RuntimeFinished(a)
    <3> DEFINE c == Finished(s, active[s])
    <3>1. /\ c \in Calls /\ c.call = "finished" /\ c.session = s /\ c.turn = active[s]
      BY <2>1, CallsMade DEF TypeOK, Finished
    <3>2. ClearTurn(s) /\ stack' = Restart(s) \o <<c>>
      BY <2>2 DEF RuntimeFinished
    <3> QED
      BY <2>1, <3>1, <3>2
  <2>3. CASE RuntimeFailed(a)
    <3>1. PICK b \in BOOLEAN : ClearTurn(s) /\ stack' = Restart(s) \o <<Failed(s, active[s], b)>>
      BY <2>3 DEF RuntimeFailed
    <3> DEFINE c == Failed(s, active[s], b)
    <3>2. /\ c \in Calls /\ c.call = "failed" /\ c.session = s /\ c.turn = active[s]
      BY <2>1, CallsMade DEF TypeOK, Failed
    <3> QED
      BY <2>1, <3>1, <3>2
  <2> QED
    BY <2>2, <2>3 DEF RuntimeEnds
<1> DEFINE p == Restart(s)
<1>2. Quiet /\ UNCHANGED <<live, queue, home, terminal, nextTurn>> /\ stack' = p \o <<c>>
  BY <1>1 DEF RuntimeEnds, RuntimeFinished, RuntimeFailed
<1>3. /\ c \in Calls /\ c.call \in {"finished", "failed"}
      /\ c.session = s /\ c.turn = active[s]
  BY <1>1
<1>4. p \in Seq(Calls) /\ \A d \in Range(p) : ~Ends(d)
  <2>1. live \subseteq Sessions
    BY DEF TypeOK
  <2>2. \A d \in Range(p) : d.call \in {"tryStart", "tryAgent"}
    BY <2>1, RestartCalls
  <2> QED
    BY <2>1, <2>2, RestartType DEF Ends
<1> HIDE DEF p
<1> DEFINE one == <<c>>
<1>5. one \in Seq(Calls) /\ Range(one) = {c} /\ Once(one)
  BY <1>3, RangeOne, OnceOne
<1>6. stack' = p \o one
  BY <1>2
<1> HIDE DEF one
<1>7. Range(stack') = Range(p) \cup {c} /\ Once(stack')
  BY <1>4, <1>5, <1>6, RangeConcatenation, NoneOnce, OnceConcat
<1>8. Range(stack) = {}
  BY <1>2, RangeEmpty DEF Quiet
<1>9. /\ c \in Range(stack')
      /\ \A d \in Range(stack') : Ends(d) => d = c \/ d \in Range(stack)
      /\ \A d \in Range(stack) : Ends(d) => d \in Range(stack')
  BY <1>4, <1>7, <1>8
<1> QED
  BY <1>1, <1>2, <1>3, <1>7, <1>9, ClearedTurns

\* What is only said about a session moves no turn.
LEMMA UnmovedTurns ==
    ASSUME TypeOK, TypeOK', TurnsSound,
           UNCHANGED <<live, queue, active, home, terminal, nextTurn, stack>>
    PROVE  TurnsSound'
<1>1. Once(stack')
  BY DEF TurnsSound
<1> QED
  BY <1>1, TurnsFrame

\* A message that joins a queued turn leaves it its id and its place.
LEMMA MergedTurns ==
    ASSUME TypeOK, TypeOK', TurnsSound, NEW s \in Sessions, MergeMessage(s)
    PROVE  TurnsSound'
<1> DEFINE n == Len(queue[s])
<1>1. /\ n \in 1 .. Len(queue[s]) /\ queue[s] \in Seq(Turn)
      /\ queue' = [queue EXCEPT ![s][n] = Merged(@)]
      /\ UNCHANGED <<live, active, home, terminal, nextTurn, stack>>
  BY DEF MergeMessage, Mergeable, TypeOK
<1>2. queue[s][n] \in Turn /\ Merged(queue[s][n]).id = queue[s][n].id
  BY <1>1, MergedType
<1>3. ASSUME NEW r \in Sessions
      PROVE  /\ Len(queue'[r]) = Len(queue[r])
             /\ \A k \in 1 .. Len(queue[r]) : queue'[r][k].id = queue[r][k].id
  <2>1. CASE r = s
    <3>1. queue'[s] = [queue[s] EXCEPT ![n] = Merged(@)]
      BY <1>1 DEF TypeOK
    <3>2. Len(queue'[s]) = Len(queue[s])
      BY <1>1, <3>1
    <3>3. \A k \in 1 .. Len(queue[s]) : queue'[s][k].id = queue[s][k].id
      <4> SUFFICES ASSUME NEW k \in 1 .. Len(queue[s]) PROVE queue'[s][k].id = queue[s][k].id
        OBVIOUS
      <4>1. CASE k = n
        BY <1>1, <1>2, <3>1, <4>1
      <4>2. CASE k # n
        BY <1>1, <3>1, <4>2
      <4> QED
        BY <4>1, <4>2
    <3> QED
      BY <2>1, <3>2, <3>3
  <2>2. CASE r # s
    BY <1>1, <2>2 DEF TypeOK
  <2> QED
    BY <2>1, <2>2
<1>4. Once(stack')
  BY <1>1 DEF TurnsSound
<1> QED
  BY <1>1, <1>3, <1>4, TurnsFrame

\* A turn that arrives.
LEMMA ComingTurns ==
    ASSUME TypeOK, TypeOK', TurnsSound, TeammateReply \/ \E s \in Sessions : EnqueueMessage(s)
    PROVE  TurnsSound'
<1>1. CASE TeammateReply
  <2> DEFINE t == [id |-> nextTurn, source |-> "internal", merged |-> 1]
  <2>1. t \in Turn /\ t.id = nextTurn /\ current \in Sessions
    BY <1>1 DEF TeammateReply, TypeOK, Turn, Sources
  <2>2. /\ Quiet /\ nextTurn <= MaxTurns
        /\ queue' = [queue EXCEPT ![current] = Append(@, t)]
        /\ home' = [home EXCEPT ![nextTurn] = current] /\ nextTurn' = nextTurn + 1
        /\ stack' = <<TryStart(current)>> /\ UNCHANGED <<live, active, terminal>>
    BY <1>1 DEF TeammateReply, Enqueued
  <2>3. PICK s \in Sessions : s = current
    BY <2>1
  <2> HIDE DEF t
  <2> QED
    BY <2>1, <2>2, <2>3, ArrivedTurns
<1>2. ASSUME NEW s \in Sessions, EnqueueMessage(s) PROVE TurnsSound'
  <2> DEFINE t == [id |-> nextTurn, source |-> "user", merged |-> 1]
  <2>1. t \in Turn /\ t.id = nextTurn
    BY DEF TypeOK, Turn, Sources
  <2>2. /\ Quiet /\ nextTurn <= MaxTurns
        /\ queue' = [queue EXCEPT ![s] = Append(@, t)]
        /\ home' = [home EXCEPT ![nextTurn] = s] /\ nextTurn' = nextTurn + 1
        /\ stack' = <<TryStart(s)>> /\ UNCHANGED <<live, active, terminal>>
    BY <1>2 DEF EnqueueMessage, Enqueued
  <2> HIDE DEF t
  <2> QED
    BY <2>1, <2>2, ArrivedTurns
<1> QED
  BY <1>1, <1>2

LEMMA TurnsStep == AccountsInv /\ TypeOK' /\ [Next]_vars => TurnsSound'
<1> SUFFICES ASSUME AccountsInv, TypeOK', [Next]_vars PROVE TurnsSound'
  OBVIOUS
<1>1. TypeOK /\ RuntimeTagged /\ TurnsSound
  BY DEF AccountsInv, IInv
<1>2. CASE UNCHANGED vars
  BY <1>1, <1>2, UnmovedTurns DEF vars
<1>3. CASE SkipStart \/ SendAccepted \/ StopOffering \/ ReleaseRuntime
  <2>1. PICK c \in {"tryStart", "send", "tryAgent", "release"} : Next1(c)
    BY <1>3 DEF SkipStart, SendAccepted, StopOffering, ReleaseRuntime
  <2>2. Return /\ UNCHANGED <<live, queue, active, home, terminal, nextTurn>>
    BY <1>3 DEF SkipStart, SendAccepted, StopOffering, ReleaseRuntime
  <2> QED
    BY <1>1, <2>1, <2>2, PoppedTurns
<1>4. CASE StartTurn \/ OfferSession \/ SendRefused \/ RecordFinished \/ RecordFailed
  BY <1>1, <1>4, StartTurns, OfferedTurns, RefusedTurns, RecordTurns
<1>5. CASE TeammateReply \/ \E s \in Sessions : EnqueueMessage(s)
  BY <1>1, <1>5, ComingTurns
<1>6. CASE \E s \in Sessions : MergeMessage(s) \/ AbortTurn(s) \/ RemoveSession(s)
  BY <1>1, <1>6, MergedTurns, AbortTurns, RemoveTurns
<1>7. CASE \E a \in Agents : RuntimeEnds(a)
  BY <1>1, <1>7, EndedTurns
<1>8. CASE \/ \E s \in Sessions : SwitchSession(s)
           \/ \E a \in Agents : \/ DelegateAccepted(a) \/ DelegateRefused(a)
                                \/ DelegateAcceptedSettled(a) \/ DelegateSettled(a)
  <2>1. UNCHANGED <<live, queue, active, home, terminal, nextTurn, stack>>
    BY <1>8 DEF SwitchSession, DelegateAccepted, DelegateRefused, DelegateAcceptedSettled,
                DelegateSettled
  <2> QED
    BY <1>1, <2>1, UnmovedTurns
<1> QED
  BY <1>2, <1>3, <1>4, <1>5, <1>6, <1>7, <1>8 DEF Next, Step

-----------------------------------------------------------------------------
(* The invariant.                                                          *)

LEMMA InitAccounts == Init => AccountsInv
<1> SUFFICES ASSUME Init PROVE AccountsInv
  OBVIOUS
<1>1. IInv /\ TypeOK
  BY InitInv DEF IInv
<1>2. /\ Range(stack) = {} /\ stack = <<>> /\ nextTurn = 1
      /\ \A s \in Sessions : queue[s] = <<>> /\ ~HasActive(s) /\ active[s].id = 0
      /\ \A s \in Sessions : task[s].state = "none"
      /\ \A a \in Agents : lane[a] = NoSession
      /\ \A i \in TurnIds : home[i] = NoSession /\ terminal[i] = 0
  BY RangeEmpty DEF Init, HasActive, NoTurn
<1>3. CallsSound
  BY <1>2 DEF CallsSound, SendsFirst, ActiveLive, LaneSound, FlightSound, WakeSound, TaskSound
<1>4. NoSession \notin live
  BY PipelineAssumption DEF Init, PipelineAssumption
<1>5. Once(stack)
  BY <1>2 DEF Once
<1>6. \A s \in Sessions : QueueSound(s) /\ ActiveSound(s)
  BY <1>2 DEF QueueSound, ActiveSound
<1>7. \A i \in TurnIds : TurnSound(i)
  BY <1>2, <1>4 DEF TurnSound, TurnIds
<1>8. TurnsSound
  BY <1>2, <1>5, <1>6, <1>7 DEF TurnsSound
<1> QED
  BY <1>1, <1>3, <1>8 DEF AccountsInv

LEMMA AccountsStep == AccountsInv /\ [Next]_vars => AccountsInv'
<1> SUFFICES ASSUME AccountsInv, [Next]_vars PROVE AccountsInv'
  OBVIOUS
<1>1. IInv /\ IInv' /\ TypeOK'
  BY InvStep DEF AccountsInv, IInv
<1>2. CallsSound' /\ TurnsSound'
  BY <1>1, CallsStep, TurnsStep
<1> QED
  BY <1>1, <1>2 DEF AccountsInv

\* What the running handlers still have to do, and where every turn is, stay
\* consistent whatever handlers call each other.
THEOREM Accounts == Spec => []AccountsInv
BY InitAccounts, AccountsStep, PTL DEF Spec

-----------------------------------------------------------------------------
(* What follows for the properties of TurnPipeline.                        *)

\* The signal that ends the request in flight ends the active turn and no other:
\* between handlers an agent's runtime has in flight, and tagged with its session,
\* the turn that is active.
THEOREM EndsItsOwnTurn == Spec => []ActiveTurnInFlight
<1>1. AccountsInv => ActiveTurnInFlight
  BY DEF AccountsInv, CallsSound, FlightSound, ActiveTurnInFlight, Quiet
<1> QED
  BY <1>1, Accounts, PTL

\* No wake-up is lost: between handlers every lane is held for a turn that will end,
\* and a queued turn waits for one, also after a session of the agent was removed.
THEOREM WakesUp == Spec => []WakeUpsKept
<1>1. AccountsInv => WakeUpsKept
  <2> SUFFICES ASSUME AccountsInv, Quiet
               PROVE  /\ \A a \in Agents : lane[a] # NoSession =>
                            lane[a] \in SessionsOf(a) /\ HasActive(lane[a])
                      /\ \A s \in live : queue[s] # <<>> /\ AtMostOneGone(AgentOf[s])
                            => \E r \in SessionsOf(AgentOf[s]) : HasActive(r)
    BY DEF WakeUpsKept, LaneHeldForATurn
  <2>1. TypeOK /\ CallsSound
    BY DEF AccountsInv, IInv
  <2>2. ASSUME NEW a \in Agents, lane[a] # NoSession
        PROVE  lane[a] \in SessionsOf(a) /\ HasActive(lane[a])
    <3>1. AgentOf[lane[a]] = a /\ HasActive(lane[a])
      BY <2>1, <2>2, NothingWaits DEF CallsSound, LaneSound
    <3>2. lane[a] \in live
      BY <2>1, <2>2, <3>1 DEF TypeOK, CallsSound, ActiveLive
    <3> QED
      BY <3>1, <3>2 DEF SessionsOf
  <2>3. ASSUME NEW s \in live, queue[s] # <<>>, AtMostOneGone(AgentOf[s])
        PROVE  \E r \in SessionsOf(AgentOf[s]) : HasActive(r)
    <3>1. Working(AgentOf[s])
      BY <2>1, <2>3, NothingWaits DEF CallsSound, WakeSound, TypeOK
    <3> QED
      BY <2>1, <3>1 DEF Working, CallsSound, ActiveLive, SessionsOf
  <2> QED
    BY <2>2, <2>3
<1> QED
  BY <1>1, Accounts, PTL

\* A session without turns does not go on showing one that waits or runs, in
\* whatever order the nested handlers wrote its task state.
THEOREM IdleIsSettled == Spec => []IdleSessionSettled
<1>1. AccountsInv => IdleSessionSettled
  <2> SUFFICES ASSUME AccountsInv, Quiet, NEW s \in live, TotalDepth(s) = 0
               PROVE  task[s].state \notin {"queued", "running"}
    BY DEF IdleSessionSettled
  <2>1. TypeOK /\ TaskSound(s) /\ s \in Sessions
    BY DEF AccountsInv, IInv, CallsSound, TypeOK
  <2>2. queue[s] = <<>> /\ ~HasActive(s)
    <3> DEFINE n == Len(queue[s])
    <3>1. queue[s] \in Seq(Turn) /\ n \in Nat
      BY <2>1 DEF TypeOK
    <3>2. CASE HasActive(s)
      <4>1. n + 1 = 0
        BY <3>2 DEF TotalDepth
      <4> QED
        BY <3>1, <4>1
    <3>3. CASE ~HasActive(s)
      <4>1. n + 0 = 0
        BY <3>3 DEF TotalDepth
      <4> QED
        BY <3>1, <3>3, <4>1
    <3> QED
      BY <3>2, <3>3
  <2> QED
    BY <2>1, <2>2, NothingWaits DEF TaskSound
<1> QED
  BY <1>1, Accounts, PTL

\* Turns of a session start in the order in which they were accepted: whatever is
\* active, ending or ended is ahead of all that is queued.
THEOREM InOrder == Spec => []StartedInOrder
<1>1. AccountsInv => StartedInOrder
  <2> SUFFICES ASSUME AccountsInv, NEW i \in Accepted, NEW j \in Accepted,
                      i < j, home[i] = home[j], Queued(i)
               PROVE  Queued(j)
    BY DEF StartedInOrder
  <2>1. TypeOK /\ TurnsSound
    BY DEF AccountsInv, IInv
  <2>2. PICK s \in live : \E k \in 1 .. Len(queue[s]) : queue[s][k].id = i
    BY DEF Queued
  <2>3. PICK k \in 1 .. Len(queue[s]) : queue[s][k].id = i
    BY <2>2
  <2>4. s \in Sessions /\ QueueSound(s) /\ ActiveSound(s) /\ home[i] = s
    BY <2>1, <2>3 DEF TypeOK, TurnsSound, QueueSound, Open
  <2>5. j \in TurnIds /\ i \in TurnIds /\ TurnSound(j) /\ home[j] = s
    BY <2>1, <2>4 DEF Accepted, TurnsSound
  <2>6. \A n \in TurnIds : Ahead(s, n) => n < i
    BY <2>3 DEF Ahead
  <2>7. ~(j < i)
    BY <2>5 DEF TurnIds
  <2>8. terminal[j] # 1
    BY <2>5, <2>6, <2>7 DEF TurnSound
  <2>9. active[s].id # j
    <3>1. j # 0
      BY <2>5 DEF TurnIds
    <3> QED
      BY <2>4, <2>5, <2>6, <2>7, <3>1 DEF ActiveSound, HasActive
  <2>10. ASSUME NEW c \in Range(stack), Ends(c) PROVE c.turn.id # j
    <3>1. home[c.turn.id] = c.session /\ Ahead(c.session, c.turn.id)
      BY <2>1, <2>10 DEF TurnsSound, EndSound, Open
    <3> QED
      BY <2>5, <2>6, <2>7, <3>1
  <2>11. \E l \in 1 .. Len(queue[s]) : queue[s][l].id = j
    BY <2>5, <2>8, <2>9, <2>10 DEF TurnSound
  <2> QED
    BY <2>11 DEF Queued
<1> QED
  BY <1>1, Accounts, PTL

\* A turn is in one place at a time: queued, active, being ended, or ended.
LEMMA OnePlace ==
    ASSUME AccountsInv, NEW i \in Accepted
    PROVE  /\ Queued(i) \/ Active(i) \/ Ending(i) \/ terminal[i] = 1
           /\ Queued(i) => ~Active(i) /\ ~Ending(i) /\ terminal[i] # 1
           /\ Active(i) => ~Ending(i) /\ terminal[i] # 1
           /\ Ending(i) => terminal[i] # 1
<1>1. TypeOK /\ TurnsSound
  BY DEF AccountsInv, IInv
<1>2. PICK s \in live : home[i] = s
  BY DEF Accepted
<1>3. /\ s \in Sessions /\ QueueSound(s) /\ ActiveSound(s)
      /\ i \in TurnIds /\ i # 0 /\ i \in Nat /\ TurnSound(i)
  BY <1>1 DEF TypeOK, TurnsSound, Accepted, TurnIds
<1>4. Queued(i) => Open(s, i) /\ ~Ahead(s, i)
  <2> SUFFICES ASSUME NEW r \in live, NEW k \in 1 .. Len(queue[r]), queue[r][k].id = i
               PROVE  Open(s, i) /\ ~Ahead(s, i)
    BY DEF Queued
  <2>1. Open(r, i)
    BY <1>1 DEF TurnsSound, QueueSound, TypeOK
  <2>2. r = s
    BY <1>2, <2>1 DEF Open
  <2> QED
    BY <1>3, <2>1, <2>2 DEF Ahead
<1>5. Active(i) => active[s].id = i /\ Open(s, i) /\ Ahead(s, i)
  <2> SUFFICES ASSUME NEW r \in live, active[r].id = i
               PROVE  active[s].id = i /\ Open(s, i) /\ Ahead(s, i)
    BY DEF Active
  <2>1. Open(r, i) /\ Ahead(r, i)
    BY <1>1, <1>3 DEF TurnsSound, ActiveSound, HasActive, TypeOK
  <2>2. r = s
    BY <1>2, <2>1 DEF Open
  <2> QED
    BY <2>1, <2>2
<1>6. Ending(i) <=> \E c \in Range(stack) : Ends(c) /\ c.turn.id = i
  <2>1. Range(stack) = {stack[k] : k \in 1 .. Len(stack)}
    <3>1. stack \in Seq(Calls)
      BY <1>1 DEF TypeOK
    <3> QED
      BY <3>1, RangeEquality
  <2> QED
    BY <1>3, <2>1 DEF Ending, Ends
<1>7. Ending(i) => Open(s, i) /\ Ahead(s, i) /\ active[s].id # i
  <2> SUFFICES ASSUME NEW c \in Range(stack), Ends(c), c.turn.id = i
               PROVE  Open(s, i) /\ Ahead(s, i) /\ active[s].id # i
    BY <1>6
  <2>1. Open(c.session, i) /\ Ahead(c.session, i) /\ (HasActive(c.session) => i < active[c.session].id)
    BY <1>1 DEF TurnsSound, EndSound
  <2>2. c.session = s
    BY <1>2, <2>1 DEF Open
  <2> QED
    BY <1>3, <2>1, <2>2 DEF HasActive
<1>8. Queued(i) \/ Active(i) \/ Ending(i) \/ terminal[i] = 1
  BY <1>2, <1>3, <1>6 DEF TurnSound, Queued, Active
<1> QED
  BY <1>4, <1>5, <1>7, <1>8 DEF Open

\* Handlers that start turns while another turn ends neither lose a turn nor end one
\* twice: a turn accepted for a session that still exists is in exactly one place.
THEOREM EveryTurnAccounted == Spec => []TurnsAccounted
<1>1. AccountsInv => TurnsAccounted
  <2> SUFFICES ASSUME AccountsInv, NEW i \in Accepted
               PROVE  Cardinality({p \in {"queued", "active", "ending", "ended"} :
                                      \/ p = "queued" /\ Queued(i)
                                      \/ p = "active" /\ Active(i)
                                      \/ p = "ending" /\ Ending(i)
                                      \/ p = "ended"  /\ terminal[i] = 1}) = 1
    BY DEF TurnsAccounted
  <2> DEFINE places == {p \in {"queued", "active", "ending", "ended"} :
                           \/ p = "queued" /\ Queued(i)
                           \/ p = "active" /\ Active(i)
                           \/ p = "ending" /\ Ending(i)
                           \/ p = "ended"  /\ terminal[i] = 1}
  <2>1. \E p : places = {p}
    <3>1. CASE Queued(i)
      <4>1. places = {"queued"}
        BY <3>1, OnePlace
      <4> QED
        BY <4>1
    <3>2. CASE Active(i)
      <4>1. places = {"active"}
        BY <3>2, OnePlace
      <4> QED
        BY <4>1
    <3>3. CASE Ending(i)
      <4>1. places = {"ending"}
        BY <3>3, OnePlace
      <4> QED
        BY <4>1
    <3>4. CASE terminal[i] = 1
      <4>1. places = {"ended"}
        BY <3>4, OnePlace
      <4> QED
        BY <4>1
    <3> QED
      BY <3>1, <3>2, <3>3, <3>4, OnePlace
  <2> HIDE DEF places
  <2>2. Cardinality(places) = 1
    BY <2>1, FS_Singleton
  <2> QED
    BY <2>2 DEF places
<1> QED
  BY <1>1, Accounts, PTL
=============================================================================
