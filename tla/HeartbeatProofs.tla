-------------------------- MODULE HeartbeatProofs --------------------------
(***************************************************************************)
(* Proofs about Heartbeat, for any summaries and any number of states a    *)
(* process allocates: one cycle of an agent at a time and a row that tells *)
(* of it, no summary twice in a row, and no ticket given up.               *)
(*                                                                         *)
(* The invariant relates the agent in memory, its row and the background   *)
(* tasks.  Tasks of an agent that was removed stay behind, but they have   *)
(* the id of an object that is gone: ids grow while the process runs.      *)
(***************************************************************************)
EXTENDS Heartbeat, FiniteSetTheorems, TLAPS

\* An agent a agrees with its row, with the tasks of its cycle, of which there is at
\* most one, with whether that task was lost, and with the summary posted last.
Agrees(a, row, running, gone, posted) ==
    /\ row.ticket = a.rs.ticket
    /\ a.running => a.rs.unfinished /\ row.unfinished
    /\ a.rs.digest = posted
    /\ \A t, u \in running : t.id = a.id /\ u.id = a.id => t = u
    /\ \A t \in running : t.id = a.id => a.running /\ ~gone
    /\ gone => a.running

AgentInv == Present => agent.id = states /\ Agrees(agent, store, tasks, lost, last)

RowInv ==
    /\ store.digest = last
    /\ ~repeated
    /\ ~Present => ~lost
    /\ \A t \in tasks : t.id <= states
    /\ phase \in {"closed", "overflow"} => ~Present /\ states = 0 /\ tasks = {}

BeatInv == TypeOK /\ AgentInv /\ RowInv

-----------------------------------------------------------------------------
(* Runtime states and tickets.                                             *)

LEMMA Bounds == MaxStates \in Nat /\ MaxStates # 0 /\ 1 \in 1 .. MaxStates
BY HeartbeatAssumption DEF HeartbeatAssumption

\* The tickets, written out.
LEMMA TicketFields ==
    /\ NoTicket  = [kind |-> "none",   priority |-> 0, key |-> ""]
    /\ Automatic = [kind |-> "auto",   priority |-> 1, key |-> "auto"]
    /\ Manual    = [kind |-> "manual", priority |-> 3, key |-> "manual"]
    /\ Recovered = [kind |-> "event",  priority |-> 2, key |-> "provider_recovered"]
    /\ JobSettled(TRUE)  = [kind |-> "event", priority |-> 2, key |-> "delegate_job_settled"]
    /\ JobSettled(FALSE) = [kind |-> "event", priority |-> 3, key |-> "delegate_job_settled"]
BY DEF NoTicket, Automatic, Manual, Recovered, JobSettled, Ticket

LEMMA TicketParts ==
    /\ NoTicket.priority = 0 /\ NoTicket.key = ""
    /\ Automatic.priority = 1 /\ Automatic.key = "auto"
    /\ Manual.priority = 3 /\ Manual.key = "manual"
    /\ Recovered.priority = 2 /\ Recovered.key = "provider_recovered"
    /\ JobSettled(TRUE).priority = 2 /\ JobSettled(TRUE).key = "delegate_job_settled"
    /\ JobSettled(FALSE).priority = 3 /\ JobSettled(FALSE).key = "delegate_job_settled"
BY DEF NoTicket, Automatic, Manual, Recovered, JobSettled, Ticket

LEMMA TicketTypes ==
    /\ NoTicket \in Tickets /\ Automatic \in Tickets /\ Manual \in Tickets /\ Recovered \in Tickets
    /\ \A success \in BOOLEAN : JobSettled(success) \in Tickets
    /\ \A t \in Tickets : t.priority \in 0 .. 3
<1>1. \A success \in BOOLEAN : JobSettled(success) \in Tickets
  <2> SUFFICES ASSUME NEW success \in BOOLEAN PROVE JobSettled(success) \in Tickets
    OBVIOUS
  <2>1. CASE success
    BY <2>1 DEF Tickets, JobSettled
  <2>2. CASE ~success
    BY <2>2 DEF Tickets, JobSettled
  <2> QED
    BY <2>1, <2>2
<1>2. ASSUME NEW t \in Tickets PROVE t.priority \in 0 .. 3
  <2>1. t.priority \in {0, 1, 2, 3}
    BY TicketParts DEF Tickets
  <2> QED
    BY <2>1
<1> QED
  BY <1>1, <1>2 DEF Tickets

LEMMA RealTickets ==
    /\ Automatic # NoTicket /\ Manual # NoTicket /\ Recovered # NoTicket
    /\ \A success \in BOOLEAN : JobSettled(success) # NoTicket
<1>1. /\ Automatic.kind = "auto" /\ Manual.kind = "manual" /\ Recovered.kind = "event"
      /\ NoTicket.kind = "none"
  BY TicketFields
<1>2. \A success \in BOOLEAN : JobSettled(success).kind = "event"
  BY DEF JobSettled, Ticket
<1> QED
  BY <1>1, <1>2

\* A ticket with another priority.
LEMMA Reprioritised ==
    ASSUME NEW k, NEW p, NEW q, NEW n
    PROVE  [Ticket(k, p, q) EXCEPT !.priority = n] = Ticket(k, n, q)
BY DEF Ticket

\* Merging keeps one of the two tickets, or raises its priority, and never lowers it.
LEMMA MergeKeeps ==
    ASSUME NEW c \in Tickets, NEW t \in Tickets
    PROVE  Merge(c, t) \in Tickets /\ Merge(c, t).priority >= c.priority
<1> DEFINE jobs == {JobSettled(TRUE), JobSettled(FALSE)}
<1>1. CASE c.key # t.key
  BY <1>1, TicketTypes DEF Merge
<1>2. CASE c.key = t.key
  <2>1. CASE c.key = "delegate_job_settled"
    <3>1. c \in jobs
      BY <2>1, TicketParts DEF Tickets
    <3>2. t \in jobs
      BY <1>2, <2>1, TicketParts DEF Tickets
    <3>3. Merge(c, t) \in {c, t} /\ Merge(c, t).priority >= c.priority
      <4>1. /\ JobSettled(TRUE) = Ticket("event", 2, "delegate_job_settled")
            /\ JobSettled(FALSE) = Ticket("event", 3, "delegate_job_settled")
        BY DEF JobSettled
      <4>2. PICK p \in {2, 3} : c = Ticket("event", p, "delegate_job_settled")
        BY <3>1, <4>1
      <4>3. PICK n \in {2, 3} : t = Ticket("event", n, "delegate_job_settled")
        BY <3>2, <4>1
      <4>4. c.priority = p /\ t.priority = n
        BY <4>2, <4>3 DEF Ticket
      <4>5. Merge(c, t) = [c EXCEPT !.priority = IF n > p THEN n ELSE p]
        BY <1>2, <4>4 DEF Merge
      <4>6. Merge(c, t) = Ticket("event", IF n > p THEN n ELSE p, "delegate_job_settled")
        BY <4>2, <4>5, Reprioritised
      <4>7. CASE n > p
        BY <4>3, <4>4, <4>6, <4>7
      <4>8. CASE ~(n > p)
        BY <4>2, <4>4, <4>6, <4>8
      <4> QED
        BY <4>7, <4>8
    <3> QED
      BY <3>3
  <2>2. CASE c.key # "delegate_job_settled"
    <3>1. c \notin jobs /\ t \notin jobs
      BY <1>2, <2>2, TicketParts
    <3>2. c = t
      BY <1>2, <3>1, TicketParts DEF Tickets
    <3>3. PICK k, p, q : c = Ticket(k, p, q)
      BY DEF Tickets, NoTicket, Automatic, Manual, Recovered, JobSettled
    <3>4. c.priority \in 0 .. 3 /\ c.priority = p
      BY <3>3, TicketTypes DEF Ticket
    <3>5. Merge(c, t) = [c EXCEPT !.priority = p]
      BY <1>2, <3>2, <3>4 DEF Merge
    <3>6. Merge(c, t) = c
      BY <3>3, <3>5, Reprioritised
    <3> QED
      BY <3>4, <3>6
  <2> QED
    BY <2>1, <2>2
<1> QED
  BY <1>1, <1>2

LEMMA FreshType == FreshState \in RuntimeState
BY TicketTypes DEF FreshState, RuntimeState, Dues

\* Setting the next due time changes nothing else.
LEMMA ScheduledState ==
    ASSUME NEW rs \in RuntimeState, NEW on \in BOOLEAN
    PROVE  /\ Scheduled(rs, on) \in RuntimeState
           /\ Scheduled(rs, on).ticket = rs.ticket
           /\ Scheduled(rs, on).unfinished = rs.unfinished
           /\ Scheduled(rs, on).digest = rs.digest
BY DEF Scheduled, RuntimeState, Dues

LEMMA LateState ==
    ASSUME NEW rs \in RuntimeState
    PROVE  /\ Late(rs) \in RuntimeState
           /\ Late(rs).ticket = rs.ticket
           /\ Late(rs).unfinished = rs.unfinished
           /\ Late(rs).digest = rs.digest
BY DEF Late, RuntimeState, Dues

\* A runtime state that replaces that of an agent.
LEMMA WithState ==
    ASSUME NEW a \in AgentState, NEW rs \in RuntimeState
    PROVE  /\ [a EXCEPT !.rs = rs] \in AgentState
           /\ [a EXCEPT !.rs = rs].rs = rs
           /\ [a EXCEPT !.rs = rs].id = a.id
           /\ [a EXCEPT !.rs = rs].running = a.running
BY DEF AgentState

LEMMA RequestedAgent ==
    ASSUME NEW a \in AgentState, NEW t \in Tickets
    PROVE  LET b == Requested(a, t)
           IN  /\ b \in AgentState /\ b.id = a.id /\ b.running = a.running
               /\ b.rs \in RuntimeState
               /\ b.rs.ticket = Merge(a.rs.ticket, t)
               /\ b.rs.unfinished = a.rs.unfinished /\ b.rs.digest = a.rs.digest
<1> DEFINE rs == [a.rs EXCEPT !.ticket = Merge(@, t)]
<1>1. a.rs \in RuntimeState /\ a.rs.ticket \in Tickets
  BY DEF AgentState, RuntimeState
<1>2. Merge(a.rs.ticket, t) \in Tickets
  BY <1>1, MergeKeeps
<1>3. /\ rs \in RuntimeState /\ rs.ticket = Merge(a.rs.ticket, t)
      /\ rs.unfinished = a.rs.unfinished /\ rs.digest = a.rs.digest
  BY <1>1, <1>2 DEF RuntimeState
<1>4. Requested(a, t) = [a EXCEPT !.rs = rs]
  BY DEF Requested, AgentState
<1> HIDE DEF rs
<1> QED
  BY <1>3, <1>4, WithState

\* The agent after a cycle: nothing runs, and its ticket and digest are as they were.
LEMMA CompletedAgent ==
    ASSUME NEW a \in AgentState, NEW t \in Tickets, policy.enabled \in BOOLEAN
    PROVE  LET b == Completed(a, t)
           IN  /\ b \in AgentState /\ b.id = a.id /\ ~b.running
               /\ b.rs \in RuntimeState
               /\ b.rs.ticket = a.rs.ticket /\ b.rs.digest = a.rs.digest
<1> DEFINE again == t.kind # "manual" \/ a.rs.due # "future"
<1> DEFINE rs == IF again THEN Scheduled(a.rs, policy.enabled) ELSE a.rs
<1> DEFINE done == [rs EXCEPT !.unfinished = FALSE]
<1>1. a.rs \in RuntimeState
  BY DEF AgentState
<1>2. rs \in RuntimeState /\ rs.ticket = a.rs.ticket /\ rs.digest = a.rs.digest
  BY <1>1, ScheduledState
<1>3. Completed(a, t) = [a EXCEPT !.running = FALSE, !.rs = [rs EXCEPT !.unfinished = FALSE]]
  BY DEF Completed
<1> HIDE DEF rs
<1>4. done \in RuntimeState /\ done.ticket = a.rs.ticket /\ done.digest = a.rs.digest
  BY <1>2 DEF RuntimeState
<1>5. Completed(a, t) = [a EXCEPT !.running = FALSE, !.rs = done]
  BY <1>3
<1> HIDE DEF done
<1> DEFINE b == [a EXCEPT !.running = FALSE, !.rs = done]
<1>6. b \in AgentState /\ b.id = a.id /\ ~b.running /\ b.rs = done
  BY <1>4 DEF AgentState
<1> HIDE DEF b
<1> QED
  BY <1>4, <1>5, <1>6 DEF b

\* The agent in a cycle, which has taken its ticket.
LEMMA BegunAgent ==
    ASSUME agent \in AgentState
    PROVE  /\ Begun \in AgentState /\ Begun.id = agent.id /\ Begun.running
           /\ Begun.rs \in RuntimeState
           /\ Begun.rs.ticket = NoTicket /\ Begun.rs.unfinished
           /\ Begun.rs.digest = agent.rs.digest
<1> DEFINE rs == [agent.rs EXCEPT !.ticket = NoTicket, !.unfinished = TRUE]
<1>1. /\ rs \in RuntimeState /\ rs.ticket = NoTicket /\ rs.unfinished
      /\ rs.digest = agent.rs.digest
  BY TicketTypes DEF AgentState, RuntimeState
<1>2. Begun = [agent EXCEPT !.running = TRUE, !.rs = rs]
  BY DEF Begun
<1> HIDE DEF rs
<1> DEFINE b == [agent EXCEPT !.running = TRUE, !.rs = rs]
<1>3. b \in AgentState /\ b.id = agent.id /\ b.running /\ b.rs = rs
  BY <1>1 DEF AgentState
<1> HIDE DEF b
<1> QED
  BY <1>1, <1>2, <1>3 DEF b

\* An agent that ensureAgent makes agrees with the row, and has an id that no task has.
LEMMA NewAgent ==
    ASSUME BeatInv, ~Present, states < MaxStates
    PROVE  /\ NewState \in AgentState /\ NewState.rs \in RuntimeState
           /\ NewState.id = states + 1 /\ NewState.id \in 1 .. MaxStates
           /\ Agrees(NewState, store, tasks, lost, last)
           /\ \A t \in tasks : t.id <= NewState.id
<1>1. store \in RuntimeState /\ policy.enabled \in BOOLEAN /\ states \in 0 .. MaxStates
  BY DEF BeatInv, TypeOK
<1>2. /\ Restored \in RuntimeState /\ Restored.ticket = store.ticket
      /\ Restored.digest = store.digest
  BY <1>1, ScheduledState DEF Restored
<1>3. states + 1 \in 1 .. MaxStates
  BY <1>1, Bounds
<1>4. /\ NewState \in AgentState /\ NewState.rs = Restored /\ NewState.id = states + 1
      /\ ~NewState.running
  BY <1>2, <1>3 DEF AgentState, NewState
<1>5. \A t \in tasks : t.id \in Nat /\ t.id <= states
  BY Bounds DEF BeatInv, TypeOK, RowInv
<1>6. \A t \in tasks : t.id <= NewState.id /\ t.id # NewState.id
  BY <1>1, <1>4, <1>5
<1>7. ~lost /\ store.digest = last
  BY DEF BeatInv, RowInv
<1> QED
  BY <1>2, <1>3, <1>4, <1>6, <1>7 DEF Agrees

\* What ensureAgent returns agrees with the row: the agent in memory, or a new one.
LEMMA EnsuredAgent ==
    ASSUME BeatInv, MayEnsure
    PROVE  /\ Ensured \in AgentState /\ Ensured.rs \in RuntimeState
           /\ Ensured.id \in 1 .. MaxStates
           /\ Agrees(Ensured, store, tasks, lost, last)
           /\ \A t \in tasks : t.id <= Ensured.id
           /\ Ensured.rs.ticket \in Tickets
<1>1. CASE Present
  <2>1. agent \in AgentState /\ Ensured = agent
    BY <1>1 DEF BeatInv, TypeOK, Ensured, Present, NoAgent
  <2> QED
    BY <1>1, <2>1 DEF BeatInv, AgentInv, RowInv, AgentState, RuntimeState
<1>2. CASE ~Present
  <2>1. states < MaxStates
    BY <1>2 DEF MayEnsure
  <2> QED
    BY <1>2, <2>1, NewAgent DEF Ensured, RuntimeState
<1> QED
  BY <1>1, <1>2

-----------------------------------------------------------------------------
(* Steps of the invariant.                                                 *)

\* The types of all but the agent, its row, the phase and the count of states.
RestOK ==
    /\ policy \in [enabled : BOOLEAN, llm : BOOLEAN]
    /\ tasks \subseteq [id : 1 .. MaxStates, ticket : Tickets \ {NoTicket}]
    /\ {lost, open, probing, runtime, repeated} \subseteq BOOLEAN
    /\ known \in {"unknown", "ok", "down"}
    /\ last \in Summaries \cup {NoSummary}

LEMMA RestTyped == BeatInv => RestOK
BY DEF BeatInv, TypeOK, RestOK

LEMMA PresentAgent ==
    ASSUME BeatInv, Present
    PROVE  /\ agent \in AgentState /\ agent.rs \in RuntimeState
           /\ agent.rs.ticket \in Tickets /\ agent.id \in 1 .. MaxStates /\ agent.id = states
           /\ phase \in {"up", "undefined"}
           /\ Agrees(agent, store, tasks, lost, last)
           /\ \A t \in tasks : t.id <= agent.id
<1>1. agent \in AgentState
  BY DEF BeatInv, TypeOK, Present, NoAgent
<1>2. agent.rs \in RuntimeState /\ agent.id \in 1 .. MaxStates
  BY <1>1 DEF AgentState
<1>3. agent.rs.ticket \in Tickets
  BY <1>2 DEF RuntimeState
<1> QED
  BY <1>1, <1>2, <1>3 DEF BeatInv, TypeOK, AgentInv, RowInv

\* A step that leaves an agent b in memory.
LEMMA AgentStep ==
    ASSUME phase' \in {"up", "undefined"}, RestOK', ~repeated',
           NEW b \in AgentState, agent' = b, states' = b.id,
           store' \in RuntimeState, store'.digest = last',
           Agrees(b, store', tasks', lost', last'),
           \A t \in tasks' : t.id <= b.id
    PROVE  BeatInv'
<1>1. b.id \in 1 .. MaxStates
  BY DEF AgentState
<1>2. b.id # 0 /\ b.id \in 0 .. MaxStates
  BY <1>1, Bounds
<1>3. TypeOK'
  BY <1>2 DEF TypeOK, RestOK
<1>4. AgentInv'
  BY DEF AgentInv, Agrees
<1>5. RowInv'
  BY <1>2 DEF RowInv, Present
<1> QED
  BY <1>3, <1>4, <1>5 DEF BeatInv

\* A step that leaves no agent in memory.
LEMMA NobodyStep ==
    ASSUME phase' \in {"up", "closed", "overflow", "undefined"}, RestOK', ~repeated', ~lost',
           agent' = NoAgent, states' \in 0 .. MaxStates,
           store' \in RuntimeState, store'.digest = last',
           \A t \in tasks' : t.id <= states',
           phase' \in {"closed", "overflow"} => states' = 0 /\ tasks' = {}
    PROVE  BeatInv'
<1>1. ~Present'
  BY DEF Present, NoAgent
<1>2. TypeOK'
  BY DEF TypeOK, RestOK
<1> QED
  BY <1>1, <1>2 DEF BeatInv, AgentInv, RowInv

\* A step that touches neither the agent nor its row.
LEMMA AsideStep ==
    ASSUME BeatInv, RestOK', phase = "up" \/ UNCHANGED <<phase, tasks, lost>>,
           phase' \in {phase, "undefined"},
           UNCHANGED <<agent, store, states, shown>>,
           tasks' \subseteq tasks,
           Present => Agrees(agent, store, tasks', lost', last),
           ~Present => ~lost'
    PROVE  BeatInv'
<1>1. TypeOK'
  BY DEF BeatInv, TypeOK, RestOK, shown
<1>2. AgentInv'
  BY DEF BeatInv, AgentInv, Present, shown, Agrees
<1>3. RowInv'
  BY DEF BeatInv, RowInv, Present, shown
<1> QED
  BY <1>1, <1>2, <1>3 DEF BeatInv

\* A step that saves an agent which differs in its ticket or due time, or in what is
\* not saved.
LEMMA SavedStep ==
    ASSUME BeatInv, RestOK', phase \in {"up", "undefined"}, UNCHANGED <<phase, tasks, lost, shown>>,
           NEW a, NEW b \in AgentState, NEW row \in RuntimeState,
           Agrees(a, store, tasks, lost, last),
           \A t \in tasks : t.id <= a.id,
           agent' = b, store' = row, states' = a.id,
           b.id = a.id, b.running = a.running, b.rs.unfinished = a.rs.unfinished,
           b.rs.digest = a.rs.digest, row.digest = a.rs.digest,
           row.ticket = b.rs.ticket, a.running => row.unfinished
    PROVE  BeatInv'
<1>1. Agrees(b, row, tasks, lost, last)
  BY DEF Agrees
<1>2. row.digest = last
  BY DEF Agrees
<1>3. ~repeated' /\ last' = last /\ tasks' = tasks /\ lost' = lost
  BY DEF BeatInv, RowInv, shown
<1>4. Agrees(b, store', tasks', lost', last') /\ \A t \in tasks' : t.id <= b.id
  BY <1>1, <1>3
<1> QED
  BY <1>2, <1>3, <1>4, AgentStep

LEMMA RequestInv ==
    ASSUME BeatInv, NEW t \in Tickets, Request(t)
    PROVE  BeatInv'
<1> DEFINE b == Requested(Ensured, t)
<1>1. MayEnsure /\ phase = "up"
  BY DEF Request, MayEnsure
<1>2. /\ Ensured \in AgentState
      /\ Agrees(Ensured, store, tasks, lost, last)
      /\ \A u \in tasks : u.id <= Ensured.id
  BY <1>1, EnsuredAgent
<1>3. /\ b \in AgentState /\ b.id = Ensured.id /\ b.running = Ensured.running
      /\ b.rs \in RuntimeState
      /\ b.rs.unfinished = Ensured.rs.unfinished /\ b.rs.digest = Ensured.rs.digest
  BY <1>2, RequestedAgent
<1>4. Ensured.running => b.rs.unfinished
  BY <1>2, <1>3 DEF Agrees
<1>5. agent' = b /\ store' = b.rs /\ states' = Ensured.id
  BY DEF Request, Save, Counted
<1>6. RestOK'
  BY RestTyped DEF Request, RestOK, health, shown
<1>7. UNCHANGED <<phase, tasks, lost, shown>>
  BY DEF Request
<1> HIDE DEF b
<1> QED
  BY <1>1, <1>2, <1>3, <1>4, <1>5, <1>6, <1>7, SavedStep

LEMMA StartAgentInv ==
    ASSUME BeatInv, StartAgent
    PROVE  BeatInv'
<1>1. MayEnsure /\ phase = "up"
  BY DEF StartAgent, MayEnsure
<1>2. /\ Ensured \in AgentState /\ Ensured.rs \in RuntimeState
      /\ Agrees(Ensured, store, tasks, lost, last)
      /\ \A u \in tasks : u.id <= Ensured.id
  BY <1>1, EnsuredAgent
<1>3. agent' = Ensured /\ store' \in {Ensured.rs, store} /\ states' = Ensured.id
  BY DEF StartAgent, Save, Counted
<1>4. RestOK' /\ store \in RuntimeState /\ store.digest = last
  BY RestTyped DEF StartAgent, RestOK, health, shown, BeatInv, TypeOK, RowInv
<1>5. UNCHANGED <<phase, tasks, lost, shown>>
  BY DEF StartAgent
<1>6. /\ store' \in RuntimeState /\ store'.digest = Ensured.rs.digest
      /\ store'.ticket = Ensured.rs.ticket
      /\ Ensured.running => store'.unfinished
  BY <1>2, <1>3, <1>4 DEF Agrees
<1> QED
  BY <1>1, <1>2, <1>3, <1>4, <1>5, <1>6, SavedStep

LEMMA SuppressInv ==
    ASSUME BeatInv, NEW on \in BOOLEAN, Suppress(on)
    PROVE  BeatInv'
<1> DEFINE b == [Ensured EXCEPT !.suppressed = on]
<1>1. MayEnsure /\ phase = "up"
  BY DEF Suppress, MayEnsure
<1>2. /\ Ensured \in AgentState /\ Ensured.rs \in RuntimeState
      /\ Agrees(Ensured, store, tasks, lost, last)
      /\ \A u \in tasks : u.id <= Ensured.id
  BY <1>1, EnsuredAgent
<1>3. /\ b \in AgentState /\ b.id = Ensured.id /\ b.running = Ensured.running
      /\ b.rs = Ensured.rs
  BY <1>2 DEF AgentState
<1>4. agent' = b /\ store' \in {Ensured.rs, store} /\ states' = Ensured.id
  BY DEF Suppress, Counted
<1>5. RestOK' /\ store \in RuntimeState /\ store.digest = last
  BY RestTyped DEF Suppress, RestOK, health, shown, BeatInv, TypeOK, RowInv
<1>6. UNCHANGED <<phase, tasks, lost, shown>>
  BY DEF Suppress
<1>7. /\ store' \in RuntimeState /\ store'.digest = Ensured.rs.digest
      /\ store'.ticket = b.rs.ticket
      /\ Ensured.running => store'.unfinished
  BY <1>2, <1>3, <1>4, <1>5 DEF Agrees
<1> HIDE DEF b
<1> QED
  BY <1>1, <1>2, <1>3, <1>4, <1>5, <1>6, <1>7, SavedStep

LEMMA EnableInv ==
    ASSUME BeatInv, NEW llm \in BOOLEAN, Enable(llm)
    PROVE  BeatInv'
<1> DEFINE row == Scheduled(Ensured.rs, TRUE)
<1> DEFINE b == [Ensured EXCEPT !.rs = row]
<1>1. MayEnsure /\ phase = "up"
  BY DEF Enable, MayEnsure
<1>2. /\ Ensured \in AgentState /\ Ensured.rs \in RuntimeState
      /\ Agrees(Ensured, store, tasks, lost, last)
      /\ \A u \in tasks : u.id <= Ensured.id
  BY <1>1, EnsuredAgent
<1>3. /\ row \in RuntimeState /\ row.ticket = Ensured.rs.ticket
      /\ row.unfinished = Ensured.rs.unfinished /\ row.digest = Ensured.rs.digest
  BY <1>2, ScheduledState
<1>4. agent' = b /\ store' = b.rs /\ states' = Ensured.id
  BY DEF Enable, Counted, Save
<1> HIDE DEF row
<1>5. b \in AgentState /\ b.id = Ensured.id /\ b.running = Ensured.running /\ b.rs = row
  BY <1>2, <1>3, WithState
<1>6. RestOK'
  BY RestTyped DEF Enable, RestOK, health, shown
<1>7. UNCHANGED <<phase, tasks, lost, shown>>
  BY DEF Enable
<1>8. Ensured.running => row.unfinished
  BY <1>2, <1>3 DEF Agrees
<1> HIDE DEF b
<1> QED
  BY <1>1, <1>2, <1>3, <1>4, <1>5, <1>6, <1>7, <1>8, SavedStep

LEMMA DisableInv ==
    ASSUME BeatInv, Disable
    PROVE  BeatInv'
<1>1. MayEnsure /\ phase = "up"
  BY DEF Disable, MayEnsure
<1>2. /\ Ensured.rs \in RuntimeState /\ Ensured.id \in 1 .. MaxStates
      /\ Agrees(Ensured, store, tasks, lost, last)
      /\ \A u \in tasks : u.id <= Ensured.id
  BY <1>1, EnsuredAgent
<1>3. /\ Scheduled(Ensured.rs, FALSE) \in RuntimeState
      /\ Scheduled(Ensured.rs, FALSE).digest = last
  BY <1>2, ScheduledState DEF Agrees
<1>4. RestOK' /\ ~repeated' /\ ~lost' /\ last' = last
  BY RestTyped DEF Disable, RestOK, health, shown, BeatInv, RowInv
<1>5. states' \in 0 .. MaxStates /\ \A t \in tasks' : t.id <= states'
  BY <1>2, Bounds DEF Disable, Counted
<1> QED
  BY <1>1, <1>3, <1>4, <1>5, NobodyStep DEF Disable

\* The end of a cycle: the agent waits for no task, and a summary that is posted is
\* not the one posted last.
LEMMA OverStep ==
    ASSUME BeatInv, Present, NEW a \in AgentState, NEW ticket \in Tickets, NEW told \in BOOLEAN,
           a.id = agent.id, a.rs.digest = last, ~lost,
           Complete(a, ticket, told),
           runtime' \in BOOLEAN, UNCHANGED <<phase, policy, states, lost, open, known, probing>>,
           tasks' \subseteq tasks, \A t \in tasks' : t.id # agent.id
    PROVE  BeatInv'
<1> DEFINE c == Completed(a, ticket)
<1>1. /\ agent.id = states /\ phase \in {"up", "undefined"} /\ ~repeated
      /\ \A t \in tasks' : t.id <= agent.id
      /\ RestOK
  BY PresentAgent, RestTyped DEF BeatInv, RowInv
<1>2. /\ c \in AgentState /\ c.id = a.id /\ ~c.running /\ c.rs \in RuntimeState
      /\ c.rs.ticket = a.rs.ticket /\ c.rs.digest = a.rs.digest
  BY <1>1, CompletedAgent DEF RestOK
<1>3. CASE told
  <2>1. PICK summary \in Summaries : Deliver(c, summary)
    BY <1>3 DEF Complete
  <2> DEFINE row == [c.rs EXCEPT !.digest = summary]
  <2>2. row \in RuntimeState /\ row.digest = summary /\ row.ticket = c.rs.ticket
    BY <1>2 DEF RuntimeState
  <2>3. [c EXCEPT !.rs.digest = summary] = [c EXCEPT !.rs = row]
    BY <1>2 DEF AgentState
  <2>4. agent' = [c EXCEPT !.rs.digest = summary] /\ store' = [c EXCEPT !.rs.digest = summary].rs
    BY <2>1 DEF Deliver, Save
  <2>5. last' = summary /\ ~repeated'
    BY <2>1, <1>1, <1>2 DEF Deliver, RestOK
  <2>6. repeated' \in BOOLEAN
    BY <2>1, <1>1 DEF Deliver, RestOK
  <2> HIDE DEF c, row
  <2> DEFINE b == [c EXCEPT !.rs = row]
  <2>7. b \in AgentState /\ b.id = c.id /\ b.running = c.running /\ b.rs = row
    BY <1>2, <2>2, WithState
  <2>8. agent' = b /\ store' = row
    BY <2>3, <2>4, <2>7
  <2> HIDE DEF b
  <2>9. RestOK'
    BY <1>1, <2>5, <2>6 DEF RestOK
  <2>10. Agrees(b, row, tasks', lost', last')
    BY <1>2, <2>2, <2>5, <2>7 DEF Agrees
  <2> QED
    BY <1>1, <1>2, <2>2, <2>5, <2>7, <2>8, <2>9, <2>10, AgentStep
<1>4. CASE ~told
  <2>1. agent' = c /\ store' = c.rs /\ last' = last /\ repeated' = repeated
    BY <1>4 DEF Complete, Save, shown
  <2> HIDE DEF c
  <2>2. RestOK' /\ ~repeated'
    BY <1>1, <2>1 DEF RestOK
  <2>3. Agrees(c, c.rs, tasks', lost', last')
    BY <1>2, <2>1 DEF Agrees
  <2> QED
    BY <1>1, <1>2, <2>1, <2>2, <2>3, AgentStep
<1> QED
  BY <1>3, <1>4

LEMMA TickDefersInv ==
    ASSUME BeatInv, TickDefers
    PROVE  BeatInv'
<1> DEFINE row == [agent.rs EXCEPT !.due = IF agent.suppressed \/ open THEN @ ELSE "future"]
<1> DEFINE b == [agent EXCEPT !.rs = row]
<1>1. Present /\ phase = "up"
  BY DEF TickDefers, MayTick
<1>2. /\ agent \in AgentState /\ agent.rs \in RuntimeState /\ agent.id = states
      /\ Agrees(agent, store, tasks, lost, last)
      /\ \A t \in tasks : t.id <= agent.id
  BY <1>1, PresentAgent
<1>3. /\ row \in RuntimeState /\ row.ticket = agent.rs.ticket
      /\ row.unfinished = agent.rs.unfinished /\ row.digest = agent.rs.digest
  BY <1>2 DEF RuntimeState, Dues
<1>4. [agent EXCEPT !.rs.due = IF agent.suppressed \/ open THEN @ ELSE "future"] = b
  BY <1>2 DEF AgentState
<1>5. agent' = b /\ store' = b.rs
  BY <1>4 DEF TickDefers, Save
<1> HIDE DEF row
<1>6. b \in AgentState /\ b.id = agent.id /\ b.running = agent.running /\ b.rs = row
  BY <1>2, <1>3, WithState
<1>7. RestOK'
  BY RestTyped DEF TickDefers, RestOK, health, shown
<1>8. UNCHANGED <<phase, tasks, lost, shown>> /\ states' = states
  BY DEF TickDefers
<1>9. agent.running => row.unfinished
  BY <1>2, <1>3 DEF Agrees
<1> HIDE DEF b
<1> QED
  BY <1>1, <1>2, <1>3, <1>5, <1>6, <1>7, <1>8, <1>9, SavedStep

LEMMA TickAsksInv ==
    ASSUME BeatInv, TickAsks
    PROVE  BeatInv'
<1>1. Present /\ phase = "up"
  BY DEF TickAsks, MayTick
<1>2. /\ agent \in AgentState /\ agent.rs \in RuntimeState /\ agent.id = states
      /\ Agrees(agent, store, tasks, lost, last)
      /\ \A t \in tasks : t.id <= agent.id
  BY <1>1, PresentAgent
<1>3. RestOK' /\ policy.enabled \in BOOLEAN
  BY RestTyped DEF TickAsks, RestOK, health, shown
<1>4. UNCHANGED <<phase, tasks, lost, shown>> /\ states' = states
  BY DEF TickAsks
<1>5. CASE agent.rs.due = "none"
  <2> DEFINE row == Scheduled(agent.rs, policy.enabled)
  <2> DEFINE b == [agent EXCEPT !.rs = row]
  <2>1. agent' = b /\ store' = b.rs
    BY <1>5 DEF TickAsks, Save
  <2>2. /\ row \in RuntimeState /\ row.ticket = agent.rs.ticket
        /\ row.unfinished = agent.rs.unfinished /\ row.digest = agent.rs.digest
    BY <1>2, <1>3, ScheduledState
  <2> HIDE DEF row
  <2>3. b \in AgentState /\ b.id = agent.id /\ b.running = agent.running /\ b.rs = row
    BY <1>2, <2>2, WithState
  <2>4. agent.running => row.unfinished
    BY <1>2, <2>2 DEF Agrees
  <2> HIDE DEF b
  <2> QED
    BY <1>1, <1>2, <1>3, <1>4, <2>1, <2>2, <2>3, <2>4, SavedStep
<1>6. CASE agent.rs.due # "none"
  <2> DEFINE b == Requested(agent, Automatic)
  <2>1. agent' = b /\ store' = b.rs
    BY <1>6 DEF TickAsks, Save
  <2>2. /\ b \in AgentState /\ b.id = agent.id /\ b.running = agent.running
        /\ b.rs \in RuntimeState
        /\ b.rs.unfinished = agent.rs.unfinished /\ b.rs.digest = agent.rs.digest
    BY <1>2, TicketTypes, RequestedAgent
  <2>3. agent.running => b.rs.unfinished
    BY <1>2, <2>2 DEF Agrees
  <2> HIDE DEF b
  <2> QED
    BY <1>1, <1>2, <1>3, <1>4, <2>1, <2>2, <2>3, SavedStep
<1> QED
  BY <1>5, <1>6

\* What is known of the agent and its task when a cycle may begin.
LEMMA MayBegin ==
    ASSUME BeatInv, MayTick
    PROVE  /\ Present /\ phase = "up" /\ agent.id = states
           /\ agent \in AgentState /\ agent.rs.ticket \in Tickets /\ agent.id \in 1 .. MaxStates
           /\ Begun \in AgentState /\ Begun.id = agent.id /\ Begun.running
           /\ Begun.rs \in RuntimeState /\ Begun.rs.ticket = NoTicket /\ Begun.rs.unfinished
           /\ Begun.rs.digest = last
           /\ ~lost /\ ~repeated /\ \A t \in tasks : t.id <= agent.id /\ t.id # agent.id
<1>1. Present /\ phase = "up" /\ ~agent.running
  BY DEF MayTick
<1>2. /\ agent \in AgentState /\ agent.rs.ticket \in Tickets /\ agent.id = states
      /\ Agrees(agent, store, tasks, lost, last)
      /\ agent.id \in 1 .. MaxStates
      /\ \A t \in tasks : t.id <= agent.id
  BY <1>1, PresentAgent
<1> QED
  BY <1>1, <1>2, BegunAgent DEF Agrees, BeatInv, RowInv

LEMMA CycleQuickInv ==
    ASSUME BeatInv, CycleQuick
    PROVE  BeatInv'
<1>1. MayTick
  BY DEF CycleQuick
<1>2. PICK told \in BOOLEAN : Complete(Begun, agent.rs.ticket, told)
  BY DEF CycleQuick
<1>3. runtime' \in BOOLEAN
  BY RestTyped DEF CycleQuick, RestOK
<1>4. UNCHANGED <<phase, policy, states, tasks, lost, open, known, probing>>
  BY DEF CycleQuick
<1>5. tasks' \subseteq tasks /\ \A t \in tasks' : t.id # agent.id
  BY <1>1, <1>4, MayBegin
<1> QED
  BY <1>1, <1>2, <1>3, <1>4, <1>5, MayBegin, OverStep

LEMMA CycleAsksInv ==
    ASSUME BeatInv, CycleAsks
    PROVE  BeatInv'
<1> DEFINE mine == [id |-> agent.id, ticket |-> agent.rs.ticket]
<1>1. MayTick /\ agent.rs.ticket # NoTicket
  BY DEF CycleAsks
<1>2. /\ agent' = Begun /\ store' = Begun.rs /\ tasks' = tasks \cup {mine}
      /\ UNCHANGED <<phase, policy, states, lost, open, known, probing, last, repeated>>
      /\ runtime' = TRUE
  BY DEF CycleAsks, Save, shown
<1>3. mine \in [id : 1 .. MaxStates, ticket : Tickets \ {NoTicket}]
  BY <1>1, MayBegin
<1>4. mine.id = agent.id
  OBVIOUS
<1> HIDE DEF mine
<1>5. RestOK'
  BY <1>2, <1>3, RestTyped DEF RestOK
<1>6. \A t \in tasks' : (t.id = agent.id => t = mine) /\ t.id <= agent.id
  BY <1>1, <1>2, <1>3, <1>4, MayBegin, Bounds
<1>7. Agrees(Begun, store', tasks', lost', last')
  BY <1>1, <1>2, <1>6, MayBegin DEF Agrees
<1> QED
  BY <1>1, <1>2, <1>5, <1>6, <1>7, MayBegin, AgentStep

LEMMA CycleDeafInv ==
    ASSUME BeatInv, CycleDeaf
    PROVE  BeatInv'
<1>1. MayTick
  BY DEF CycleDeaf
<1>2. /\ agent' = Begun /\ store' = Begun.rs
      /\ UNCHANGED <<phase, policy, states, tasks, open, known, probing, last, repeated>>
      /\ runtime' = TRUE /\ lost' = TRUE
  BY DEF CycleDeaf, Save, shown
<1>3. RestOK'
  BY <1>2, RestTyped DEF RestOK
<1>4. Agrees(Begun, store', tasks', lost', last')
  BY <1>1, <1>2, MayBegin DEF Agrees
<1> QED
  BY <1>1, <1>2, <1>3, <1>4, MayBegin, AgentStep

LEMMA TaskEndsInv ==
    ASSUME BeatInv, NEW t \in tasks, TaskEnds(t)
    PROVE  BeatInv'
<1>1. t \in [id : 1 .. MaxStates, ticket : Tickets \ {NoTicket}]
  BY DEF BeatInv, TypeOK
<1>2. agent.id = t.id /\ t.id # 0
  BY <1>1, Bounds DEF TaskEnds
<1>3. Present /\ t.ticket \in Tickets
  BY <1>1, <1>2 DEF Present
<1>4. agent \in AgentState /\ Agrees(agent, store, tasks, lost, last)
  BY <1>3, PresentAgent
<1>5. ~lost /\ \A u \in tasks \ {t} : u.id # agent.id
  BY <1>2, <1>4 DEF Agrees
<1>6. Complete(agent, t.ticket, TRUE)
  BY DEF TaskEnds, Complete
<1>7. /\ tasks' = tasks \ {t}
      /\ UNCHANGED <<phase, policy, states, lost, open, known, probing>>
      /\ runtime' \in BOOLEAN
  BY RestTyped DEF TaskEnds, health, RestOK
<1>8. agent.rs.digest = last
  BY <1>4 DEF Agrees
<1> QED
  BY <1>3, <1>4, <1>5, <1>6, <1>7, <1>8, OverStep

LEMMA TaskOfRemovedInv ==
    ASSUME BeatInv, NEW t \in tasks, TaskOfRemoved(t)
    PROVE  BeatInv'
<1>1. /\ phase = "up" /\ phase' = "undefined"
      /\ UNCHANGED <<agent, store, states, tasks, lost, shown>>
  BY DEF TaskOfRemoved
<1>2. RestOK'
  BY RestTyped DEF TaskOfRemoved, health, shown, RestOK
<1>3. Present => Agrees(agent, store, tasks', lost', last)
  BY <1>1, PresentAgent
<1>4. ~Present => ~lost'
  BY <1>1 DEF BeatInv, RowInv
<1> QED
  BY <1>1, <1>2, <1>3, <1>4, AsideStep

LEMMA TasksDroppedInv ==
    ASSUME BeatInv, NEW gone \in BOOLEAN, TasksDropped(gone)
    PROVE  BeatInv'
<1>1. /\ phase = "up" /\ phase' = phase /\ tasks' = {}
      /\ UNCHANGED <<agent, store, states, shown>>
      /\ lost' = (lost \/ \E t \in tasks : t.id = agent.id)
  BY DEF TasksDropped
<1>2. RestOK'
  BY RestTyped DEF TasksDropped, shown, RestOK
<1>3. Present => Agrees(agent, store, tasks', lost', last)
  BY <1>1, PresentAgent DEF Agrees
<1>4. ~Present => ~lost'
  <2>1. \A t \in tasks : t.id # 0
    BY Bounds DEF BeatInv, TypeOK
  <2> QED
    BY <1>1, <2>1 DEF BeatInv, RowInv, Present
<1> QED
  BY <1>1, <1>2, <1>3, <1>4, AsideStep

\* The steps of the monitor and of the environment that touch no agent.
LEMMA AsideInv ==
    ASSUME BeatInv, CheckTick \/ HoursChange \/ RuntimeMade
    PROVE  BeatInv'
<1>1. UNCHANGED <<phase, agent, store, states, tasks, lost, shown>>
  BY DEF CheckTick, HoursChange, RuntimeMade
<1>2. RestOK'
  BY RestTyped DEF CheckTick, HoursChange, RuntimeMade, health, shown, RestOK
<1>3. (Present => Agrees(agent, store, tasks', lost', last)) /\ (~Present => ~lost')
  BY <1>1, PresentAgent DEF BeatInv, RowInv
<1> QED
  BY <1>1, <1>2, <1>3, AsideStep

LEMMA ProbeEndsInv ==
    ASSUME BeatInv, NEW ok \in BOOLEAN, ProbeEnds(ok)
    PROVE  BeatInv'
<1>1. UNCHANGED <<phase, states, tasks, lost, shown>> /\ phase = "up"
  BY DEF ProbeEnds
<1>2. RestOK'
  BY RestTyped DEF ProbeEnds, shown, RestOK
<1>3. CASE known = "down" /\ ok /\ Present
  <2> DEFINE b == Requested(agent, Recovered)
  <2>1. agent' = b /\ store' = b.rs
    BY <1>3 DEF ProbeEnds, Save
  <2>2. /\ agent \in AgentState /\ agent.id = states
        /\ Agrees(agent, store, tasks, lost, last)
        /\ \A t \in tasks : t.id <= agent.id
    BY <1>3, PresentAgent
  <2>3. /\ b \in AgentState /\ b.id = agent.id /\ b.running = agent.running
        /\ b.rs \in RuntimeState
        /\ b.rs.unfinished = agent.rs.unfinished /\ b.rs.digest = agent.rs.digest
    BY <2>2, TicketTypes, RequestedAgent
  <2>4. agent.running => b.rs.unfinished
    BY <2>2, <2>3 DEF Agrees
  <2> HIDE DEF b
  <2> QED
    BY <1>1, <1>2, <2>1, <2>2, <2>3, <2>4, SavedStep
<1>4. CASE ~(known = "down" /\ ok /\ Present)
  <2>1. UNCHANGED <<agent, store>>
    BY <1>4 DEF ProbeEnds
  <2>2. (Present => Agrees(agent, store, tasks', lost', last)) /\ (~Present => ~lost')
    BY <1>1, PresentAgent DEF BeatInv, RowInv
  <2> QED
    BY <1>1, <1>2, <2>1, <2>2, AsideStep
<1> QED
  BY <1>3, <1>4

LEMMA GraceEndsInv ==
    ASSUME BeatInv, GraceEnds
    PROVE  BeatInv'
<1> DEFINE b == [agent EXCEPT !.ready = TRUE]
<1>1. Present /\ phase = "up" /\ agent' = b
      /\ UNCHANGED <<phase, store, states, tasks, lost, shown>>
  BY DEF GraceEnds
<1>2. /\ agent \in AgentState /\ agent.id = states
      /\ Agrees(agent, store, tasks, lost, last)
      /\ \A t \in tasks : t.id <= agent.id
  BY <1>1, PresentAgent
<1>3. b \in AgentState /\ b.id = agent.id /\ b.running = agent.running /\ b.rs = agent.rs
  BY <1>2 DEF AgentState
<1>4. RestOK'
  BY RestTyped DEF GraceEnds, health, shown, RestOK
<1>5. store \in RuntimeState
  BY DEF BeatInv, TypeOK
<1>6. /\ store.digest = agent.rs.digest /\ store.ticket = agent.rs.ticket
      /\ agent.running => store.unfinished
  BY <1>2 DEF Agrees, BeatInv, RowInv
<1> HIDE DEF b
<1> QED
  BY <1>1, <1>2, <1>3, <1>4, <1>5, <1>6, SavedStep

LEMMA DueComesInv ==
    ASSUME BeatInv, DueComes
    PROVE  BeatInv'
<1>1. UNCHANGED <<phase, states, tasks, lost, shown>> /\ store' = Late(store)
  BY DEF DueComes
<1>2. RestOK'
  BY RestTyped DEF DueComes, health, shown, RestOK
<1>3. store \in RuntimeState /\ store.digest = last /\ ~repeated /\ states \in 0 .. MaxStates
  BY DEF BeatInv, TypeOK, RowInv
<1>4. /\ Late(store) \in RuntimeState /\ Late(store).ticket = store.ticket
      /\ Late(store).unfinished = store.unfinished /\ Late(store).digest = store.digest
  BY <1>3, LateState
<1>5. CASE Present
  <2> DEFINE row == Late(agent.rs)
  <2> DEFINE b == [agent EXCEPT !.rs = row]
  <2>1. agent' = b
    BY <1>5 DEF DueComes
  <2>2. /\ agent \in AgentState /\ agent.rs \in RuntimeState /\ agent.id = states
        /\ Agrees(agent, store, tasks, lost, last)
        /\ \A t \in tasks : t.id <= agent.id
        /\ phase \in {"up", "undefined"}
    BY <1>5, PresentAgent
  <2>3. /\ row \in RuntimeState /\ row.ticket = agent.rs.ticket
        /\ row.unfinished = agent.rs.unfinished /\ row.digest = agent.rs.digest
    BY <2>2, LateState
  <2> HIDE DEF row
  <2>4. b \in AgentState /\ b.id = agent.id /\ b.running = agent.running /\ b.rs = row
    BY <2>2, <2>3, WithState
  <2>5. /\ Late(store).digest = agent.rs.digest /\ Late(store).ticket = b.rs.ticket
        /\ agent.running => Late(store).unfinished
    BY <1>3, <1>4, <2>2, <2>3, <2>4 DEF Agrees
  <2> HIDE DEF b
  <2> QED
    BY <1>1, <1>2, <1>4, <2>1, <2>2, <2>3, <2>4, <2>5, SavedStep
<1>6. CASE ~Present
  <2>1. agent = NoAgent /\ agent' = NoAgent
    BY <1>6, Bounds DEF DueComes, BeatInv, TypeOK, AgentState, Present
  <2>2. phase' \in {"up", "closed", "overflow", "undefined"} /\ ~lost'
    BY <1>1, <1>6 DEF BeatInv, TypeOK, RowInv
  <2>3. /\ \A t \in tasks' : t.id <= states'
        /\ phase' \in {"closed", "overflow"} => states' = 0 /\ tasks' = {}
    BY <1>1 DEF BeatInv, RowInv
  <2>4. ~repeated' /\ last' = last
    BY <1>1, <1>3 DEF shown
  <2> QED
    BY <1>1, <1>2, <1>3, <1>4, <2>1, <2>2, <2>3, <2>4, NobodyStep
<1> QED
  BY <1>5, <1>6

LEMMA StartInv ==
    ASSUME BeatInv, Start
    PROVE  BeatInv'
<1>1. /\ phase \in {"closed", "overflow"} /\ ~Present /\ states = 0 /\ tasks = {} /\ ~lost
      /\ agent = NoAgent /\ store \in RuntimeState /\ store.digest = last /\ ~repeated
  BY Bounds DEF Start, BeatInv, TypeOK, RowInv, AgentState, Present
<1>2. RestOK'
  BY RestTyped DEF Start, RestOK
<1>3. UNCHANGED <<tasks, lost, last, repeated>>
  BY DEF Start
<1>4. CASE Overflows
  <2>1. phase' = "overflow" /\ UNCHANGED <<agent, store, states>>
    BY <1>4 DEF Start
  <2> QED
    BY <1>1, <1>2, <1>3, <2>1, Bounds, NobodyStep
<1>5. CASE ~Overflows
  <2>1. /\ phase' = "up" /\ states' = 1 /\ agent' = NewState
        /\ store' \in {NewState.rs, store}
    BY <1>5 DEF Start, Save
  <2>2. /\ NewState \in AgentState /\ NewState.rs \in RuntimeState /\ NewState.id = 1
        /\ Agrees(NewState, store, tasks, lost, last)
        /\ \A t \in tasks : t.id <= NewState.id
    <3>1. states < MaxStates
      BY <1>1, Bounds
    <3> QED
      BY <1>1, <3>1, NewAgent
  <2>3. Agrees(NewState, store', tasks', lost', last') /\ store'.digest = last'
    BY <1>1, <1>3, <2>1, <2>2 DEF Agrees
  <2> QED
    BY <1>1, <1>2, <1>3, <2>1, <2>2, <2>3, AgentStep
<1> QED
  BY <1>4, <1>5

LEMMA StopInv ==
    ASSUME BeatInv, Stop \/ Overflow
    PROVE  BeatInv'
<1>1. /\ phase' \in {"closed", "overflow"} /\ agent' = NoAgent /\ states' = 0 /\ tasks' = {}
      /\ lost' = FALSE /\ known' = "unknown" /\ probing' = FALSE /\ runtime' = FALSE
      /\ UNCHANGED <<policy, store, open, last, repeated>>
  BY DEF Stop, Overflow
<1>2. RestOK'
  BY <1>1, RestTyped DEF RestOK
<1>3. store \in RuntimeState /\ store.digest = last /\ ~repeated
  BY DEF BeatInv, TypeOK, RowInv
<1> QED
  BY <1>1, <1>2, <1>3, Bounds, NobodyStep

-----------------------------------------------------------------------------
(* The theorems.                                                           *)

LEMMA InitInv == Init => BeatInv
<1> SUFFICES ASSUME Init PROVE BeatInv
  OBVIOUS
<1>1. ~Present /\ states = 0 /\ tasks = {} /\ 0 \in 0 .. MaxStates
  BY Bounds DEF Init, Present, NoAgent
<1>2. store = FreshState /\ FreshState.digest = NoSummary
  BY DEF Init, FreshState
<1>3. TypeOK
  BY <1>1, FreshType DEF Init, TypeOK
<1> QED
  BY <1>1, <1>2, <1>3 DEF Init, BeatInv, AgentInv, RowInv

LEMMA NextInv == BeatInv /\ [Next]_vars => BeatInv'
<1> SUFFICES ASSUME BeatInv, [Next]_vars PROVE BeatInv'
  OBVIOUS
<1> USE TicketTypes
<1>1. CASE Start
  BY <1>1, StartInv
<1>2. CASE Stop \/ Overflow
  BY <1>2, StopInv
<1>3. CASE Request(Manual) \/ \E success \in BOOLEAN : Request(JobSettled(success))
  BY <1>3, RequestInv
<1>4. CASE StartAgent
  BY <1>4, StartAgentInv
<1>5. CASE \E on \in BOOLEAN : Suppress(on)
  BY <1>5, SuppressInv
<1>6. CASE \E llm \in BOOLEAN : Enable(llm)
  BY <1>6, EnableInv
<1>7. CASE Disable
  BY <1>7, DisableInv
<1>8. CASE Tick
  BY <1>8, TickDefersInv, TickAsksInv, CycleQuickInv, CycleAsksInv, CycleDeafInv
  DEF Tick, CycleBegins
<1>9. CASE \E t \in tasks : TaskEnds(t) \/ TaskOfRemoved(t)
  BY <1>9, TaskEndsInv, TaskOfRemovedInv
<1>10. CASE \E gone \in BOOLEAN : TasksDropped(gone)
  BY <1>10, TasksDroppedInv
<1>11. CASE CheckTick \/ HoursChange \/ RuntimeMade
  BY <1>11, AsideInv
<1>12. CASE \E ok \in BOOLEAN : ProbeEnds(ok)
  BY <1>12, ProbeEndsInv
<1>13. CASE GraceEnds
  BY <1>13, GraceEndsInv
<1>14. CASE DueComes
  BY <1>14, DueComesInv
<1>15. CASE UNCHANGED vars
  BY <1>15 DEF vars, BeatInv, TypeOK, AgentInv, RowInv, Present, Agrees
<1> QED
  BY <1>1, <1>2, <1>3, <1>4, <1>5, <1>6, <1>7, <1>8, <1>9, <1>10, <1>11, <1>12, <1>13, <1>14,
     <1>15 DEF Next

\* The inductive invariant holds in every state, with any summaries and any number of
\* AgentState objects.
THEOREM Beat == Spec => []BeatInv
<1> QED
  BY InitInv, NextInv, PTL DEF Spec

\* The lane holds one task at most: two tasks with the id of the agent would be equal.
LEMMA LaneSound == BeatInv => LaneSerial
<1> SUFFICES ASSUME BeatInv PROVE LaneSerial
  OBVIOUS
<1> DEFINE mine == {t \in tasks : t.id = agent.id}
<1>1. CASE mine = {}
  BY <1>1, FS_EmptySet DEF LaneSerial
<1>2. CASE mine # {}
  <2>1. PICK t \in tasks : t.id = agent.id
    BY <1>2
  <2>2. Present
    BY <2>1, Bounds DEF BeatInv, TypeOK, Present
  <2>3. /\ \A u \in tasks : u.id = agent.id => u = t
        /\ agent.running /\ ~lost
    BY <2>1, <2>2, PresentAgent DEF Agrees
  <2>4. mine = {t}
    BY <2>1, <2>3
  <2>5. Cardinality(mine) = 1
    BY <2>4, FS_Singleton
  <2> QED
    BY <2>3, <2>5 DEF LaneSerial
<1> QED
  BY <1>1, <1>2

\* The cycles of an agent are sound (beginCycle, the handlers of the background task and
\* handleCycleCompleted): one background task at a time, which belongs to the cycle that
\* runs, and a row that tells of the waiting ticket and of an unfinished cycle, however
\* the process is killed, the agent removed and made again, or its tasks dropped.
THEOREM Cycles == Spec => []CyclesSound
<1>1. BeatInv => CyclesSound
  BY LaneSound DEF BeatInv, AgentInv, Agrees, CyclesSound, RowTellsAll
<1> QED
  BY <1>1, Beat, PTL

\* handleCycleCompleted never posts the summary it posted last: the digest in memory and
\* the one in the row are both that of the last summary, over restarts too.
THEOREM NothingTwice == Spec => []NoRepeat
<1>1. BeatInv => NoRepeat
  BY DEF BeatInv, RowInv, NoRepeat
<1> QED
  BY <1>1, Beat, PTL

\* Every step keeps the ticket that waits in the row, or one at least as urgent, unless
\* it begins the cycle the ticket asks for.
LEMMA TicketStep ==
    ASSUME BeatInv, [Next]_vars, ~CycleBegins
    PROVE  store'.ticket.priority >= store.ticket.priority
<1>1. /\ store \in RuntimeState /\ store.ticket \in Tickets /\ policy.enabled \in BOOLEAN
      /\ store.ticket.priority \in 0 .. 3
  BY TicketTypes DEF BeatInv, TypeOK, RuntimeState
<1>2. store.ticket.priority >= store.ticket.priority
  BY <1>1
<1>3. ASSUME Present
      PROVE  /\ agent \in AgentState /\ agent.rs \in RuntimeState
             /\ agent.rs.ticket = store.ticket
  BY <1>3, PresentAgent DEF Agrees
<1>4. ASSUME MayEnsure
      PROVE  /\ Ensured \in AgentState /\ Ensured.rs \in RuntimeState
             /\ Ensured.rs.ticket = store.ticket
  BY <1>4, EnsuredAgent DEF Agrees
<1>5. ASSUME NEW a \in AgentState, a.rs.ticket = store.ticket, NEW t \in Tickets
      PROVE  Requested(a, t).rs.ticket.priority >= store.ticket.priority
  <2>1. Requested(a, t).rs.ticket = Merge(a.rs.ticket, t)
    BY RequestedAgent
  <2>2. Merge(store.ticket, t).priority >= store.ticket.priority
    BY <1>1, MergeKeeps
  <2> QED
    BY <1>5, <2>1, <2>2
<1>6. CASE Start
  <2>1. CASE store' = store
    BY <1>2, <2>1
  <2>2. CASE store' # store
    <3>1. store' = NewState.rs
      BY <1>6, <2>2 DEF Start, Save
    <3>2. NewState.rs.ticket = store.ticket
      BY <1>1, ScheduledState DEF NewState, Restored
    <3> QED
      BY <1>2, <3>1, <3>2
  <2> QED
    BY <2>1, <2>2
<1>7. CASE \E t \in Tickets : Request(t)
  <2>1. PICK t \in Tickets : Request(t)
    BY <1>7
  <2>2. MayEnsure /\ store' = Requested(Ensured, t).rs
    BY <2>1 DEF Request, Save
  <2> QED
    BY <1>4, <1>5, <2>2
<1>8. CASE StartAgent
  <2>1. MayEnsure /\ store' \in {Ensured.rs, store}
    BY <1>8 DEF StartAgent, Save
  <2> QED
    BY <1>2, <1>4, <2>1
<1>9. CASE \E on \in BOOLEAN : Suppress(on)
  <2>1. MayEnsure /\ store' \in {Ensured.rs, store}
    BY <1>9 DEF Suppress
  <2> QED
    BY <1>2, <1>4, <2>1
<1>10. CASE \E llm \in BOOLEAN : Enable(llm)
  <2>1. MayEnsure /\ store' = [Ensured EXCEPT !.rs = Scheduled(@, TRUE)].rs
    BY <1>10 DEF Enable, Save
  <2>2. store' = Scheduled(Ensured.rs, TRUE)
    BY <1>4, <2>1 DEF AgentState
  <2> QED
    BY <1>2, <1>4, <2>1, <2>2, ScheduledState
<1>11. CASE Disable
  <2>1. MayEnsure /\ store' = Scheduled(Ensured.rs, FALSE)
    BY <1>11 DEF Disable
  <2> QED
    BY <1>2, <1>4, <2>1, ScheduledState
<1>12. CASE TickDefers
  <2>1. Present /\ store' = [agent EXCEPT !.rs.due = IF agent.suppressed \/ open THEN @ ELSE "future"].rs
    BY <1>12 DEF TickDefers, MayTick, Save
  <2>2. store'.ticket = agent.rs.ticket
    BY <1>3, <2>1 DEF AgentState, RuntimeState
  <2> QED
    BY <1>2, <1>3, <2>1, <2>2
<1>13. CASE TickAsks
  <2>1. Present /\ \/ store' = [agent EXCEPT !.rs = Scheduled(@, policy.enabled)].rs
                   \/ store' = Requested(agent, Automatic).rs
    BY <1>13 DEF TickAsks, MayTick, Save
  <2>2. CASE store' = [agent EXCEPT !.rs = Scheduled(@, policy.enabled)].rs
    <3>1. store' = Scheduled(agent.rs, policy.enabled)
      BY <1>3, <2>1, <2>2 DEF AgentState
    <3> QED
      BY <1>1, <1>2, <1>3, <2>1, <3>1, ScheduledState
  <2>3. CASE store' = Requested(agent, Automatic).rs
    BY <1>3, <1>5, <2>1, <2>3, TicketTypes
  <2> QED
    BY <2>1, <2>2, <2>3
<1>14. CASE \E t \in tasks : TaskEnds(t)
  <2>1. PICK t \in tasks : TaskEnds(t)
    BY <1>14
  <2> DEFINE c == Completed(agent, t.ticket)
  <2>2. t.id # 0 /\ t.ticket \in Tickets
    BY Bounds DEF BeatInv, TypeOK
  <2>3. Present
    BY <2>1, <2>2 DEF TaskEnds, Present
  <2>4. c \in AgentState /\ c.rs \in RuntimeState /\ c.rs.ticket = store.ticket
    BY <1>1, <1>3, <2>2, <2>3, CompletedAgent
  <2>5. PICK summary \in Summaries : store' = [c EXCEPT !.rs.digest = summary].rs
    BY <2>1 DEF TaskEnds, Deliver, Save
  <2> HIDE DEF c
  <2>6. store'.ticket = c.rs.ticket
    BY <2>4, <2>5 DEF AgentState, RuntimeState
  <2> QED
    BY <1>2, <2>4, <2>6
<1>15. CASE \E ok \in BOOLEAN : ProbeEnds(ok)
  <2>1. store' = store \/ (Present /\ store' = Requested(agent, Recovered).rs)
    <3>1. PICK ok \in BOOLEAN : ProbeEnds(ok)
      BY <1>15
    <3>2. CASE known = "down" /\ ok /\ Present
      BY <3>1, <3>2 DEF ProbeEnds, Save
    <3>3. CASE ~(known = "down" /\ ok /\ Present)
      <4>1. UNCHANGED <<agent, store>>
        BY <3>1, <3>3 DEF ProbeEnds
      <4> QED
        BY <4>1
    <3> QED
      BY <3>2, <3>3
  <2> QED
    BY <1>2, <1>3, <1>5, <2>1, TicketTypes
<1>16. CASE DueComes
  BY <1>1, <1>2, <1>16, LateState DEF DueComes
<1>17. CASE UNCHANGED store
  BY <1>2, <1>17
<1> QED
  BY <1>6, <1>7, <1>8, <1>9, <1>10, <1>11, <1>12, <1>13, <1>14, <1>15, <1>16, <1>17, TicketTypes
  DEF Next, Tick, Stop, Overflow, TaskOfRemoved, TasksDropped, CheckTick, GraceEnds,
      HoursChange, RuntimeMade, vars

\* requestTicket, updatePolicy, the ticks and the restarts never give up a ticket that
\* waits: what is in the row only gets more urgent, until beginCycle takes it.
THEOREM TicketsWait == Spec => TicketKept
<1>1. BeatInv /\ [Next]_vars
      => [store.ticket # NoTicket =>
             \/ store'.ticket.priority >= store.ticket.priority
             \/ CycleBegins]_vars
  BY TicketStep
<1> QED
  BY <1>1, Beat, PTL DEF Spec, TicketKept
=============================================================================
