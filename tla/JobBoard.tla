------------------------------ MODULE JobBoard ------------------------------
(***************************************************************************)
(* What the delegate scheduler promises to the agents that delegate and to *)
(* the memory service that hears of the outcome: a job is refused at once  *)
(* or holds one of Slots slots until it is settled; it is settled exactly  *)
(* once, with one outcome that never changes and of which the owner is     *)
(* told exactly once; and it is settled eventually.                        *)
(***************************************************************************)
EXTENDS Naturals, FiniteSets

CONSTANTS Jobs, Slots

VARIABLES state,  \* per job: unknown, refused, active or an outcome
          told    \* per job: how often the owner was told

vars == <<state, told>>

Outcomes == {"completed", "failed", "cancelled"}
Active   == {j \in Jobs : state[j] = "active"}

Init == /\ state = [j \in Jobs |-> "unknown"]
        /\ told  = [j \in Jobs |-> 0]

Refuse(j) == /\ state[j] = "unknown"
             /\ state' = [state EXCEPT ![j] = "refused"]
             /\ UNCHANGED told

\* The job gets a slot.
Accept(j) == /\ state[j] = "unknown" /\ Cardinality(Active) < Slots
             /\ state' = [state EXCEPT ![j] = "active"]
             /\ UNCHANGED told

\* The job gets a slot and fails before the caller has its answer.
AcceptFailed(j) == /\ state[j] = "unknown" /\ Cardinality(Active) < Slots
                   /\ state' = [state EXCEPT ![j] = "failed"]
                   /\ told'  = [told EXCEPT ![j] = 1]

Settle(j) == /\ state[j] = "active"
             /\ \E o \in Outcomes : state' = [state EXCEPT ![j] = o]
             /\ told' = [told EXCEPT ![j] = 1]

Next == \E j \in Jobs : Refuse(j) \/ Accept(j) \/ AcceptFailed(j) \/ Settle(j)

Spec == Init /\ [][Next]_vars /\ \A j \in Jobs : WF_vars(Settle(j))
=============================================================================
