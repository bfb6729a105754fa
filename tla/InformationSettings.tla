------------------------- MODULE InformationSettings -------------------------
(***************************************************************************)
(* The settings dialog (InformationSettingsDialog) and the files behind it: *)
(* memory_policy.json, user.md, the heartbeat policy of each agent, and the *)
(* jobs of the scheduler, which the agents' own tool changes meanwhile: the  *)
(* dialog runs a nested event loop and the program works on under it.        *)
(*                                                                         *)
(* The policies of the heartbeats live twice, in their file and in the       *)
(* HeartbeatService.  memory_policy.json and user.md may also be edited by   *)
(* hand, as the note in the former invites to.  A setting is one of Values;  *)
(* when a job fires is in ReminderScheduler, what a heartbeat does in        *)
(* Heartbeat.                                                              *)
(***************************************************************************)
EXTENDS Naturals, Sequences

CONSTANTS
    Agents,   \* identities of agents
    Jobs,     \* job ids
    Values,   \* values of a setting
    MaxEdits  \* bound: edits of the form, of the files and by the tool, together

VARIABLES
    policy,   \* memory_policy.json
    user,     \* user.md
    beats,    \* agent -> heartbeat_policy.json
    lanes,    \* agent -> policy of its AgentState in m_agents, or NoLane
    profiles, \* agent -> AgentProfile: delegation, and the model of its configuration
    jobs,     \* m_jobs: job -> Job or NoJob
    form,     \* what the dialog shows, or Closed
    edits,    \* edits so far
    byHand,   \* the keys the dialog does not show, as they were written by hand last
    unsaved   \* agents whose heartbeat policy could not be written last time

vars == <<policy, user, beats, lanes, profiles, jobs, form, edits, byHand, unsaved>>

-----------------------------------------------------------------------------
Unset  == "none"
NoLane == [on |-> FALSE, watch |-> "no lane", act |-> "no lane"]
NoJob  == [agent |-> Unset, prompt |-> Unset]

\* A heartbeat policy: whether it is enabled, what it watches, what it acts on.
Beat == [on : BOOLEAN, watch : Values \cup {Unset}, act : Values \cup {Unset}]

\* A ScheduledJob, as far as the form and the tool show it.
Job == [agent : Agents, prompt : Values]
Closed == [who |-> Unset]

\* The keys of memory_policy.json that the dialog does not show, such as the note.
\* A file that is no JSON reads as {}.
Rest == Values \cup {Unset, "broken"}

Read(file) == IF file.rest = "broken"
              THEN [steward |-> Unset, rules |-> Unset, rest |-> Unset] ELSE file

\* parseUserProfileFields: a field ends with its line.
FirstLine(text) == IF text = <<>> THEN <<>> ELSE <<Head(text)>>

\* buildUserProfileMarkdown: two more fields repeat one shown; nothing else is kept.
UserMarkdown(goals) == [goals |-> goals, longTerm |-> goals, other |-> FALSE]

Texts == {<<>>} \cup { <<a>> : a \in Values } \cup { <<a, b>> : a, b \in Values }

\* The model shown beside the steward.
ModelOf(a) == IF a \in Agents THEN profiles[a].model ELSE Unset

\* What the dialog shows when it opens for the user; the first agent is selected.
Shown(a) ==
    [who |-> "user", steward |-> Read(policy).steward, rules |-> Read(policy).rules,
     model |-> ModelOf(Read(policy).steward), goals |-> FirstLine(user.goals), agent |-> a, beat |-> beats[a].on,
     watch |-> beats[a].watch, job |-> Unset, jobAgent |-> a, prompt |-> Unset]

\* loadSchedulerJobToForm: the agent of the job, or the first if it is gone.
WithJob(f, j, a) ==
    [f EXCEPT !.job = j, !.jobAgent = IF jobs[j].agent \in Agents THEN jobs[j].agent ELSE a,
              !.prompt = jobs[j].prompt]

Edited == edits < MaxEdits /\ edits' = edits + 1

\* updatePolicy, then startAgentHeartbeat or stopAgentHeartbeat.  The result of
\* savePolicy is dropped.
Applied(a, on, watch) ==
    LET p == [on |-> on, watch |-> watch, act |-> watch] IN
    \E written \in BOOLEAN :
        /\ beats' = IF written THEN [beats EXCEPT ![a] = p] ELSE beats
        /\ unsaved' = IF written THEN unsaved \ {a} ELSE unsaved \cup {a}
        /\ lanes' = [lanes EXCEPT ![a] = IF on THEN p ELSE NoLane]

\* Mutant of Policy: a new file with what is shown.
PolicyShown(f) == [steward |-> f.steward, rules |-> f.rules, rest |-> Unset]

\* saveMemorySettingsUi: what is shown goes into the file as it is now.
Policy(f) == [Read(policy) EXCEPT !.steward = f.steward, !.rules = f.rules]

-----------------------------------------------------------------------------
Init ==
    /\ policy = [steward |-> Unset, rules |-> Unset, rest |-> Unset]
    /\ user = UserMarkdown(<<>>)
    /\ beats \in [Agents -> {b \in Beat : b.watch = Unset /\ b.act = Unset}]
    /\ lanes = beats
    /\ profiles = [a \in Agents |-> [delegate |-> FALSE, model |-> Unset]]
    /\ jobs = [j \in Jobs |-> NoJob]
    /\ form = Closed
    /\ edits = 0
    /\ byHand = Unset
    /\ unsaved = {}

\* The dialog opens for the user, who manages everything ...
Open(a) ==
    /\ form = Closed
    /\ form' = Shown(a)
    /\ UNCHANGED <<policy, user, beats, lanes, profiles, jobs, edits, byHand, unsaved>>

\* ... or for an agent: only its tools are enabled.
OpenForAgent(a) ==
    /\ form = Closed
    /\ form' = [who |-> a]
    /\ UNCHANGED <<policy, user, beats, lanes, profiles, jobs, edits, byHand, unsaved>>

ByUser == form.who = "user"

\* A widget is changed.
Edit ==
    /\ ByUser
    /\ Edited
    /\ \/ \E v \in Values : form' = [form EXCEPT !.rules = v]
       \/ \E a \in Agents \cup {Unset} : form' = [form EXCEPT !.steward = a, !.model = ModelOf(a)]
       \/ \E v \in Values : form' = [form EXCEPT !.model = v]
       \/ \E t \in Texts : form' = [form EXCEPT !.goals = t]
       \/ \E on \in BOOLEAN, v \in Values : form' = [form EXCEPT !.beat = on, !.watch = v]
       \/ \E a \in Agents, v \in Values : form' = [form EXCEPT !.jobAgent = a, !.prompt = v]
    /\ UNCHANGED <<policy, user, beats, lanes, profiles, jobs, byHand, unsaved>>

\* loadHeartbeatUiForSelected, from the lane if there is one: what was edited for
\* the other agent is gone.
SelectAgent(a) ==
    /\ ByUser
    /\ LET p == IF lanes[a] # NoLane THEN lanes[a] ELSE beats[a] IN
       form' = [form EXCEPT !.agent = a, !.beat = p.on, !.watch = p.watch]
    /\ UNCHANGED <<policy, user, beats, lanes, profiles, jobs, edits, byHand, unsaved>>

SelectJob(j) ==
    /\ ByUser
    /\ jobs[j] # NoJob
    /\ form' = WithJob(form, j, CHOOSE a \in Agents : TRUE)
    /\ UNCHANGED <<policy, user, beats, lanes, profiles, jobs, edits, byHand, unsaved>>

\* "Apply": the instruction file is written first, and if that fails nothing is.
ApplyHeartbeat ==
    /\ ByUser
    /\ Applied(form.agent, form.beat, form.watch)
    /\ UNCHANGED <<policy, user, profiles, jobs, form, edits, byHand>>

\* The job of the form is added, or replaces the job whatever it is by now.
SaveJob(j) ==
    /\ ByUser
    /\ Edited
    /\ form.prompt # Unset
    /\ IF form.job = Unset THEN jobs[j] = NoJob ELSE form.job = j /\ jobs[j] # NoJob
    /\ jobs' = [jobs EXCEPT ![j] = [agent |-> form.jobAgent, prompt |-> form.prompt]]
    /\ form' = [form EXCEPT !.job = j]
    /\ UNCHANGED <<policy, user, beats, lanes, profiles, byHand, unsaved>>

DeleteJob(a) ==
    /\ ByUser
    /\ form.job # Unset
    /\ jobs[form.job] # NoJob
    /\ jobs' = [jobs EXCEPT ![form.job] = NoJob]
    /\ form' = [form EXCEPT !.job = Unset, !.jobAgent = a, !.prompt = Unset]
    /\ UNCHANGED <<policy, user, beats, lanes, profiles, edits, byHand, unsaved>>

\* The checks of scheduler_update, scheduler_delete and scheduler_run.
MayChange(a, j) == jobs[j] # NoJob /\ jobs[j].agent = a

ToolCreates(a, j) ==
    /\ Edited
    /\ jobs[j] = NoJob
    /\ \E v \in Values : jobs' = [jobs EXCEPT ![j] = [agent |-> a, prompt |-> v]]
    /\ UNCHANGED <<policy, user, beats, lanes, profiles, form, byHand, unsaved>>

\* executeUpdate keeps what the call does not name.
ToolUpdates(a, j) ==
    /\ Edited
    /\ MayChange(a, j)
    /\ \E v \in Values : jobs' = [jobs EXCEPT ![j].prompt = v]
    /\ UNCHANGED <<policy, user, beats, lanes, profiles, form, byHand, unsaved>>

ToolDeletes(a, j) ==
    /\ MayChange(a, j)
    /\ jobs' = [jobs EXCEPT ![j] = NoJob]
    /\ UNCHANGED <<policy, user, beats, lanes, profiles, form, edits, byHand, unsaved>>

\* The files are edited by hand.
EditFiles ==
    /\ Edited
    /\ \E r \in Rest, o \in BOOLEAN :
          /\ policy' = [policy EXCEPT !.rest = r]
          /\ user' = [user EXCEPT !.other = o]
          /\ byHand' = r
    /\ UNCHANGED <<beats, lanes, profiles, jobs, form, unsaved>>

\* The model chosen for the steward goes into its profile.
Stewarded(f) ==
    [a \in Agents |-> IF a = f.steward THEN [profiles[a] EXCEPT !.model = f.model] ELSE profiles[a]]

\* "OK" of the user: the policy, the steward's model, user.md and the heartbeat
\* shown, in that order; a file that cannot be written ends it, and the dialog
\* stays open with all before it done.
Accept ==
    /\ ByUser
    /\ \E failing \in {Unset, "policy", "user", "instruction"} :
          /\ policy' = IF failing = "policy" THEN policy ELSE Policy(form)
          /\ profiles' = IF failing = "policy" THEN profiles ELSE Stewarded(form)
          /\ user' = IF failing \in {"policy", "user"} THEN user ELSE UserMarkdown(form.goals)
          /\ IF failing = Unset THEN Applied(form.agent, form.beat, form.watch) /\ form' = Closed
                               ELSE UNCHANGED <<beats, lanes, unsaved, form>>
    /\ UNCHANGED <<jobs, edits, byHand>>

\* "OK" of an agent: its tools, which with delegation off lose those of delegation.
AcceptForAgent ==
    /\ form.who \in Agents
    /\ \E on \in BOOLEAN : profiles' = [profiles EXCEPT ![form.who].delegate = on]
    /\ form' = Closed
    /\ UNCHANGED <<policy, user, beats, lanes, jobs, edits, byHand, unsaved>>

Reject ==
    /\ form # Closed
    /\ form' = Closed
    /\ UNCHANGED <<policy, user, beats, lanes, profiles, jobs, edits, byHand, unsaved>>

\* The program starts again: every agent gets a lane with the stored policy.
Restart ==
    /\ lanes' = beats
    /\ form' = Closed
    /\ unsaved' = {}
    /\ UNCHANGED <<policy, user, beats, profiles, jobs, edits, byHand>>

Next ==
    \/ \E a \in Agents : Open(a) \/ OpenForAgent(a) \/ SelectAgent(a) \/ DeleteJob(a)
    \/ \E j \in Jobs : SelectJob(j) \/ SaveJob(j)
    \/ \E a \in Agents, j \in Jobs : ToolCreates(a, j) \/ ToolUpdates(a, j) \/ ToolDeletes(a, j)
    \/ Edit \/ ApplyHeartbeat \/ EditFiles \/ Accept \/ AcceptForAgent \/ Reject \/ Restart

Spec == Init /\ [][Next]_vars

-----------------------------------------------------------------------------
TypeOK ==
    /\ policy \in [steward : Agents \cup {Unset}, rules : Values \cup {Unset}, rest : Rest]
    /\ user \in [goals : Texts, longTerm : Texts, other : BOOLEAN]
    /\ beats \in [Agents -> Beat] /\ lanes \in [Agents -> Beat \cup {NoLane}]
    /\ jobs \in [Jobs -> Job \cup {NoJob}] /\ unsaved \subseteq Agents

\* What was written by hand into memory_policy.json and is not shown by the dialog
\* outlives every save of the dialog, also one that was open at the time, unless
\* what was written was no JSON (saveMemorySettingsUi reads the file again).
RestKept == policy.rest \in (IF byHand = "broken" THEN {"broken", Unset} ELSE {byHand})

\* The heartbeat an agent has is the one a restart would give it: an enabled policy
\* has its lane, and a lane has the stored policy, whichever of the buttons of the
\* dialog saved it, unless its file could not be written (updateHeartbeatPolicy,
\* startAgentHeartbeat, stopAgentHeartbeat).
BeatsAsStored ==
    \A a \in Agents \ unsaved :
        /\ beats[a].on => lanes[a] # NoLane
        /\ lanes[a] # NoLane => lanes[a] = beats[a]

SettingsKept == RestKept /\ BeatsAsStored

\* The inductive invariant: a dialog of the user's shows agents, jobs and values.
Form == [who : {"user"}, steward : Agents \cup {Unset}, rules : Values \cup {Unset},
         model : Values \cup {Unset}, goals : Texts, agent : Agents, beat : BOOLEAN,
         watch : Values \cup {Unset}, job : Jobs \cup {Unset}, jobAgent : Agents,
         prompt : Values \cup {Unset}]
SettingsSound ==
    /\ TypeOK
    /\ profiles \in [Agents -> [delegate : BOOLEAN, model : Values \cup {Unset}]]
    /\ form.who = "user" => form \in Form
    /\ SettingsKept
=============================================================================
