------------------------------ MODULE CommandLine ------------------------------
(***************************************************************************)
(* TmAgentCli: its arguments, and CliRunner, which has one agent do one task   *)
(* and prints the result as JSON.                                            *)
(*                                                                         *)
(* The arguments are the set of options that are given.  The agent answers,    *)
(* calls tools, fails, or is stopped by the runner's timer; what it does with  *)
(* a request is in AgentLoop and ReplyStream.  The two interactive modes are    *)
(* in Terminals, the probe in AppServerClient, a new provider in ModelCatalog.  *)
(***************************************************************************)
EXTENDS Integers, Sequences, FiniteSets, Functions

CONSTANTS
    Calls,      \* calls of tools the agent may make
    MaxRound    \* bound: calls of one round

VARIABLES
    args,       \* the options given
    phase,      \* "start", "run", "busy", "over"
    pending,    \* calls of the round that have no result
    asked,      \* calls that were started
    timer,      \* the runner's timer runs
    entries,    \* m_toolCalls
    printed,    \* what went to standard output
    exit        \* the exit code, or -1

agent == <<pending, asked>>
vars == <<args, phase, agent, timer, entries, printed, exit>>

Required == {"instance-id", "provider-type", "base-url"}
\* "piped": standard input holds a text.
Flags == Required \cup {"help", "unknown", "task", "stdin", "piped", "add-provider", "api-key",
    "api-key-env", "interactive", "probe", "codex"}

ExitSuccess == 0
ExitError == 1
ExitTimeout == 2
ExitBadArgs == 3

TypeOK ==
    /\ args \in SUBSET Flags
    /\ phase \in {"start", "run", "busy", "over"}
    /\ pending \subseteq Calls /\ asked \subseteq Calls
    /\ timer \in BOOLEAN
    /\ entries \in Seq([call : Calls, status : {"started", "completed"}])
    /\ \A k \in DOMAIN printed : printed[k].success \in BOOLEAN
    /\ exit \in -1..3

Init ==
    /\ args \in SUBSET Flags /\ phase = "start"
    /\ pending = {} /\ asked = {} /\ timer = FALSE
    /\ entries = <<>> /\ printed = <<>> /\ exit = -1

----------------------------------------------------------------------------
(* parseArgs and main.                                                     *)

\* The text of standard input replaces the one on the command line, also by nothing.
HasTask(a) == IF "stdin" \in a THEN "piped" \in a ELSE "task" \in a
Codex(a) == a \cap {"probe", "codex"} # {}

Rejected(a) ==
    \/ /\ "add-provider" \in a
       /\ \/ Codex(a) \/ "interactive" \in a \/ HasTask(a)
          \/ ~(Required \subseteq a)
          \/ {"api-key", "api-key-env"} \subseteq a
    \/ "add-provider" \notin a /\ Codex(a) /\ ("interactive" \in a \/ HasTask(a))
    \/ a \cap {"add-provider", "probe", "codex", "interactive"} = {} /\ ~HasTask(a)

\* The first mode of this order wins; with both modes of Codex the probe does.
Mode(a) == IF "add-provider" \in a THEN "add-provider"
           ELSE IF "probe" \in a THEN "probe"
           ELSE IF "codex" \in a THEN "codex"
           ELSE IF "interactive" \in a THEN "interactive" ELSE "task"

Over(code) == phase' = "over" /\ exit' = code

\* The first of an option it does not know and of --help ends the parsing; a combination
\* that is refused prints to standard error alone.
Parse ==
    /\ phase = "start"
    /\ \/ "help" \in args /\ Over(ExitSuccess)
       \/ "unknown" \in args /\ Over(ExitBadArgs)
       \/ /\ args \cap {"help", "unknown"} = {}
          /\ IF Rejected(args) THEN Over(ExitBadArgs)
             ELSE IF Mode(args) \in {"interactive", "codex"} THEN Over(ExitSuccess)
             ELSE phase' = "run" /\ UNCHANGED exit
    /\ UNCHANGED <<args, agent, timer, entries, printed>>

OutputJson(success, code, es) ==
    /\ printed' = Append(printed, [success |-> success, code |-> code, entries |-> es])
    /\ Over(code)

\* handleAddProvider, and the probe: one result, and its code.
Command ==
    /\ phase = "run" /\ Mode(args) # "task"
    /\ \E ok \in BOOLEAN : OutputJson(ok, IF ok THEN ExitSuccess ELSE ExitError, <<>>)
    /\ UNCHANGED <<args, agent, timer, entries>>

----------------------------------------------------------------------------
(* CliRunner.                                                              *)

\* The timer starts before the agent is asked.
Begin == phase' = "busy" /\ timer' = TRUE /\ UNCHANGED <<printed, exit>>

\* The file of models: its form, the providers it lists, its default provider, and whether
\* it has a default model.
Configs == [schema : 1..2, listed : SUBSET {"a", "b"}, default : {"a", "b", "none"},
            model : BOOLEAN]

\* initModelFactory with the options that are given, --config-id b or --model-id.  The
\* default model is that of the default provider alone; a model of the older form has its
\* own name.
Starts(config, given) ==
    LET id == IF "config-id" \in given THEN "b" ELSE config.default IN
    /\ config.listed # {}
    /\ id \in config.listed \cup {"none"}
    /\ config.schema = 2 => \/ "model-id" \in given
                            \/ config.model /\ id = config.default /\ id # "none"

\* run
Run ==
    /\ phase = "run" /\ Mode(args) = "task"
    /\ \E config \in Configs, given \in SUBSET {"config-id", "model-id"} :
          IF Starts(config, given) THEN Begin
          ELSE OutputJson(FALSE, ExitError, <<>>) /\ UNCHANGED timer
    /\ UNCHANGED <<args, agent, entries>>

Entry(c, status) == [call |-> c, status |-> status]

\* onToolEvent, for the calls of a round: all of them are noted first.
Round ==
    /\ phase = "busy" /\ pending = {}
    /\ \E cs \in SUBSET (Calls \ asked) :
          cs # {} /\ Cardinality(cs) <= MaxRound /\ pending' = cs
    /\ UNCHANGED <<args, phase, asked, timer, entries, printed, exit>>
ToolStarted(c) ==
    /\ phase = "busy" /\ c \in pending \ asked
    /\ asked' = asked \cup {c}
    /\ entries' = Append(entries, Entry(c, "started"))
    /\ UNCHANGED <<args, phase, pending, timer, printed, exit>>

\* A call the agent may not make, or a second fetch of one address, has a result without
\* having been started.
ToolCompleted(c) ==
    /\ phase = "busy" /\ c \in pending
    /\ asked' = asked \cup {c} /\ pending' = pending \ {c}
    /\ entries' = Append(entries, Entry(c, "completed"))
    /\ UNCHANGED <<args, phase, timer, printed, exit>>

\* onFinished
OnFinished ==
    /\ phase = "busy" /\ pending = {}
    /\ timer' = FALSE /\ OutputJson(TRUE, ExitSuccess, entries)
    /\ UNCHANGED <<args, agent, entries>>

\* onError: the agent reports none while calls are pending.  A request that runs into the
\* time limit of its provider is reported once when it is aborted and once more as timed
\* out, before the program ends.
Failed(n) == [k \in 1..n |-> [success |-> FALSE, code |-> ExitError, entries |-> entries]]
OnError ==
    /\ phase = "busy" /\ pending = {}
    /\ \E n \in 1..2 : printed' = printed \o Failed(n)
    /\ timer' = FALSE /\ Over(ExitError)
    /\ UNCHANGED <<args, agent, entries>>

\* onTimeout: the abort of the agent completes what is pending, and the runner notes that
\* as it notes the results; then it prints.
Aborted == Bijection(1..Cardinality(pending), {Entry(c, "completed") : c \in pending})
OnTimeout ==
    /\ phase = "busy" /\ timer
    /\ \E s \in Aborted : entries' = entries \o s
    /\ OutputJson(FALSE, ExitTimeout, entries')
    /\ pending' = {} /\ timer' = FALSE
    /\ UNCHANGED <<args, asked>>

Finished == phase = "over" /\ UNCHANGED vars

Next ==
    \/ Parse \/ Command \/ Run \/ Round
    \/ \E c \in Calls : ToolStarted(c) \/ ToolCompleted(c)
    \/ OnFinished \/ OnError \/ OnTimeout \/ Finished

\* The program goes on, and its timer fires.
Fairness ==
    /\ WF_vars(Parse) /\ WF_vars(Command) /\ WF_vars(Run) /\ WF_vars(OnTimeout)
FairSpec == Init /\ [][Next]_vars /\ Fairness

----------------------------------------------------------------------------
(* Properties.                                                             *)

\* What a caller of the program reads agrees: the exit code is that of the last result,
\* nothing but a result that is a success ends with 0 where one is printed, bad arguments
\* print none, and in each result every call that was started has ended, once, also when
\* the timer cut the round short.
Noted(c, status, es) == \E k \in DOMAIN es : es[k] = Entry(c, status)
ResultTrue ==
    /\ exit = ExitBadArgs => printed = <<>>
    /\ printed # <<>> => exit = printed[Len(printed)].code
    /\ \A k \in DOMAIN printed :
          /\ printed[k].success <=> printed[k].code = ExitSuccess
          /\ IsInjective(printed[k].entries)
          /\ \A c \in Calls : Noted(c, "started", printed[k].entries)
                                 => Noted(c, "completed", printed[k].entries)

\* What must come to an end: every run of the program, by itself or by its timer,
\* whatever the agent, its provider and its tools do.
\* (The modes at a terminal are asked to end by their user.)
Waiting == phase # "over"
=============================================================================
