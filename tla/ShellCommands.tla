---------------------------- MODULE ShellCommands ----------------------------
(***************************************************************************)
(* execute_command: the policy file that the settings dialog writes and    *)
(* that every command reads, and what becomes of a command (ShellTool).    *)
(*                                                                         *)
(* ShellTool is compiled twice, into the program, whose dialog edits the   *)
(* policy, and into the tool plugin, whose copy runs the commands.  The    *)
(* callback that asks the user is a static variable, so that each copy has *)
(* one of its own; main sets that of the program.                          *)
(*                                                                         *)
(* Several processes share the policy file (desktop and command line).  It *)
(* is truncated when it is opened to be written, and written when it is    *)
(* closed: another process may read it in between, and may be killed in    *)
(* between.  A command blocks its process until it ends or times out.      *)
(*                                                                         *)
(* A command is the sequence of the words that begin its sub-commands      *)
(* (split at && and ||), and a text is a word or a pattern that one of     *)
(* them holds; `contains' says which patterns are found in a command.      *)
(***************************************************************************)
EXTENDS Naturals, Sequences, FiniteSets

CONSTANTS
    Processes,      \* processes that share the policy file
    Commands,       \* commands: records [subs, contains, runsFile, inside]
    Default,        \* defaultPolicyObject
    Edits,          \* what the user may type into the dialog
    Nothing,        \* no policy: an unfinished or broken file
    NoCommand,
    MaxSaves        \* bound: saves of the dialog

VARIABLES
    file,       \* command_policy.json, `Nothing' when it cannot be parsed
    writing,    \* the policy a process is about to write to the truncated file
    saves,      \* saves of the dialog so far
    wish,       \* (history) what the user saved last; `Nothing' once it was lost
    ended       \* the command that ended last since then, and what became of it

vars == <<file, writing, saves, wish, ended>>

-----------------------------------------------------------------------------
(* The policy file.                                                        *)

\* The keys of defaultPolicyObject: switches (the time limit of a command among
\* them, which is left out) and lists of texts.
Switches == {"outside", "confirm", "enforce"}
Lists == {"dangerous", "safe", "write"}

\* Patterns of an older version that are dropped wherever they are found.
Migrated == {"> /dev/"}

\* A line of the dialog that begins with # is a comment.
Comments == {"# comment"}

\* normalizeStrArray: a list that is not there becomes the default one.
ListOf(raw, key) == IF key \in DOMAIN raw THEN raw[key] ELSE Default[key]

Switch(raw, key) == IF key \in DOMAIN raw THEN raw[key] ELSE Default[key]

\* normalizePolicyObject.
Normalized(raw) ==
    [key \in Switches \cup Lists |->
        CASE key \in Switches -> Switch(raw, key)
          [] key = "dangerous" -> ListOf(raw, key) \ Migrated
          [] OTHER -> ListOf(raw, key)]

\* What a load reads: a broken file gives the default policy.
Loaded == IF file = Nothing THEN Default ELSE Normalized(file)

\* editorTextToArray, over what the user typed.
Typed(edit) ==
    [edit EXCEPT !.dangerous = @ \ Comments, !.safe = @ \ Comments, !.write = @ \ Comments]

-----------------------------------------------------------------------------
(* Commands.                                                               *)

\* isSafeCommand.
IsSafe(c, policy) ==
    /\ policy.dangerous \cap c.contains = {}
    /\ policy.enforce =>
          \A i \in DOMAIN c.subs : c.subs[i] \in policy.safe \cup {"python", "pip"}

\* isWriteCommand.
Writes(c, policy) == \E i \in DOMAIN c.subs : c.subs[i] \in policy.write

\* isExecutableCommand: a command that begins with the interpreter is none.
IsExecutable(c) == c.subs[1] # "python" /\ c.runsFile

\* The working directory, as it is resolved, is inside the workspace of the agent.
Inside(c) == c.inside

\* The copies of ShellTool whose callback is set (main).
Bridged == {"program"}

\* What the user answers to a copy that wants a command confirmed; a copy
\* without callback refuses.
Answers(copy) == IF copy \in Bridged THEN BOOLEAN ELSE {FALSE}

\* executeCommand up to the start of its process: the first refusal, if any.
Verdicts(c, policy) ==
    IF ~Inside(c) THEN {"outside"}
    ELSE IF ~IsSafe(c, policy) THEN {"unsafe"}
    ELSE IF Writes(c, policy) /\ ~policy.outside /\ ~Inside(c) THEN {"outside"}
    ELSE IF policy.confirm /\ IsExecutable(c)
         THEN {IF yes THEN "run" ELSE "refused" : yes \in Answers("plugin")}
    ELSE {"run"}

\* What becomes of a command that is started.  Its exit code decides about the
\* result; a process that cannot be started counts as timed out.
Runs == {"succeeded", "failed", "timed out"}

-----------------------------------------------------------------------------
Ended(c, how) ==
    [command |-> c, how |-> how, asked |-> how = "refused" /\ "plugin" \in Bridged]

Init ==
    /\ file = Nothing
    /\ writing = [p \in Processes |-> Nothing]
    /\ saves = 0
    /\ wish = Default
    /\ ended = Ended(NoCommand, "none")

\* savePolicyObject opens the file, which truncates it ...
Open(p, policy) ==
    /\ writing' = [writing EXCEPT ![p] = policy]
    /\ file' = Nothing

\* ... and writes it.
Write(p) ==
    /\ writing[p] # Nothing
    /\ file' = writing[p]
    /\ writing' = [writing EXCEPT ![p] = Nothing]
    /\ UNCHANGED <<saves, wish, ended>>

\* Another process is about to write the file.
Contended(p) == \E q \in Processes \ {p} : writing[q] # Nothing

\* loadPolicyObject: a policy that is not as it should be is saved at once.
Load(p) ==
    IF file = Nothing \/ file # Loaded
    THEN Open(p, Loaded)
    ELSE UNCHANGED <<file, writing>>

\* execute_command, up to the start of the process or to its refusal.
Execute(p, c) ==
    /\ writing[p] = Nothing
    /\ Load(p)
    /\ \E verdict \in Verdicts(c, Loaded) :
          \/ verdict # "run" /\ ended' = Ended(c, verdict)
          \/ verdict = "run" /\ \E how \in Runs : ended' = Ended(c, how)
    /\ wish' = IF Contended(p) THEN Nothing ELSE wish
    /\ UNCHANGED saves

\* The dialog is opened, which loads the policy, and saved.
SaveDialog(p, edit) ==
    /\ writing[p] = Nothing
    /\ saves < MaxSaves
    /\ saves' = saves + 1
    /\ Open(p, Normalized(Typed(edit)))
    /\ wish' = IF Contended(p) THEN Nothing ELSE Typed(edit)
    /\ ended' = Ended(NoCommand, "none")

\* A process is killed while it writes the file.
Kill(p) ==
    /\ writing[p] # Nothing
    /\ writing' = [writing EXCEPT ![p] = Nothing]
    /\ wish' = Nothing
    /\ UNCHANGED <<file, saves, ended>>

Next ==
    \E p \in Processes :
        \/ \E c \in Commands : Execute(p, c)
        \/ \E e \in Edits : SaveDialog(p, e)
        \/ Write(p)
        \/ Kill(p)

Spec == Init /\ [][Next]_vars

-----------------------------------------------------------------------------
\* Every variable has its type.
TypeOK ==
    /\ DOMAIN writing = Processes
    /\ saves \in 0 .. MaxSaves
    /\ ended.command \in Commands \cup {NoCommand}
    /\ ended.how \in {"none", "outside", "unsafe", "refused"} \cup Runs

\* The next command obeys what the user saved in the dialog, however the policy
\* has been normalised, rewritten and read again since: it is refused by the lists
\* if and only if they say so, a list that was emptied stays empty, and nothing
\* else but the place and the confirmation refuses it.  The patterns of older
\* versions that are migrated do not count, nor does a policy that another
\* process or a kill has overwritten.
SavedObeyed ==
    wish # Nothing /\ ended.command # NoCommand /\ ended.command.inside =>
        LET listed == [wish EXCEPT !.dangerous = @ \ Migrated]
        IN  (ended.how = "unsafe") = ~IsSafe(ended.command, listed)

\* The inductive invariant: unless it was lost, what the user saved is what a load
\* reads while nobody writes, or what the only one who writes is about to write.
Policies == {Default} \cup {Normalized(Typed(e)) : e \in Edits}
OnlyWriter(p) == \A q \in Processes \ {p} : writing[q] = Nothing
PolicySound ==
    /\ TypeOK /\ SavedObeyed
    /\ file \in Policies \cup {Nothing} /\ writing \in [Processes -> Policies \cup {Nothing}]
    /\ wish \in {Nothing, Default} \cup {Typed(e) : e \in Edits}
    /\ wish # Nothing =>
          \/ Loaded = Normalized(wish) /\ \A p \in Processes : writing[p] = Nothing
          \/ \E p \in Processes : writing[p] = Normalized(wish) /\ OnlyWriter(p)

\* The settings dialog promises that any line of the black list refuses the
\* commands that hold it.
LinesRefuse ==
    wish # Nothing /\ ended.command # NoCommand /\ ended.how \in Runs =>
        IsSafe(ended.command, wish)

\* The settings dialog offers to let write commands leave the workspace.
OutsideAllowed ==
    wish # Nothing /\ ended.how = "outside" => ~(wish.outside /\ Writes(ended.command, wish))

\* The settings dialog says that the user is asked before a file is executed: no
\* command is refused in the user's name without a question.
UserAsked == ended.how = "refused" => ended.asked
=============================================================================
