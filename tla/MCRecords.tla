------------------------------ MODULE MCRecords ------------------------------
(***************************************************************************)
(* Instances for TLC of the components of RecordParts, and beside them of  *)
(* those whose records are texts: the long-term memory and its searches,   *)
(* the messages of a request and what becomes of a reply, the files of a   *)
(* workspace, the journal, and whom a message is for.                      *)
(***************************************************************************)
EXTENDS RecordParts, TLC

CONSTANTS
    p1, p2,                        \* processes
    a1, a2,                        \* agents
    s1, s2,                        \* sessions
    ask, fact, name,               \* what a user says
    i1, i2, m1, m2,                \* provider instances and models
    q1, q2, q3, d1, d2, d3,        \* prompts and calls of RequestHistory
    t1, t2, k1,                    \* turns and a call
    v1,                            \* a value of a setting
    j1                             \* a job

-----------------------------------------------------------------------------
(* Long-term memory: lines and messages to search.                         *)

TakesPart(s, a) == s = s2 \/ a = a1

Line(doc, fit, rank, near, extra) ==
    [doc |-> doc, fit |-> fit, rank |-> rank, near |-> near, extra |-> extra]
Lines ==
    {Line("memory", "word", 60, 0, 0), Line("today", "word", 90, 20, -20),
     Line("old", "apart", 70, 40, 10), Line("view", "inside", 55, 0, 0),
     Line("memory", "no", 51, 30, 0)}

Message(s, type, status, fits) ==
    [of |-> s, type |-> type, status |-> status, fits |-> fits]
Messages ==
    {Message(s1, "text", "completed", TRUE), Message(s2, "text", "completed", TRUE),
     Message(s1, "tool", "completed", TRUE), Message(s2, "text", "interrupted", TRUE)}

(* The command policy: commands and what the dialog makes of the default.  *)

Shell(subs, contains, runsFile, inside) ==
    [subs |-> subs, contains |-> contains, runsFile |-> runsFile, inside |-> inside]
SomeCommands ==
    {Shell(<<"ls">>, {}, FALSE, TRUE),
     Shell(<<"ls", "rm">>, {"rm -rf"}, FALSE, TRUE),
     Shell(<<"python">>, {"> /dev/"}, TRUE, TRUE),
     Shell(<<"./tool">>, {}, TRUE, TRUE),
     Shell(<<"make">>, {}, FALSE, FALSE)}

DefaultPolicy ==
    [outside |-> FALSE, confirm |-> TRUE, enforce |-> FALSE,
     dangerous |-> {"rm -rf"}, safe |-> {"ls"}, write |-> {"make", "./tool"}]

\* The lists emptied; only what is on the white list; lines that are dropped.
EditedPolicies ==
    {[DefaultPolicy EXCEPT !.dangerous = {}, !.safe = {}, !.confirm = FALSE],
     [DefaultPolicy EXCEPT !.enforce = TRUE, !.safe = {"ls", "# comment"}],
     [DefaultPolicy EXCEPT !.outside = TRUE, !.dangerous = {"> /dev/", "rm -rf"}]}

(* Tabs, and the sessions of agents.                                       *)

SomeTabs == {[open |-> {}, active |-> 0], [open |-> {1}, active |-> 1]}
OldTabs == [open |-> {2}, active |-> 2]

AgentOfSession == s1 :> a1 @@ s2 :> a2

(* Turns that wait, and the task state of an old file.                     *)

SomeTurnLists == {<<t1>>, <<t1, t2>>}
SomeTasks ==
    {[state |-> "running", turn |-> 0, waiting |-> j1,
      summary |-> [what |-> "prompt", turn |-> 0]]}

-----------------------------------------------------------------------------

Memory == INSTANCE LongTermMemory WITH
    Procs <- {p1}, Texts <- {ask, fact, name}, Manual <- {ask},
    Stable <- {fact, name}, Brief <- {name}, Interval <- 2, MaxReflect <- 1,
    MaxOps <- 4, doc <- w1, sql <- w2, sem <- w3, sqlNewer <- w4, semNewer <- w5,
    todo <- w6, buf <- w7, retained <- w8, ops <- w9, missed <- w10

Search == INSTANCE SearchTools WITH
    Agents <- <<a1, a2>>, Sessions <- {s1, s2}, Member <- TakesPart,
    Written <- Lines, Spoken <- Messages, MaxResults <- {1, 2}, Widen <- 2,
    AtLeast <- 3, MaxItems <- 3, notes <- w1, said <- w2, answer <- w3

History == INSTANCE RequestHistory WITH
    Prompts <- {q1, q2}, Internal <- {q3}, Calls <- {d1, d2, d3}, Long <- {d3},
    HistoryMax <- 3, RequestMax <- 5, MaxMessages <- 6, messages <- w1, queue <- w2,
    active <- w3, snapshot <- w4, history <- w5, round <- w6, results <- w7,
    request <- w8, opening <- w9, asked <- w10

Stream == INSTANCE ReplyStream WITH
    Kinds <- {"openai", "deepseek", "anthropic"}, Indexes <- {0, 1},
    MaxAttempts <- 1, Retries <- 1, MaxSends <- 2, MaxEvents <- 4, kind <- w1,
    phase <- w2, sends <- w3, exchange <- w4, stream <- w5, attempts <- w6,
    retry <- w7, text <- w8, thinking <- w9, history <- w10, body <- w11,
    reports <- w12

\* Files are made of the letters a and b and of newlines (n).
A == <<"a">>
B == <<"b">>
SomeTexts == {<<>>, A, A \o <<"n">>, A \o B}
SomeReplacements ==
    {<< <<A, B>>, <<B, A \o <<"n">> >> >>, << <<A, <<>> >>, <<B, A>> >>}
Section(kind, p, text) == [kind |-> kind, path |-> p, text |-> text]
SomePatches ==
    {<<Section("add", "p", A \o <<"n">>), Section("delete", "x", <<>>)>>,
     <<Section("update", "p", <<>>), Section("move", "q", <<>>)>>,
     <<Section("delete", "p", <<>>), Section("add", "q", A \o <<"n">>)>>,
     <<Section("update", "p", <<>>)>>}

Workspace == INSTANCE WorkspaceFiles WITH
    Paths <- {"p", "q"}, Outside <- {"x"}, Texts <- SomeTexts, Fragments <- {A, B},
    Replacements <- SomeReplacements, Patches <- SomePatches, MaxMatches <- 2,
    MaxLength <- 4, MaxCalls <- 2, Sent <- {"f1"}, files <- w1, answer <- w2,
    calls <- w3, temp <- w4, stored <- w5, posted <- w6, before <- w7

\* The lines of the old journal files: two that are alike.
OldLine == [turn |-> 0, type |-> "turn_failed", chunks |-> <<>>, tool |-> "", status |-> "",
            digest |-> "", success |-> "none"]
OldLines == <<OldLine, OldLine>>
ErrorRows == [type |-> "", level |-> "error"]
SomeFilters == {ErrorRows, [type |-> "turn_tool_event", level |-> ""]}

Journal == INSTANCE EventJournal WITH
    Turns <- {1, 2}, Tools <- {k1}, Digests <- {"a", "b"}, Legacy <- OldLines,
    Filters <- SomeFilters, Followed <- ErrorRows, Limit <- 2, PollLimit <- 2,
    MaxChunks <- 2, MaxRows <- 3, MaxStart <- 1, MaxFailed <- 1, up <- w1,
    queue <- w2, active <- w3, pending <- w4, progress <- w5, calls <- w6,
    verbose <- w7, events <- w8, messages <- w9, marker <- w10, following <- w11,
    followed <- w12, streamed <- w13, shown <- w14, failed <- w15

(* Messages and whom they are for: an agent whose name is the id of another, *)
(* two that share a name, one with a name of two words.                    *)

Lower(w) == CASE w = "Dev" -> "dev" [] w = "ID2" -> "id2" [] w = "All" -> "all" [] OTHER -> w
Plain(w) == [at |-> FALSE, word |-> w]
At(w) == [at |-> TRUE, word |-> w]
SomeMessages ==
    {<<Plain("dev")>>, <<At("Dev")>>, <<At("dev"), Plain("bot")>>, <<At("x")>>,
     <<At("dev"), At("id2")>>, <<At("id2"), Plain("x"), At("ID2"), At("x")>>,
     <<At("x"), At("dev"), At("All"), At("y")>>}

Router == INSTANCE MessageRouter WITH
    Agents <- {"id1", "ID2", "id3"}, User <- user, Normal <- Lower,
    Broadcast <- {"all"}, Names <- {<<"Dev">>, <<"dev", "bot">>, <<"id2">>},
    Texts <- SomeMessages, Nobody <- None, MaxChanges <- 1, type <- w1,
    invited <- w2, name <- w3, changes <- w4, message <- w5

-----------------------------------------------------------------------------
Spare3 == <<w4, Spare4>>
Spare12 == <<w13, w14, Spare14>>
Spare15 == <<w16, w17, w18>>

Zero15 == w16 = 0 /\ w17 = 0 /\ w18 = 0
Zero12 == w13 = 0 /\ w14 = 0 /\ Zero14
Zero3 == w4 = 0 /\ Zero4

PartInit ==
    \/ RecordsInit
    \/ part = "memory" /\ Memory!Init /\ Zero10
    \/ part = "search" /\ Search!Init /\ Zero3
    \/ part = "history" /\ History!Init /\ Zero10
    \/ part = "stream" /\ Stream!Init /\ Zero12
    \/ part = "files" /\ Workspace!Init /\ Zero7
    \/ part = "journal" /\ Journal!Init /\ Zero15
    \/ part = "routes" /\ Router!Init /\ Zero5

PartNext ==
    /\ UNCHANGED part
    /\ \/ RecordsNext
       \/ part = "memory" /\ Memory!Next /\ UNCHANGED Spare10
       \/ part = "search" /\ Search!Next /\ UNCHANGED Spare3
       \/ part = "history" /\ History!Next /\ UNCHANGED Spare10
       \/ part = "stream" /\ Stream!Next /\ UNCHANGED Spare12
       \/ part = "files" /\ Workspace!Next /\ UNCHANGED Spare7
       \/ part = "journal" /\ Journal!Next /\ UNCHANGED Spare15
       \/ part = "routes" /\ Router!Next /\ UNCHANGED Spare5

PartSpec == PartInit /\ [][PartNext]_parts

\* The prompts and the calls of RequestHistory are alike but for what they are.
Alike == Permutations({q1, q2}) \cup Permutations({d1, d2})

\* A view shows at most one bubble more than there are messages, and the views together
\* at most four: what the other one shows is made anew when it is chosen.
FewBubbles == part = "views" =>
    /\ \A i \in OpenedViews : Len(w2[i].bubbles) <= 3
    /\ Len(w2[user].bubbles) + Len(w2[a1].bubbles) <= 4

-----------------------------------------------------------------------------
(* Properties: what each component promises, where it is the one that runs.  *)

\* Searches see what was written, no fact is kept twice and none without its
\* source, and the two search tools show the best, everything as long as there is
\* room (LongTermMemory, SearchTools).
MemoryTrue ==
    /\ part = "memory" => Memory!SearchComplete /\ Memory!FactOnce /\ Memory!FactHasSource
    /\ part = "search" => Search!TypeOK /\ Search!SearchTrue

\* Each request pairs the calls with their results, and the first of a turn ends
\* with its prompt; a reply becomes its calls whole, one attempt per message, and
\* the reasoning behind a round of tools goes back with its results; a message is
\* addressed to those it mentions (RequestHistory, ReplyStream, MessageRouter).
ExchangeTrue ==
    /\ part = "history" => History!TypeOK /\ History!WellPaired /\ History!OpensWithPrompt
    /\ part = "stream" =>
          Stream!TypeOK /\ Stream!CallsWhole /\ Stream!OneAttempt /\ Stream!ThinkingCarried
    /\ part = "routes" =>
          Router!TypeOK /\ Router!AddressedWhoIsMeant /\ Router!MentionsAccounted
            /\ Router!SilentMeansAll

\* What is written is there to be read: what the file tools answer is what they did
\* and found, the journal has the whole reply and the last progress, and its readers
\* find them (WorkspaceFiles, EventJournal).
WritesTrue ==
    CASE part = "files"    -> Workspace!TypeOK /\ Workspace!RefusedUnchanged
                                /\ Workspace!RestKept /\ Workspace!NothingMissed
                                /\ Workspace!FileShown
      [] part = "journal"  -> Journal!TypeOK /\ Journal!DeltasWhole
                                /\ Journal!ProgressCurrent /\ Journal!ImportedOnce
                                /\ Journal!AnswerComplete /\ Journal!FollowsSearch
      [] OTHER             -> TRUE

-----------------------------------------------------------------------------
(* What does not hold, and where a document or a text of the program says it *)
(* does: MCRecords_divergences.cfg, to be run with -continue.                *)

\* "avoid losing the current prompt" (LLMAgent.cpp:592): each request of a turn shows
\* what the turn is asked.
PromptShown == part = "history" => History!PromptShown

\* "the right context for the next request" (LLMProvider.h:57): the reasoning kept with
\* a message is that of its own reply.
OwnThinking == part = "stream" => Stream!OwnThinking

\* A request is reported once (LLMProvider.cpp:24).
OneReport == part = "stream" => Stream!OneReport

\* What a tool answers with "[OK]" it has done (WorkspaceToolProvider.cpp:13).
OkMeansDone == part = "files" => Workspace!OkMeansDone

\* A process that runs has its database (ApplicationServices.cpp:144).
RunsWithDatabase == part = "database" => Base!RunsWithDatabase

\* What the dialog of the command policy says of its lists and switches
\* (CommandPolicyDialog.cpp:167-196).
DialogTrue ==
    part = "commands" => Policy!LinesRefuse /\ Policy!OutsideAllowed /\ Policy!UserAsked

\* "@ one agent activates that agent only" (10-架构升级设计方案.md:921).
MentionObeyed ==
    part = "routes" => Router!MentionedAnswers /\ Router!NameReaches

\* The rows of app_state are what is true (30-当前执行主线.md:143), also with a second
\* process and when a row cannot be read.
OneTruth == part = "context" => Context!TaskKept

\* What is left of a turn has the goal of that turn, in all its files, and nothing of a
\* session outlives it.
ContextAgrees ==
    part = "context" =>
        Context!GoalOfTurn /\ Context!PacketWithSnapshot /\ Context!RemovedIsGone

\* Legacy data stay until they are stored, and a tool taken from an agent stays taken.
LegacyKept == [][part = "agents" => Registry!LegacyStep]_parts
LimitKept == [][part = "agents" => Registry!LimitStep]_parts
=============================================================================
