---------------------------- MODULE LongTermMemory ----------------------------
(***************************************************************************)
(* The memory of one agent: MemoryManager and MemoryDocument, driven by the *)
(* end of a turn, the user, the memory_write tool and the heartbeat, and     *)
(* MemoryTool, which searches it.                                            *)
(*                                                                         *)
(* The documents are files, each rewritten as a whole by an append.  Beside  *)
(* them are a SQLite index, which core and the tool rebuild, and a semantic  *)
(* index, which only the tool rebuilds: it compares the times of the files   *)
(* before a search.  An operation is a row of steps; a process runs one at   *)
(* a time and may be killed between any two.                                 *)
(***************************************************************************)
EXTENDS Naturals, Sequences, SequencesExt

CONSTANTS
    Procs,      \* processes that use the agent's directory
    Texts,      \* what users say
    Manual,     \* texts that ask to be remembered
    Stable,     \* other texts that look like a lasting fact about the user
    Brief,      \* those of them below min_user_chars_for_extract
    None,       \* no index
    Bad,        \* a SQLite file that cannot be read
    Interval,   \* reflect_every_n_turns
    MaxReflect, \* reflect_max_candidates_per_run
    MaxOps      \* bound: operations that write, failures, kills

Docs == {"daily", "view", "long"}

VARIABLES
    doc,        \* the daily document, user_view.md and memory.md, as lines
    sql,        \* what the SQLite index holds: the documents it was built from
    sem,        \* the same of the semantic index
    sqlNewer,   \* documents modified after the SQLite index
    semNewer,   \* documents modified after the semantic index
    todo,       \* per process: the steps left of its operation
    buf,        \* per process: the documents it has read for the step it is in
    retained,   \* per process: turns since it started, modulo the interval
    ops,        \* operations, failures and kills so far
    missed      \* observation: a search used an index without a line of a document

files == <<doc, sql, sem, sqlNewer, semNewer>>
vars == <<files, todo, buf, retained, ops, missed>>

\* A line of memory.md carries the fingerprint of its candidate, prefix and text.
Candidate == {"asked", "answer", "stable", "reflected", "raw"} \X Texts

TypeOK ==
    /\ doc.daily \in Seq(Texts) /\ doc.view \in Seq(Texts) /\ doc.long \in Seq(Candidate)
    /\ DOMAIN doc = Docs
    /\ sqlNewer \subseteq Docs /\ semNewer \subseteq Docs
    /\ retained \in [Procs -> 0..(Interval - 1)]
    /\ missed \in BOOLEAN

Init ==
    /\ doc = [d \in Docs |-> <<>>]
    /\ sql = None /\ sem = None /\ sqlNewer = {} /\ semNewer = {}
    /\ todo = [p \in Procs |-> <<>>] /\ buf = [p \in Procs |-> None]
    /\ retained = [p \in Procs |-> 0] /\ ops = 0 /\ missed = FALSE

----------------------------------------------------------------------------
(* The steps of an operation.                                              *)

Append1(d, line) == [do |-> "append", doc |-> d, line |-> line]
Keep(cs, index) == [do |-> "keep", candidates |-> cs, index |-> index]
Index == [do |-> "index"]           \* MemoryManager::rebuildSearchIndex
Count == [do |-> "count"]           \* maybeReflectMemoryAndEmit after a turn
Reflect == [do |-> "reflect"]
Rebuild == [do |-> "rebuild"]       \* MemoryTool::rebuildAgentIndex
SaveSemantic == [do |-> "semantic"]
Look(sure) == [do |-> "look", sure |-> sure]

Idle(p) == todo[p] = <<>>
At(p, step) == ~Idle(p) /\ Head(todo[p]).do = step

\* The process goes on with steps, then with what was left.
Continue(p, steps) ==
    /\ todo' = [todo EXCEPT ![p] = steps \o Tail(@)]
    /\ buf' = [buf EXCEPT ![p] = None]

Begin(p, steps) ==
    /\ Idle(p) /\ ops < MaxOps
    /\ ops' = ops + 1
    /\ todo' = [todo EXCEPT ![p] = steps]
    /\ UNCHANGED <<files, buf, retained, missed>>

\* buildLongTermCandidates, and none for a brief text that does not ask for it.
CandidatesOf(t) ==
    IF t \in Manual THEN <<<<"asked", t>>, <<"answer", t>>>>
    ELSE IF t \in Stable \ Brief THEN <<<<"stable", t>>>>
    ELSE <<>>

\* Mutant of RetainTurn: what is worth keeping first.
RetainTurnKeepFirst(p, t) ==
    Begin(p, <<Keep(CandidatesOf(t), FALSE), Append1("daily", t), Append1("view", t), Index, Count>>)

\* handleFinishMemory: the turn goes to the daily document and to user_view.md,
\* what is worth keeping to memory.md, and the index is built again.  The steward
\* also writes the shared work document, which no index covers and is left out.
RetainTurn(p, t) ==
    Begin(p, <<Append1("daily", t), Append1("view", t), Keep(CandidatesOf(t), FALSE), Index, Count>>)

\* The user marks a message: the index is built whether a line was added or not.
RememberMessage(p, t) == Begin(p, <<Keep(<<<<"raw", t>>>>, FALSE), Index>>)

\* The tool memory_write: the index is built if a line was added.
MemoryWrite(p, t) == Begin(p, <<Keep(<<<<"raw", t>>>>, TRUE)>>)

\* A cycle of the heartbeat reflects without counting.
HeartbeatReflects(p) == Begin(p, <<Reflect>>)

\* isIndexStale: an index is missing or a document is younger.
Stale == sql = None \/ sem = None \/ sqlNewer # {} \/ semNewer # {}

Search(p) ==
    /\ Idle(p)
    /\ todo' = [todo EXCEPT ![p] = IF Stale THEN <<Rebuild, Look(TRUE)>> ELSE <<Look(TRUE)>>]
    /\ UNCHANGED <<files, buf, retained, ops, missed>>

Reindex(p) ==
    /\ Idle(p)
    /\ todo' = [todo EXCEPT ![p] = <<Rebuild>>]
    /\ UNCHANGED <<files, buf, retained, ops, missed>>

----------------------------------------------------------------------------
(* Running the steps.                                                      *)

\* A step that writes a file reads the documents first.
Read(p) ==
    /\ \E s \in {"append", "index", "rebuild"} : At(p, s)
    /\ buf[p] = None
    /\ buf' = [buf EXCEPT ![p] = doc]
    /\ UNCHANGED <<files, todo, retained, ops, missed>>

\* appendAtomic: the document as it was read, and the line.
Append_(p) ==
    /\ At(p, "append") /\ buf[p] # None
    /\ LET s == Head(todo[p]) IN
       /\ doc' = [doc EXCEPT ![s.doc] = Append(buf[p][s.doc], s.line)]
       /\ sqlNewer' = sqlNewer \cup {s.doc} /\ semNewer' = semNewer \cup {s.doc}
    /\ Continue(p, <<>>)
    /\ UNCHANGED <<sql, sem, retained, ops, missed>>

\* The candidates whose marker memory.md does not hold.
Missing(cs) == SelectSeq(cs, LAMBDA c : c \notin ToSet(doc.long))

Lines(cs) == [i \in DOMAIN cs |-> Append1("long", cs[i])]

KeepStep(p) ==
    /\ At(p, "keep")
    /\ LET s == Head(todo[p])
           new == Missing(s.candidates)
       IN Continue(p, Lines(new) \o IF s.index /\ new # <<>> THEN <<Index>> ELSE <<>>)
    /\ UNCHANGED <<files, retained, ops, missed>>

\* extractUserSignalsFromDailyContent: the first of the lasting facts, each once.
Signals ==
    LET said == SelectSeq(doc.daily, LAMBDA t : t \in Stable \cup Manual)
        once == FoldLeft(LAMBDA acc, t : IF t \in ToSet(acc) THEN acc ELSE Append(acc, t), <<>>, said)
    IN SubSeq(once, 1, IF Len(once) < MaxReflect THEN Len(once) ELSE MaxReflect)

\* reflectAndScore counts the candidates it may add before it drops those that
\* memory.md has.
ReflectStep(p) ==
    /\ At(p, "reflect")
    /\ Continue(p, <<Keep([i \in DOMAIN Signals |-> <<"reflected", Signals[i]>>], TRUE)>>)
    /\ UNCHANGED <<files, retained, ops, missed>>

CountStep(p) ==
    /\ At(p, "count")
    /\ retained' = [retained EXCEPT ![p] = (@ + 1) % Interval]
    /\ Continue(p, IF retained'[p] = 0 THEN <<Reflect>> ELSE <<>>)
    /\ UNCHANGED <<files, ops, missed>>

IndexStep(p) ==
    /\ At(p, "index") /\ buf[p] # None
    /\ sql' = buf[p] /\ sqlNewer' = {}
    /\ Continue(p, <<>>)
    /\ UNCHANGED <<doc, sem, semNewer, retained, ops, missed>>

\* The tool commits the SQLite index and then saves the semantic one.
RebuildStep(p) ==
    \/ /\ At(p, "rebuild") /\ buf[p] # None
       /\ sql' = buf[p] /\ sqlNewer' = {}
       /\ todo' = [todo EXCEPT ![p] = <<SaveSemantic>> \o Tail(@)]
       /\ UNCHANGED <<doc, sem, semNewer, buf, retained, ops, missed>>
    \/ /\ At(p, "semantic")
       /\ sem' = buf[p] /\ semNewer' = {}
       /\ Continue(p, <<>>)
       /\ UNCHANGED <<doc, sql, sqlNewer, retained, ops, missed>>

\* A search that cannot read the SQLite index rebuilds it and looks again; the
\* answer of one whose rebuild failed comes from the indexes as they are.
LookStep(p) ==
    /\ At(p, "look")
    /\ IF sql = Bad THEN Continue(p, <<Rebuild, Head(todo[p])>>) /\ UNCHANGED missed
       ELSE /\ Continue(p, <<>>)
            /\ missed' = (missed \/ (Head(todo[p]).sure /\ (sql # doc \/ sem # doc)))
    /\ UNCHANGED <<files, retained, ops>>

----------------------------------------------------------------------------
(* What goes wrong.                                                        *)

\* A document cannot be written: a turn or a reflection is given up where it is.
AppendFails(p) ==
    /\ At(p, "append") /\ ops < MaxOps /\ ops' = ops + 1
    /\ todo' = [todo EXCEPT ![p] = <<>>] /\ buf' = [buf EXCEPT ![p] = None]
    /\ UNCHANGED <<files, retained, missed>>

\* An index cannot be built: core reports it and goes on.  The tool warns that it
\* falls back to the documents, and then uses the SQLite index if there is one.
IndexFails(p) ==
    /\ At(p, "index") \/ At(p, "rebuild") \/ At(p, "semantic")
    /\ ops < MaxOps /\ ops' = ops + 1
    /\ todo' = [todo EXCEPT ![p] =
                   IF Len(@) > 1 /\ @[2].do = "look"
                   THEN IF sql \in {None, Bad} THEN <<>> ELSE <<Look(FALSE)>>
                   ELSE Tail(@)]
    /\ buf' = [buf EXCEPT ![p] = None]
    /\ UNCHANGED <<files, retained, missed>>

\* The process is killed and starts again.
Crash(p) ==
    /\ ops < MaxOps /\ ops' = ops + 1
    /\ todo' = [todo EXCEPT ![p] = <<>>] /\ buf' = [buf EXCEPT ![p] = None]
    /\ retained' = [retained EXCEPT ![p] = 0]
    /\ UNCHANGED <<files, missed>>

\* The SQLite file is damaged from outside; its time may not tell.
Damage ==
    /\ sql \notin {None, Bad} /\ ops < MaxOps /\ ops' = ops + 1
    /\ sql' = Bad
    /\ UNCHANGED <<doc, sem, sqlNewer, semNewer, todo, buf, retained, missed>>

Next ==
    \/ \E p \in Procs :
        \/ \E t \in Texts : RetainTurn(p, t) \/ RememberMessage(p, t) \/ MemoryWrite(p, t)
        \/ HeartbeatReflects(p) \/ Search(p) \/ Reindex(p)
        \/ Read(p) \/ Append_(p) \/ KeepStep(p) \/ ReflectStep(p) \/ CountStep(p)
        \/ IndexStep(p) \/ RebuildStep(p) \/ LookStep(p)
        \/ AppendFails(p) \/ IndexFails(p) \/ Crash(p)
    \/ Damage

Spec == Init /\ [][Next]_vars

----------------------------------------------------------------------------
(* Properties.                                                             *)

\* A search whose index could be built sees every line of every document, after
\* turns that were cut short, kills between the two indexes and damaged files.
SearchComplete == ~missed

\* memory.md has no fact twice under one fingerprint, whoever wrote it.
FactOnce == IsInjective(doc.long)

\* What a turn or a reflection left in memory.md can be traced to the daily
\* document: it is written first, so that no failure leaves a fact without source.
FactHasSource ==
    \A i \in DOMAIN doc.long :
        doc.long[i][1] # "raw" => doc.long[i][2] \in ToSet(doc.daily)
=============================================================================
