---------------------------- MODULE WorkspaceFiles ----------------------------
(***************************************************************************)
(* The file tools: FileTool and PatchTool edit the files of an agent's        *)
(* workspace, WorkspaceToolProvider turns what they answer into a result, and  *)
(* handleToolPersistence moves a file that is sent into the session and posts  *)
(* it.  A tool runs from its call to its answer without a break; the user and  *)
(* other programs edit the same files between two calls.                      *)
(*                                                                         *)
(* A file is a sequence of characters, "n" being the newline.                 *)
(***************************************************************************)
EXTENDS Naturals, Sequences, FiniteSets, FiniteSetsExt

CONSTANTS
    Paths,      \* files of the workspace
    Outside,    \* paths that are not in the workspace
    Texts,      \* the contents the model and the user write
    Fragments,  \* what is searched for or replaced
    Replacements, \* of multi_replace_in_file: sequences of <<target, replacement>>
    Patches,    \* sequences of sections
    MaxMatches, \* lines a search lists (kMaxMatches, 50)
    MaxLength,  \* bound: characters of a file
    MaxCalls,   \* bound: calls
    Sent        \* bound: files that are sent, identified by their temporary directory

Missing == <<"absent">>   \* no file holds this character
Chars == {"a", "b", "n"}

VARIABLES
    files,      \* the workspace: content, or Missing
    answer,     \* the last answer: [op, kind, path, text, shown, cut]
    calls,      \* calls so far
    temp,       \* files in the temporary directory, waiting for the tool event
    stored,     \* files in the data directory of the session
    posted,     \* file messages of the session: [file, place]
    before      \* history: files when the last call began

vars == <<files, answer, calls, temp, stored, posted, before>>

Kinds == {"ok", "warning", "nothing", "error"}
Answer(op, kind, p, shown, cut) ==
    [op |-> op, kind |-> kind, path |-> p, text |-> <<>>, shown |-> shown, cut |-> cut]

Init ==
    /\ files \in [Paths -> Texts \cup {Missing}]
    /\ answer = Answer("", "ok", "", {}, FALSE)
    /\ calls = 0 /\ temp = {} /\ stored = {} /\ posted = {}
    /\ before = files

TypeOK ==
    /\ \A p \in Paths : files[p] = Missing \/ \A i \in DOMAIN files[p] : files[p][i] \in Chars
    /\ answer.kind \in Kinds
    /\ calls \in 0..MaxCalls
    /\ temp \subseteq Sent /\ stored \subseteq Sent
    /\ \A m \in posted : m.file \in Sent

----------------------------------------------------------------------------
(* Text.                                                                   *)

\* QString::count: the places where a fragment begins, overlaps included
Occurrences(t, c) == {i \in 1..Len(c) : /\ i + Len(t) - 1 <= Len(c)
                                        /\ SubSeq(c, i, i + Len(t) - 1) = t}

\* QString::replace: all of them, from the left
ReplaceAll(c, t, r) ==
    LET from[i \in 1..Len(c) + 1] ==
          IF i > Len(c) THEN <<>>
          ELSE IF i \in Occurrences(t, c) THEN r \o from[i + Len(t)]
          ELSE <<c[i]>> \o from[i + 1]
    IN from[1]

\* The lines QTextStream::readLine returns: no last empty one after a final newline.
LineEnds(c) == {i \in DOMAIN c : c[i] = "n"} \cup
               (IF c # <<>> /\ c[Len(c)] # "n" THEN {Len(c) + 1} ELSE {})
LineCount(c) == Cardinality(LineEnds(c))
End(c, k) == CHOOSE e \in LineEnds(c) : Cardinality({f \in LineEnds(c) : f <= e}) = k
Line(c, k) == SubSeq(c, IF k = 1 THEN 1 ELSE End(c, k - 1) + 1, End(c, k) - 1)
Lines(c) == [k \in 1..LineCount(c) |-> Line(c, k)]

\* split('\n'): the last piece may be empty
Pieces(c) == Lines(c) \o (IF c = <<>> \/ c[Len(c)] = "n" THEN << <<>> >> ELSE <<>>)

Joined(ls) ==
    LET upTo[k \in 0..Len(ls)] ==
          IF k = 0 THEN <<>>
          ELSE IF k = 1 THEN ls[1] ELSE upTo[k - 1] \o <<"n">> \o ls[k]
    IN upTo[Len(ls)]

----------------------------------------------------------------------------
(* Calls.                                                                  *)

\* A call of tool op: what it answers, and the files it leaves.
Call(op, kind, p, new) ==
    /\ calls < MaxCalls /\ calls' = calls + 1
    /\ \A q \in Paths : new[q] = Missing \/ Len(new[q]) <= MaxLength
    /\ before' = files /\ files' = new
    /\ answer' = Answer(op, kind, p, {}, FALSE)
    /\ UNCHANGED <<temp, stored, posted>>

InWorkspace(p) == p \in Paths
Exists(p) == InWorkspace(p) /\ files[p] # Missing

Refused(op, p) == Call(op, "error", p, files)

\* The file is opened for writing or not.  What is written is not checked: the disk may
\* hold a part of it only, and the answer is the same.
Written(op, p, c) ==
    \/ Refused(op, p)
    \/ \E n \in {0, Len(c)} : Call(op, "ok", p, [files EXCEPT ![p] = SubSeq(c, 1, n)])

CreateFile(p, c) ==
    \/ ~InWorkspace(p) /\ Refused("create_file", p)
    \/ InWorkspace(p) /\ Written("create_file", p, c)

ReplaceInFile(p, t, r) ==
    LET count == Cardinality(Occurrences(t, files[p])) IN
    \/ ~Exists(p) /\ Refused("replace_in_file", p)
    \/ Exists(p) /\ count = 0 /\ Refused("replace_in_file", p)
    \/ Exists(p) /\ count > 1 /\ Call("replace_in_file", "warning", p, files)
    \/ /\ Exists(p) /\ count = 1
       /\ Written("replace_in_file", p, ReplaceAll(files[p], t, r))

\* Every target must be found once in the file as it was read; the replacements are
\* then made one after the other, each in what the ones before it left.
Replaceable(c, reps) == \A i \in DOMAIN reps : Cardinality(Occurrences(reps[i][1], c)) = 1
MultiReplaced(c, reps) ==
    LET after[i \in 0..Len(reps)] ==
          IF i = 0 THEN c ELSE ReplaceAll(after[i - 1], reps[i][1], reps[i][2])
    IN after[Len(reps)]

MultiReplaceInFile(p, reps) ==
    LET op == "multi_replace_in_file" IN
    \/ ~Exists(p) /\ Refused(op, p)
    \/ Exists(p) /\ ~Replaceable(files[p], reps) /\ Refused(op, p)
    \/ Exists(p) /\ Replaceable(files[p], reps) /\ Written(op, p, MultiReplaced(files[p], reps))

\* The lines are joined by newlines: a final newline is lost.
Inserted(c, at, new) ==
    Joined(SubSeq(Lines(c), 1, at) \o Pieces(new) \o SubSeq(Lines(c), at + 1, LineCount(c)))

InsertContent(p, at, new) ==
    \/ ~(Exists(p) /\ at <= LineCount(files[p])) /\ Refused("insert_content", p)
    \/ /\ Exists(p) /\ at <= LineCount(files[p])
       /\ Written("insert_content", p, Inserted(files[p], at, new))

DeleteFile(p) ==
    \/ Refused("delete_file", p)
    \/ Exists(p) /\ Call("delete_file", "ok", p, [files EXCEPT ![p] = Missing])

----------------------------------------------------------------------------
(* PatchTool::execute.  A patch is a sequence of sections                    *)
(* [kind, path, text]; each is applied when its header is read.  A section     *)
(* that fails is passed over; a path that is not in the workspace ends the     *)
(* patch, with what was applied before.  "update" changes nothing.            *)

Section(kind, p, text) == [kind |-> kind, path |-> p, text |-> text]

\* the files after a section, file being the path of the section before
Applied(fs, file, s) ==
    CASE s.kind = "add" -> [fs EXCEPT ![s.path] = s.text]
      [] s.kind = "delete" -> [fs EXCEPT ![s.path] = Missing]
      [] s.kind = "move" /\ file \in Paths /\ fs[file] # Missing /\ fs[s.path] = Missing ->
            [fs EXCEPT ![s.path] = fs[file], ![file] = Missing]
      [] OTHER -> fs

\* [files, file, changed, ok] after k sections
PatchResult(sections) ==
    LET after[k \in 0..Len(sections)] ==
          IF k = 0 THEN [files |-> files, file |-> "", changed |-> 0, ok |-> TRUE]
          ELSE LET done == after[k - 1]
                   s == sections[k]
                   fs == Applied(done.files, done.file, s)
                   hit == \/ s.kind = "add"
                          \/ s.kind \in {"delete", "move"} /\ fs # done.files
               IN IF ~done.ok THEN done
                  ELSE IF ~InWorkspace(s.path)
                         THEN IF s.kind = "move" /\ done.file = "" THEN done
                              ELSE [done EXCEPT !.ok = FALSE]
                  ELSE [files |-> fs, ok |-> TRUE,
                        file |-> IF s.kind = "move" THEN done.file ELSE s.path,
                        changed |-> done.changed + IF hit THEN 1 ELSE 0]
    IN after[Len(sections)]

ApplyPatch(sections) ==
    LET result == PatchResult(sections) IN
    Call("apply_patch",
         IF ~result.ok THEN "error" ELSE IF result.changed = 0 THEN "nothing" ELSE "ok",
         "", result.files)

----------------------------------------------------------------------------
(* Reading.                                                                *)

Matching(t) ==
    UNION {{<<p, k>> : k \in {j \in 1..LineCount(files[p]) :
                                 Occurrences(t, Line(files[p], j)) # {}}} :
           p \in {q \in Paths : files[q] # Missing}}
Named == {<<p, 0>> : p \in {q \in Paths : files[q] # Missing}}
Found(op, t) == IF op = "grep_search" THEN Matching(t) ELSE Named

Cut(shown) == Cardinality(shown) >= MaxMatches

\* grepSearch, listDirectory and findByName: what is found in the order of the directory,
\* up to a limit of each tool.
Search(op, t) ==
    /\ calls < MaxCalls /\ calls' = calls + 1
    /\ LET found == Found(op, t) IN
       \E shown \in kSubset(IF Cardinality(found) < MaxMatches THEN Cardinality(found)
                                                              ELSE MaxMatches, found) :
          answer' = [Answer(op, "ok", "", shown, Cut(shown)) EXCEPT !.text = t]
    /\ before' = files
    /\ UNCHANGED <<files, temp, stored, posted>>

ReadFileLines(p, from, to) ==
    /\ calls < MaxCalls /\ calls' = calls + 1
    /\ answer' =
         IF ~Exists(p) \/ from > LineCount(files[p])
           THEN Answer("read_file_lines", "error", p, {}, FALSE)
           ELSE Answer("read_file_lines", "ok", p,
                       {<<p, k>> : k \in {j \in 1..LineCount(files[p]) : from <= j /\ j <= to}},
                       FALSE)
    /\ before' = files
    /\ UNCHANGED <<files, temp, stored, posted>>

\* isOkResult, by which a result counts as a success: everything that does not begin with
\* an error is one, a warning and a patch without effect too.
OkResult(a) == a.kind # "error"

----------------------------------------------------------------------------
(* Sending a file.                                                         *)

SendFile(f) ==
    /\ calls < MaxCalls /\ calls' = calls + 1
    /\ f \in Sent \ (temp \cup stored) /\ \A m \in posted : m.file # f
    /\ temp' = temp \cup {f}
    /\ answer' = Answer("send_file", "ok", f, {}, FALSE)
    /\ before' = files
    /\ UNCHANGED <<files, stored, posted>>

\* handleToolPersistence: the file is renamed into the directory of the session, and
\* stays where it is if that fails.
Place(moved) == IF moved THEN "session" ELSE "temp"

ToolEvent(f) ==
    /\ f \in temp
    /\ \E moved \in BOOLEAN :
          /\ temp' = IF moved THEN temp \ {f} ELSE temp
          /\ stored' = IF moved THEN stored \cup {f} ELSE stored
          /\ posted' = posted \cup {[file |-> f, place |-> Place(moved)]}
    /\ answer.op = "send_file" /\ answer.path = f
    /\ answer' = Answer("", "ok", "", {}, FALSE)
    /\ UNCHANGED <<files, calls, before>>

\* removeSessionAs drops the messages; nothing ever removes the files of a session.
RemoveSession ==
    /\ posted # {} /\ posted' = {}
    /\ UNCHANGED <<files, answer, calls, temp, stored, before>>

\* the user or another program
ExternalEdit(p, c) ==
    /\ calls < MaxCalls
    /\ files[p] # c
    /\ files' = [files EXCEPT ![p] = c] /\ before' = files'
    /\ answer' = Answer("", "ok", "", {}, FALSE)
    /\ UNCHANGED <<calls, temp, stored, posted>>

----------------------------------------------------------------------------

Next ==
    \/ \E p \in Paths \cup Outside :
          \/ \E c \in Texts : CreateFile(p, c)
          \/ \E t \in Fragments, r \in Texts : ReplaceInFile(p, t, r)
          \/ \E reps \in Replacements : MultiReplaceInFile(p, reps)
          \/ \E at \in 0..2, c \in Texts : InsertContent(p, at, c)
          \/ DeleteFile(p)
          \/ \E from \in 1..2, to \in 1..2 : ReadFileLines(p, from, to)
    \/ \E sections \in Patches : ApplyPatch(sections)
    \/ \E op \in {"list_directory", "find_by_name"} : Search(op, <<>>)
    \/ \E t \in Fragments : Search("grep_search", t)
    \/ \E f \in Sent : SendFile(f) \/ ToolEvent(f)
    \/ RemoveSession
    \/ \E p \in Paths, c \in Texts \cup {Missing} : ExternalEdit(p, c)

Spec == Init /\ [][Next]_vars

----------------------------------------------------------------------------

\* A file tool that answers an error has left every file of the workspace as it was: a
\* replacement of several places is made as a whole or not at all (the check of all targets
\* in multiReplaceInFile), and a line number past the end is refused before the file is
\* truncated.  A patch is different: the sections before the one that is refused stay.
RefusedUnchanged ==
    answer.kind = "error" /\ answer.op # "apply_patch" => files = before

\* After an insertion all lines the file had are there, in their order, whatever its last
\* line ends with and wherever the new ones went (unless the disk kept nothing).
RestKept ==
    answer.op = "insert_content" /\ answer.kind = "ok" /\ files[answer.path] # <<>> =>
        LET old == Lines(before[answer.path])
            new == Pieces(files[answer.path])
        IN \E k \in 0..Len(old) :
              /\ SubSeq(new, 1, k) = SubSeq(old, 1, k)
              /\ Len(new) >= Len(old)
              /\ SubSeq(new, Len(new) - (Len(old) - k) + 1, Len(new)) = SubSeq(old, k + 1, Len(old))

\* A search that does not say its list was cut has listed every line, or file, it looks for.
NothingMissed ==
    answer.op \in {"grep_search", "list_directory", "find_by_name"} /\ ~answer.cut =>
        answer.shown = Found(answer.op, answer.text)

\* The file a message of the session names is there as long as the message is, whether
\* it could be moved into the session or not.
FileShown == \A m \in posted : m.file \in IF m.place = "session" THEN stored ELSE temp

\* The two below do not hold.  A result that counts as a success ("[OK]") has done
\* something: not so for a warning, or for a patch that has no effect or only updates.
OkMeansDone == answer.op \in {"replace_in_file", "apply_patch"} /\ OkResult(answer)
                 => answer.kind = "ok"
=============================================================================
