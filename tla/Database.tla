------------------------------ MODULE Database ------------------------------
(***************************************************************************)
(* The SQLite file at the level of its statements: how a process opens it  *)
(* and brings its tables up to date, and what it reads and writes next     *)
(* (DatabaseManager, ChatPersistenceService, ApplicationServices).         *)
(*                                                                         *)
(* Desktop and command line open the same file, at any time, and each may  *)
(* be killed between two statements.  A statement outside a transaction is *)
(* its own transaction; the statements of one are seen by the others when  *)
(* it commits, and a second writer waits for the first.  A statement fails *)
(* here only for what the other process did; disk errors are left out.     *)
(*                                                                         *)
(* Of the tables, three are told apart: the messages, which got a column   *)
(* in version 3, the events, which came with version 2, and the versions.  *)
(* ApplicationServices ignores whether opening succeeded: a process whose  *)
(* migration failed goes on without a database.                            *)
(***************************************************************************)
EXTENDS Naturals, Sequences, SequencesExt

CONSTANTS
    Processes,      \* processes that may open the file
    TurnLists,      \* the turns of a session that a save may find waiting
    Tabs,           \* open tabs and the active one, as one value
    LegacyTabs,     \* what the app_state.json of an older version says
    NoTabs,         \* the tabs of a program that never saved any
    NoWriter,       \* no transaction is open
    OldVersions     \* versions the file may be at, 0 when there is none

VARIABLES
    versions,   \* rows of schema_info
    tables,     \* tables the file has
    column,     \* messages has visible_in_chat
    proc,       \* status of each process, statements left, did another migrate beside it
    rows,       \* turn_data of the session's rows of pending_turns, by id
    writer,     \* the open transaction: process, rows it has now, turns left
    whole,      \* (history) the turns saved last
    tabState,   \* the row of app_state for the tabs
    wish,       \* (history) the tabs saved last
    shown       \* the tabs a process with a database read last, and those it should have

vars == <<versions, tables, column, proc, rows, writer, whole, tabState, wish, shown>>

fileVars == <<versions, tables, column>>
useVars == <<rows, writer, whole, tabState, wish, shown>>

CurrentVersion == 3
AllTables == {"messages", "events", "schema_info"}

-----------------------------------------------------------------------------
(* Statements.                                                             *)

Do(what) == [do |-> what, arg |-> 0]
Create(table) == [do |-> "create", arg |-> table]
SetVersion(v) == <<Do("clear"), [do |-> "insert", arg |-> v]>>

\* createTables, each IF NOT EXISTS, then the query of the version.
Opening == <<Create("messages"), Create("events"), Create("schema_info"), Do("read")>>

When(b, s) == IF b THEN s ELSE <<>>

\* Mutant of Migration: the version is set before the column is added.
MigrationVersionFirst(v) ==
       When(v < 1, SetVersion(1))
    \o When(v < 2, <<Create("events")>> \o SetVersion(2))
    \o When(v < 3, SetVersion(3) \o <<Do("check")>>)

\* applyMigrations from version v on.
Migration(v) ==
       When(v < 1, SetVersion(1))
    \o When(v < 2, <<Create("events")>> \o SetVersion(2))
    \o When(v < 3, <<Do("check")>> \o SetVersion(3))

Newest(vs) == CHOOSE v \in vs \cup {0} : \A u \in vs : u <= v

\* tableHasColumn: the statement that adds the column, if it is not there.
Checked(has) == When(~has, <<Do("alter")>>)

-----------------------------------------------------------------------------
Opened(p) == proc[p].status \in {"ready", "crippled"}
Initializing(p) == proc[p].status = "opening"

SchemaOf(v) ==
    /\ versions = IF v = 0 THEN {} ELSE {v}
    /\ tables = IF v = 0 THEN {} ELSE IF v = 1 THEN {"messages", "schema_info"} ELSE AllTables
    /\ column = (v = CurrentVersion)

Init ==
    /\ \E v \in OldVersions : SchemaOf(v)
    /\ proc = [p \in Processes |-> [status |-> "off", todo |-> <<>>, beside |-> FALSE]]
    /\ rows = <<>> /\ whole = <<>>
    /\ writer = NoWriter
    /\ tabState = NoTabs /\ wish = NoTabs
    /\ shown = [read |-> NoTabs, due |-> NoTabs]

\* DatabaseManager::initialize.
Start(p) ==
    /\ proc[p].status = "off"
    /\ LET others == {q \in Processes \ {p} : Initializing(q)} IN
       proc' = [q \in Processes |->
                  IF q = p
                  THEN [status |-> "opening", todo |-> Opening, beside |-> others # {}]
                  ELSE [proc[q] EXCEPT !.beside = @ \/ q \in others]]
    /\ UNCHANGED <<fileVars, useVars>>

\* The process goes on with the statements of `more' before those it has left;
\* after the last one the database is ready.
Goes(p, more) ==
    LET todo == more \o Tail(proc[p].todo) IN
    proc' = [proc EXCEPT ![p].todo = todo,
                         ![p].status = IF todo = <<>> THEN "ready" ELSE "opening"]

\* The schema after a statement that writes it.
Written(s) ==
    /\ versions' = CASE s.do = "clear" -> {}
                     [] s.do = "insert" -> versions \cup {s.arg}
                     [] OTHER -> versions
    /\ tables' = IF s.do = "create" THEN tables \cup {s.arg} ELSE tables
    /\ column' = \/ column
                 \/ s.do = "alter"
                 \/ s.do = "create" /\ s.arg = "messages" /\ "messages" \notin tables

\* One statement of createTables or of applyMigrations that succeeds.
Statement(p) ==
    /\ Initializing(p)
    /\ writer = NoWriter \/ Head(proc[p].todo).do \in {"read", "check"}
    /\ LET s == Head(proc[p].todo) IN
       /\ ~(s.do = "alter" /\ column)
       /\ Goes(p, CASE s.do = "read" -> Migration(Newest(versions))
                    [] s.do = "check" -> Checked(column)
                    [] OTHER -> <<>>)
       /\ Written(s)
    /\ UNCHANGED useVars

\* The other process added the column in between: "duplicate column name", and
\* initialize returns false, which nobody looks at.
StatementFails(p) ==
    /\ Initializing(p)
    /\ Head(proc[p].todo).do = "alter" /\ column
    /\ writer = NoWriter
    /\ proc' = [proc EXCEPT ![p].status = "crippled", ![p].todo = <<>>]
    /\ UNCHANGED <<fileVars, useVars>>

\* The process ends or is killed; a transaction it has open is rolled back.
Kill(p) ==
    /\ proc[p].status # "off"
    /\ proc' = [proc EXCEPT ![p].status = "off", ![p].todo = <<>>]
    /\ writer' = IF writer # NoWriter /\ writer.by = p THEN NoWriter ELSE writer
    /\ UNCHANGED <<fileVars, rows, whole, tabState, wish, shown>>

-----------------------------------------------------------------------------
(* pending_turns and app_state.                                            *)

\* What the others see of the rows while a transaction has written `now'.
Seen(now) == rows

\* savePendingTurnsToDb: begin, and the rows of the session are deleted.
SaveTurns(p, turns) ==
    /\ proc[p].status = "ready"
    /\ writer = NoWriter
    /\ writer' = [by |-> p, now |-> <<>>, left |-> turns, turns |-> turns]
    /\ rows' = Seen(<<>>)
    /\ UNCHANGED <<fileVars, proc, whole, tabState, wish, shown>>

InsertTurn ==
    /\ writer # NoWriter /\ writer.left # <<>>
    /\ LET now == Append(writer.now, Head(writer.left)) IN
       /\ writer' = [writer EXCEPT !.now = now, !.left = Tail(@)]
       /\ rows' = Seen(now)
    /\ UNCHANGED <<fileVars, proc, whole, tabState, wish, shown>>

Commit ==
    /\ writer # NoWriter /\ writer.left = <<>>
    /\ rows' = writer.now
    /\ whole' = writer.turns
    /\ writer' = NoWriter
    /\ UNCHANGED <<fileVars, proc, tabState, wish, shown>>

\* saveTabState: without a database nothing is saved.
SaveTabs(p, t) ==
    /\ Opened(p)
    /\ writer = NoWriter
    /\ tabState' = IF proc[p].status = "ready" THEN t ELSE tabState
    /\ wish' = IF proc[p].status = "ready" THEN t ELSE wish
    /\ UNCHANGED <<fileVars, proc, rows, writer, whole, shown>>

\* loadTabState: the row of the database, and the older file while there is none.
SavedTabs == IF tabState = NoTabs THEN LegacyTabs ELSE tabState

\* The tabs of the older file are written to the database, unless they are empty.
LoadTabs(p) ==
    /\ Opened(p)
    /\ writer = NoWriter
    /\ LET ready == proc[p].status = "ready"
           read == IF ready THEN SavedTabs ELSE LegacyTabs
           moves == ready /\ SavedTabs # tabState /\ LegacyTabs # NoTabs IN
       /\ tabState' = IF moves THEN LegacyTabs ELSE tabState
       /\ shown' = IF ready
                   THEN [read |-> read, due |-> IF wish = NoTabs THEN LegacyTabs ELSE wish]
                   ELSE shown
    /\ UNCHANGED <<fileVars, proc, rows, writer, whole, wish>>

Next ==
    \/ \E p \in Processes :
          \/ Start(p) \/ Statement(p) \/ StatementFails(p) \/ Kill(p) \/ LoadTabs(p)
          \/ \E turns \in TurnLists : SaveTurns(p, turns)
          \/ \E t \in Tabs : SaveTabs(p, t)
    \/ InsertTurn \/ Commit

Spec == Init /\ [][Next]_vars

-----------------------------------------------------------------------------
TypeOK ==
    /\ versions \subseteq 1..CurrentVersion
    /\ tables \subseteq AllTables
    /\ column \in BOOLEAN
    /\ \A p \in Processes : proc[p].status \in {"off", "opening", "ready", "crippled"}
    /\ shown.read \in Tabs \cup {LegacyTabs, NoTabs}

\* A file that calls itself current, or that a process works with, has all its
\* tables and the column, wherever processes were killed and however two of
\* them migrated it at once (applyMigrations).
SchemaWhole ==
    CurrentVersion \in versions \/ (\E p \in Processes : proc[p].status = "ready")
        => tables = AllTables /\ column

\* A process is left without a database only if another one opened the file at
\* the same time: whatever a killed one left behind, the next that starts alone
\* brings it up to date (applyMigrations, tableHasColumn).
AloneReady == \A p \in Processes : proc[p].status = "crippled" => proc[p].beside

\* The waiting turns of a session are always those of one save, all of them and
\* in order, wherever a process was killed (savePendingTurnsToDb).
TurnsWhole == rows = whole

\* A start shows the tabs saved last, were they empty, and those of the older
\* version only while none were saved (loadTabState).
TabsLatest == shown.read = shown.due

\* A process that runs has its database (docs: concurrent writers are left to
\* SQLite; ApplicationServices::initialize does not look).
RunsWithDatabase == \A p \in Processes : proc[p].status # "crippled"

-----------------------------------------------------------------------------
(* The inductive invariant.                                                *)

Statements ==
    {Do(what) : what \in {"read", "check", "alter", "clear"}}
        \cup {Create(table) : table \in AllTables}
        \cup {[do |-> "insert", arg |-> v] : v \in 1..CurrentVersion}

\* The statements before the k-th of d create the table, or look for the column.
Makes(d, k, table) == \E i \in 1 .. k - 1 : d[i].do = "create" /\ d[i].arg = table
Adds(d, k) == \E i \in 1 .. k - 1 : d[i].do \in {"check", "alter"}

\* What is not in the file yet, a process that opens it still has to do, and before it
\* calls the file current: the query comes last, and a column is added as soon as it is
\* known to be missing.
TodoSound(d) ==
    /\ d \in Seq(Statements) /\ d # <<>>
    /\ \A table \in AllTables : table \in tables \/ Makes(d, Len(d) + 1, table)
    /\ column \/ Adds(d, Len(d) + 1) \/ d[Len(d)].do = "read"
    /\ \A k \in 1 .. Len(d) :
          /\ d[k].do = "insert" /\ d[k].arg = CurrentVersion =>
                /\ \A table \in AllTables : table \in tables \/ Makes(d, k, table)
                /\ column \/ Adds(d, k)
          /\ d[k].do = "read" => k = Len(d)
          /\ d[k].do = "alter" => k = 1

\* A process that opens the file with nobody beside it is the only one that does, and
\* the column it adds is missing.
AloneSound(p) ==
    Initializing(p) /\ ~proc[p].beside =>
        /\ \A q \in Processes \ {p} : ~Initializing(q)
        /\ Head(proc[p].todo).do = "alter" => ~column

\* A transaction has written the first of its turns and is left with the others.
WriterSound ==
    writer # NoWriter =>
        /\ DOMAIN writer = {"by", "now", "left", "turns"}
        /\ writer = [by |-> writer.by, now |-> writer.now, left |-> writer.left,
                     turns |-> writer.turns]
        /\ Len(writer.turns) = Len(writer.now) + Len(writer.left)
        /\ \A i \in 1 .. Len(writer.turns) :
              writer.turns[i] = IF i <= Len(writer.now) THEN writer.now[i]
                                ELSE writer.left[i - Len(writer.now)]

TabsSound ==
    /\ tabState \in Tabs \cup {LegacyTabs, NoTabs}
    /\ tabState = wish \/ (wish = NoTabs /\ tabState = LegacyTabs)

FileSound ==
    /\ versions \subseteq 1..CurrentVersion /\ tables \subseteq AllTables /\ column \in BOOLEAN
    /\ CurrentVersion \in versions => tables = AllTables /\ column
    /\ \A p \in Processes :
          /\ proc[p].status = "ready" => tables = AllTables /\ column
          /\ Initializing(p) => TodoSound(proc[p].todo)
          /\ AloneSound(p)
          /\ proc[p].status = "crippled" => proc[p].beside

DatabaseSound ==
    /\ proc \in [Processes -> [status : {"off", "opening", "ready", "crippled"},
                               todo : Seq(Statements), beside : BOOLEAN]]
    /\ FileSound /\ WriterSound /\ TabsSound
    /\ rows = whole /\ shown.read = shown.due
    /\ shown.read \in Tabs \cup {LegacyTabs, NoTabs}
=============================================================================
