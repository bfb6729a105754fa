------------------------------ MODULE SearchTools ------------------------------
(***************************************************************************)
(* What the tools memory_search (MemoryTool) and session_search              *)
(* (SessionSearchTool) answer.                                             *)
(*                                                                         *)
(* How a query fits a line or a message is a field of it.  A line carries    *)
(* its two scores in percent: what FTS5's rank is worth, and how near it is  *)
(* to the query by the cosine of the vectors, 0 below                        *)
(* kSemanticFallbackThreshold.  That the indexes are up to date is in        *)
(* LongTermMemory; here either they or the documents answer.                 *)
(***************************************************************************)
EXTENDS Integers, Sequences, SequencesExt

CONSTANTS
    Agents,     \* agents with a memory directory, a sequence in name order
    Sessions,   \* sessions
    Member(_, _), \* Member(s, a): the agent owns the session or takes part in it
    Written,    \* the lines that may be written
    Spoken,     \* the messages that may be said
    MaxResults, \* values of max_results
    Widen,      \* candidates for each result (3)
    AtLeast,    \* candidates an agent gives at least (12)
    MaxItems    \* bound: lines and messages

VARIABLES
    notes,      \* agent -> document -> its lines
    said,       \* the messages, by time
    answer      \* what the last search answered, or NoAnswer

vars == <<notes, said, answer>>

-----------------------------------------------------------------------------
\* memorySourceFiles: memory.md, user_view.md and the daily documents by name.
Docs == <<"memory", "view", "old", "today">>

\* fit: the query in whole words, its words apart, inside a word, or not at all.
Line == [doc : ToSet(Docs), fit : {"word", "apart", "inside", "no"},
         rank : 51..100, near : {0} \cup 18..100, extra : -20..24]

Message == [of : Sessions, type : {"text", "tool"},
            status : {"completed", "interrupted"}, fits : BOOLEAN]

NoAnswer == [tool |-> "none"]

\* A hit is a place in a document of an agent, or of a message in said.
Place(a, d, n) == [agent |-> a, doc |-> d, no |-> n]
LineAt(h) == notes[h.agent][h.doc][h.no]

Least(a, b) == IF a < b THEN a ELSE b
Most(a, b) == IF a > b THEN a ELSE b
Front_(s, n) == SubSeq(s, 1, Least(n, Len(s)))

TypeOK ==
    /\ \A a \in ToSet(Agents), d \in ToSet(Docs) : notes[a][d] \in Seq(Line)
    /\ said \in Seq(Message)
    /\ answer.tool \in {"none", "memory", "session"}

Init ==
    /\ notes = [a \in ToSet(Agents) |-> [d \in ToSet(Docs) |-> <<>>]]
    /\ said = <<>>
    /\ answer = NoAnswer

LinesOf(a) == FoldLeft(LAMBDA n, d : n + Len(notes[a][d]), 0, Docs)

\* A search depends on no earlier one: the next is asked of other contents.
Room == FoldLeft(LAMBDA n, a : n + LinesOf(a), Len(said), Agents) < MaxItems
Unasked == answer = NoAnswer

Write(a, line) ==
    /\ Room
    /\ notes' = [notes EXCEPT ![a][line.doc] = Append(@, line)]
    /\ answer' = NoAnswer
    /\ UNCHANGED said

Say(x) ==
    /\ Room
    /\ said' = Append(said, x)
    /\ answer' = NoAnswer
    /\ UNCHANGED notes

-----------------------------------------------------------------------------
(* memory_search.                                                          *)

\* rebuildAgentIndex, searchWithMarkdown: the places in the order they are read.
Places(a, daily) ==
    LET docs == IF daily THEN Docs ELSE SubSeq(Docs, 1, 2) IN
    FlattenSeq([i \in DOMAIN docs |->
        [n \in DOMAIN notes[a][docs[i]] |-> Place(a, docs[i], n)]])

SourceBonus(d) ==
    CASE d = "memory" -> 26 [] d = "view" -> 18
      [] d = "today" -> 8 + 18 [] d = "old" -> 8

\* textScoreFromSqliteRank, textScoreFromSnippetMatch, and the constant of the
\* semantic fallback.
TextScore(how, line) ==
    CASE how = "fts" -> line.rank
      [] how = "meaning" -> 18
      [] OTHER -> IF line.fit \in {"word", "inside"} THEN 100 ELSE 65

\* finalScoreForHit; only the SQLite search knows the vectors.
Score(how, h) ==
    LET line == LineAt(h)
        text == TextScore(how, line)
        near == IF how = "markdown" THEN 0 ELSE line.near
    IN (IF near > 0 THEN (72 * text + 28 * near) \div 100 ELSE text)
       + SourceBonus(h.doc) + line.extra

\* Relative paths as strings compare.
PathRank == [memory |-> 1, old |-> 2, today |-> 3, view |-> 4]

\* sortAndTrimHits; a place is read once, so that nothing is there twice.
SortedAndTrimmed(hits, max) ==
    Front_(SortSeq(hits, LAMBDA x, y :
        \/ x.score > y.score
        \/ x.score = y.score /\ PathRank[x.at.doc] < PathRank[y.at.doc]
        \/ x.score = y.score /\ x.at.doc = y.at.doc /\ x.at.no < y.at.no), max)

Scored(how, places) ==
    [i \in DOMAIN places |-> [at |-> places[i], score |-> Score(how, places[i])]]

\* candidateLimitPerAgent; its upper bound of 48 is out of reach here.
Candidates(max) == Most(Widen * max, AtLeast)

Fits(how, h) ==
    LET fit == LineAt(h).fit IN
    CASE how = "fts" -> fit \in {"word", "apart"}
      [] how = "like" -> fit # "no"
      [] how = "markdown" -> fit \in {"word", "inside"}
      [] how = "meaning" -> LineAt(h).near > 0

\* How searchWithSqlite finds what it answers: LIKE only without a match of FTS5,
\* the vectors only without either; these ask all lines, include_daily or not.
SqliteWay(a, daily) ==
    LET some(how) == \E h \in ToSet(Places(a, daily)) : Fits(how, h) IN
    IF some("fts") THEN "fts" ELSE IF some("like") THEN "like" ELSE "meaning"

\* The order in which the statement of each way returns its rows.
Sooner(how, x, y) ==
    \/ how = "fts" /\ LineAt(x).rank > LineAt(y).rank
    \/ how = "fts" /\ LineAt(x).rank = LineAt(y).rank /\ x.no < y.no
    \/ how = "like" /\ x.no < y.no
    \/ how = "meaning" /\ LineAt(x).near > LineAt(y).near

SqliteHits(a, daily, limit) ==
    LET how == SqliteWay(a, daily)
        fit == SelectSeq(Places(a, daily \/ how = "meaning"), LAMBDA h : Fits(how, h))
    IN Scored(how, Front_(SortSeq(fit, LAMBDA x, y : Sooner(how, x, y)), limit))

\* searchWithMarkdown: a document is begun unless there are enough hits.
MarkdownHits(a, daily, limit) ==
    LET docs == IF daily THEN Docs ELSE SubSeq(Docs, 1, 2)
        found(d) == SelectSeq([n \in DOMAIN notes[a][d] |-> Place(a, d, n)],
                              LAMBDA h : Fits("markdown", h))
        all == FoldLeft(LAMBDA hits, d : IF Len(hits) >= limit THEN hits ELSE hits \o found(d),
                        <<>>, docs)
    IN SortedAndTrimmed(Scored("markdown", all), limit)

\* resolveTargetAgents.
TargetAgents(scope, a) == IF scope = "all" THEN Agents ELSE <<a>>

\* sqlite: the agents whose index could be used.
MemorySearch(scope, self, daily, max, sqlite) ==
    /\ Unasked
    /\ LET hits(a) == IF a \in sqlite THEN SqliteHits(a, daily, Candidates(max))
                      ELSE MarkdownHits(a, daily, Candidates(max))
           targets == TargetAgents(scope, self)
           all == FlattenSeq([i \in DOMAIN targets |-> hits(targets[i])])
       IN answer' = [tool |-> "memory", scope |-> scope, self |-> self, daily |-> daily,
                     max |-> max, sqlite |-> sqlite, hits |-> SortedAndTrimmed(all, max)]
    /\ UNCHANGED <<notes, said>>

-----------------------------------------------------------------------------
(* session_search.                                                         *)

\* resolveTargetSessions, resolveTargetSessionsFromDb.
TargetSessions(scope, a) == { s \in Sessions : scope = "all" \/ Member(s, a) }

\* What a failed or stopped turn left is not searched, tool messages on request.
Readable(x, tools) == x.status = "completed" /\ (x.type = "text" \/ tools)

\* scanSessionMessages, scanSessionMessagesFromDb: the hits of a session by time.
Scan(s, tools) ==
    SelectSeq([i \in DOMAIN said |-> i], LAMBDA i :
        said[i].of = s /\ said[i].fits /\ Readable(said[i], tools))

\* The sessions are scanned until there are enough hits.
Gathered(order, tools, max) ==
    FoldLeft(LAMBDA hits, s : Front_(hits \o Scan(s, tools), max), <<>>, order)

\* The database returns the sessions by an activity that only a save records, the
\* directory by name: any order of the targets.
SessionSearch(scope, self, tools, max, order) ==
    /\ Unasked
    /\ ToSet(order) = TargetSessions(scope, self) /\ IsInjective(order)
    /\ answer' = [tool |-> "session", scope |-> scope, self |-> self, tools |-> tools,
                  max |-> max,
                  hits |-> SortSeq(Gathered(order, tools, max), LAMBDA i, j : i > j)]
    /\ UNCHANGED <<notes, said>>

Orders == UNION { [1..n -> Sessions] : n \in 0..Len(Agents) + 1 }

Next ==
    \/ \E a \in ToSet(Agents), line \in Written : Write(a, line)
    \/ \E x \in Spoken : Say(x)
    \/ \E a \in ToSet(Agents), scope \in {"self", "all"}, max \in MaxResults :
        \/ \E daily \in BOOLEAN, sqlite \in SUBSET ToSet(Agents) :
               MemorySearch(scope, a, daily, max, sqlite)
        \/ \E tools \in BOOLEAN, order \in Orders : SessionSearch(scope, a, tools, max, order)

Spec == Init /\ [][Next]_vars

-----------------------------------------------------------------------------
(* Properties.                                                             *)

Ways(q, a) == IF a \in q.sqlite THEN SqliteWay(a, q.daily) ELSE "markdown"

\* What memory_search shows are the best scores of the lines found, the best
\* first: the ranks of FTS5, which cut the list before sources and vectors are
\* weighed, lose none while an agent has no more matches than candidates.
BestShown ==
    answer.tool = "memory" =>
        LET shown == answer.hits
            found(a) == { h \in ToSet(Places(a, answer.daily)) : Fits(Ways(answer, a), h) }
            targets == ToSet(TargetAgents(answer.scope, answer.self))
        IN /\ \A i, j \in DOMAIN shown : i < j => shown[i].score >= shown[j].score
           /\ (\A a \in targets : Len(Places(a, TRUE)) <= Most(Widen * answer.max, AtLeast)) =>
                \A a \in targets : \A h \in found(a) :
                    \/ \E i \in DOMAIN shown : shown[i].at = h
                    \/ /\ Len(shown) = answer.max
                       /\ shown[answer.max].score >= Score(Ways(answer, a), h)

\* session_search shows every message that fits, the newest first, as long as
\* max_results has room for them, and none of a failed or stopped turn.
AllFound ==
    answer.tool = "session" =>
        LET fits == { i \in DOMAIN said :
                        /\ said[i].fits /\ said[i].status = "completed"
                        /\ said[i].of \in TargetSessions(answer.scope, answer.self)
                        /\ said[i].type = "text" \/ answer.tools }
            shown == answer.hits
        IN /\ ToSet(shown) \subseteq fits
           /\ \A i, j \in DOMAIN shown : i < j => shown[i] > shown[j]
           /\ Len(shown) < answer.max => ToSet(shown) = fits

SearchTrue == BestShown /\ AllFound

=============================================================================
