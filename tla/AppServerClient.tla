---------------------------- MODULE AppServerClient ----------------------------
(***************************************************************************)
(* CodexAppServerClient, which speaks JSON-RPC with `codex app-server` over    *)
(* its standard input and output, and the probe of TmAgentCli, which starts    *)
(* the server and shakes hands with it.                                      *)
(*                                                                         *)
(* What the server writes arrives in pieces that need not be lines.  A line    *)
(* is a record: its kind, and the id of the request it answers.  The server    *)
(* may write anything, end or crash at any time; a wait for it to end still     *)
(* reads what it wrote.  Threads and turns are in Teammates,                   *)
(* DelegateScheduler and Terminals.                                          *)
(***************************************************************************)
EXTENDS Naturals, Sequences, FiniteSets

CONSTANTS
    MaxLines,   \* bound: lines the server writes
    MaxStarts   \* bound: starts of the server by one client

VARIABLES
    process,    \* "off", "running"
    ended,      \* starts so far
    written,    \* lines the server wrote, by this start
    pipe,       \* pieces that were not read: [line, part]
    buffer,     \* m_stdoutBuffer
    handled,    \* lines handled, by this start
    nextId,     \* m_nextRequestId
    ready,      \* m_ready
    probe       \* the probe's loop, verdict and result

server == <<process, ended, written>>
client == <<buffer, handled, nextId, ready>>
vars == <<server, pipe, client, probe>>

Kinds == {"response", "error", "other", "junk"}
Lines == [kind : Kinds, id : 0..MaxStarts]
\* Each line is written whole, or its head and later its tail.
Parts == {"whole", "head", "tail"}
NoId == 0

TypeOK ==
    /\ process \in {"off", "running"} /\ ended \in 0..MaxStarts
    /\ written \in Seq(Lines) /\ handled \in Seq(Lines)
    /\ pipe \in Seq([line : Lines, part : Parts])
    /\ buffer \in Seq([line : Lines, part : Parts])
    /\ nextId \in 1..2 /\ ready \in BOOLEAN
    /\ probe.loop \in {"idle", "waiting", "left", "printed"}
    /\ probe.id \in 0..1 /\ probe.success \in BOOLEAN
    /\ probe.reason \in {"none", "timeout", "transport", "refused"}

NoProbe == [loop |-> "idle", id |-> NoId, success |-> FALSE, reason |-> "none"]
Init ==
    /\ process = "off" /\ ended = 0 /\ written = <<>> /\ pipe = <<>>
    /\ buffer = <<>> /\ handled = <<>> /\ nextId = 1 /\ ready = FALSE
    /\ probe = NoProbe

----------------------------------------------------------------------------
(* What a line does to the probe, whose handlers stay connected until it       *)
(* prints.                                                                   *)

\* The first reason stays, except that the server refuses later.
Left(p) == IF p.loop = "waiting" THEN [p EXCEPT !.loop = "left"] ELSE p
TransportError(p) ==
    Left(IF p.reason = "none" THEN [p EXCEPT !.reason = "transport"] ELSE p)

\* handleJsonRpcLine: an answer counts when it is for the request of the probe.
\* Mutant of Mine: every answer counts.
MineAny(p, line) == TRUE
Mine(p, line) == p.id # NoId /\ line.id = p.id
Heard(p, lines, kind) == \E k \in DOMAIN lines : lines[k].kind = kind /\ Mine(p, lines[k])

\* What the lines of one read do, whatever their order: an answer is kept, a refusal
\* outlasts any other reason.
Told(p, lines) ==
    LET q == IF \E k \in DOMAIN lines : lines[k].kind = "junk" THEN TransportError(p) ELSE p
        yes == Heard(p, lines, "response")
        no == Heard(p, lines, "error")
    IN  IF yes \/ no
        THEN Left([q EXCEPT !.success = @ \/ yes, !.reason = IF no THEN "refused" ELSE @])
        ELSE q

\* drainBufferedLines: whole lines are taken off the buffer until none is left, in their
\* order, each where its last piece is.  A tail follows its head.
Complete(b) == {k \in DOMAIN b : b[k].part # "head"}
Nth(S, r) == CHOOSE k \in S : Cardinality({j \in S : j < k}) = r - 1
Drained(b) == [r \in 1..Cardinality(Complete(b)) |-> b[Nth(Complete(b), r)].line]
\* A head that ends the buffer stays in it.
Cut(b) == b # <<>> /\ b[Len(b)].part = "head"
Rest(b) == IF Cut(b) THEN <<b[Len(b)]>> ELSE <<>>

\* The handshake is complete when the probe takes the answer.
Confirms(p, lines) == ~p.success /\ Told(p, lines).success

\* readyRead with the first n pieces of the pipe.
Take(n) ==
    LET b == buffer \o SubSeq(pipe, 1, n)
        lines == Drained(b)
    IN  /\ buffer' = Rest(b)
        /\ pipe' = SubSeq(pipe, n + 1, Len(pipe))
        /\ handled' = handled \o lines
        /\ probe' = Told(probe, lines)
        /\ ready' = (ready \/ Confirms(probe, lines))

----------------------------------------------------------------------------
(* The client.                                                             *)

\* start: buffers and ids begin anew.  A program that cannot be started is reported twice,
\* by the process and by start itself; else the probe asks to initialize.
Start ==
    /\ process = "off" /\ ended < MaxStarts /\ probe.loop \in {"idle", "printed"}
    /\ ended' = ended + 1
    /\ buffer' = <<>> /\ pipe' = <<>> /\ handled' = <<>> /\ written' = <<>> /\ ready' = FALSE
    /\ LET p == [NoProbe EXCEPT !.loop = "waiting"] IN
       \/ /\ process' = "running" /\ nextId' = 2
          /\ probe' = [p EXCEPT !.id = 1]
       \/ /\ process' = "off" /\ nextId' = 1
          /\ probe' = TransportError(TransportError(p))

\* The server writes a line, whole or in two pieces; nothing comes between the two.
Writes(line) ==
    /\ process = "running" /\ Len(written) < MaxLines
    /\ ~Cut(buffer \o pipe)
    /\ written' = Append(written, line)
    /\ \E part \in {"whole", "head"} : pipe' = Append(pipe, [line |-> line, part |-> part])
    /\ UNCHANGED <<process, ended, client, probe>>
WritesTail ==
    LET all == buffer \o pipe IN
    /\ process = "running" /\ Cut(all)
    /\ pipe' = Append(pipe, [line |-> all[Len(all)].line, part |-> "tail"])
    /\ UNCHANGED <<server, client, probe>>

\* onReadyReadStandardOutput
Read ==
    /\ process = "running"
    /\ \E n \in 1..Len(pipe) : Take(n)
    /\ UNCHANGED <<server, nextId>>

Stopped(b) == ready' = FALSE

\* The server ends: what it wrote is read first.  A crash is an error of the transport; the
\* end alone is not heard by the probe.  onProcessFinished
Ends(crash) ==
    LET b == buffer \o pipe
        lines == Drained(b)
        told == Told(probe, lines)
    IN  /\ process' = "off"
        /\ pipe' = <<>> /\ buffer' = Rest(b) /\ handled' = handled \o lines
        /\ Stopped(Confirms(probe, lines))
        /\ probe' = IF crash THEN TransportError(told) ELSE told
ServerEnds(crash) ==
    /\ process = "running" /\ Ends(crash)
    /\ UNCHANGED <<ended, written, nextId>>

----------------------------------------------------------------------------
(* The probe.                                                              *)

TimesOut == probe.loop = "waiting"
TimeUp ==
    /\ TimesOut
    /\ probe' = [probe EXCEPT !.loop = "left", !.reason = "timeout"]
    /\ UNCHANGED <<server, pipe, client>>

\* shutdown: the end is asked for and waited for, and the lines that arrive meanwhile are
\* handled; killed, the server has crashed.
Shutdown ==
    /\ probe.loop = "left" /\ process = "running"
    /\ \E crash \in BOOLEAN : Ends(crash)
    /\ UNCHANGED <<ended, written, nextId>>

PrintResult ==
    /\ probe.loop = "left" /\ process = "off"
    /\ probe' = [probe EXCEPT !.loop = "printed"]
    /\ UNCHANGED <<server, pipe, client>>

Next ==
    \/ Start \/ Read \/ WritesTail
    \/ \E line \in Lines : Writes(line)
    \/ \E crash \in BOOLEAN : ServerEnds(crash)
    \/ TimeUp \/ Shutdown \/ PrintResult

\* The timer fires, the wait for the end is bounded, and the program goes on.  The server
\* owes nothing.
FairSpec == Init /\ [][Next]_vars /\ WF_vars(TimeUp) /\ WF_vars(Shutdown) /\ WF_vars(PrintResult)

----------------------------------------------------------------------------
(* Properties.                                                             *)

\* However the output is cut into pieces: the lines that were handled are the first that
\* were written, in order, and of the rest none has arrived whole.
LinesInOrder ==
    /\ Len(handled) <= Len(written) /\ handled = SubSeq(written, 1, Len(handled))
    /\ Complete(buffer) = {}
    /\ process = "running" => Len(handled) + Cardinality(Complete(pipe))
           + Len(Rest(buffer \o pipe)) = Len(written)

\* A client is ready only while its server runs, and after the server answered the request
\* of this start; a probe says success only then, and gives a reason otherwise.
HandshakeTrue ==
    /\ ready => process = "running"
    /\ ready \/ probe.success =>
           \E k \in DOMAIN handled : handled[k] = [kind |-> "response", id |-> probe.id]
    /\ probe.loop \in {"left", "printed"} => probe.success \/ probe.reason # "none"

\* What must come to an end: each probe prints its result, also when the server says
\* nothing or ends without a word.
Waiting == probe.loop \in {"waiting", "left"}
=============================================================================
