--------------------------- MODULE TeammatesProofs ---------------------------
(***************************************************************************)
(* Proofs about Teammates, for any mates and any numbers of messages,      *)
(* starts of the app-server and request ids: whatever ends a turn, whoever *)
(* waits for its reply is told.                                            *)
(*                                                                         *)
(* What could fail is that an answer meant for one request is taken for    *)
(* another's, since the ids start anew with each run of the app-server     *)
(* while the entries of the earlier runs stay.  The invariant therefore    *)
(* follows the request for the thread of a mate: it is made once, by the   *)
(* one loop that creates the mate, and its entry is gone when the thread   *)
(* is known, so that a refusal that finds such an entry finds a mate       *)
(* nobody waits for.                                                       *)
(***************************************************************************)
EXTENDS Teammates, TLAPS

\* A mate that waits is busy, and can be reached by what ends its turn.
Waits == \A m \in waiting : /\ status[m] = "busy" /\ Exists(m)
                            /\ m \in Codex => thread[m]

\* A child of a tmagent mate that runs has a message that waits.
Children == \A m \in Mates \ Codex : active[m] # 0 => m \in waiting

\* The loops of createTeammate are those of different codex mates, and one that waits for
\* the server has not made its mate yet.
Loops ==
    /\ \A i \in DOMAIN frames :
          /\ frames[i].mate \in Codex
          /\ frames[i].at = "ready" => phase[frames[i].mate] = "new"
    /\ \A i, j \in DOMAIN frames : i # j => frames[i].mate # frames[j].mate

\* The request for the thread of a mate is made once, and has no entry once it is answered;
\* a turn is the only other request that gets an entry.
Threads ==
    /\ \A r \in pending \cup asked :
          /\ r.mate \in Codex
          /\ r.kind = "thread" => phase[r.mate] # "new"
          /\ r.kind = "turn" => r.turn # 0
    /\ \A r \in pending : r.kind \in {"thread", "turn"}
    /\ \A p, r \in pending \cup asked :
          p.kind = "thread" /\ r.kind = "thread" /\ p.mate = r.mate => p = r
    /\ \A r \in pending : r.kind = "thread" => ~thread[r.mate]
    /\ \A m \in Mates : phase[m] = "new" => ~thread[m]

MateInv == TypeOK /\ Waits /\ Children /\ Loops /\ Threads /\ spare \subseteq Codex

-----------------------------------------------------------------------------
(* Types.                                                                  *)

Frame == [mate : Mates, at : {"ready", "thread"}, id : 0 .. MaxIds, over : BOOLEAN]

\* TypeOK without the loops.
Plain ==
    /\ phase \in [Mates -> {"new", "creating", "live", "gone"}]
    /\ status \in [Mates -> {"idle", "busy", "error"}]
    /\ thread \in [Mates -> BOOLEAN] /\ timer \in [Mates -> BOOLEAN]
    /\ active \in [Mates -> 0 .. MaxSends] /\ sends \in [Mates -> 0 .. MaxSends]
    /\ server \in {"down", "up", "ready"} /\ starts \in 0 .. MaxStarts
    /\ nextId \in 1 .. (MaxIds + 1)
    /\ pending \subseteq Requests /\ asked \subseteq Requests
    /\ running \subseteq [mate : Codex, turn : 1 .. MaxSends]
    /\ cleanup \subseteq Temporary
    /\ waiting \subseteq Mates /\ spare \subseteq Mates
    /\ undefined \in BOOLEAN

LEMMA TypeParts ==
    /\ TypeOK <=> Plain /\ frames \in Seq(Frame)
    /\ TypeOK' <=> Plain' /\ frames' \in Seq(Frame)
BY DEF TypeOK, Plain, Frame

LEMMA Bounds ==
    /\ MaxIds \in Nat /\ MaxIds # 0 /\ MaxSends \in Nat /\ MaxStarts \in Nat
    /\ 0 \in 0 .. MaxSends /\ 0 \in 0 .. MaxStarts /\ 0 \in 0 .. MaxIds
    /\ 1 \in 1 .. MaxIds /\ 1 \in 1 .. (MaxIds + 1) /\ 2 \in 1 .. (MaxIds + 1)
    /\ \A n \in 0 .. MaxSends : n < MaxSends =>
          n + 1 \in 1 .. MaxSends /\ n + 1 \in 0 .. MaxSends
    /\ \A n \in 1 .. MaxSends : n \in 0 .. MaxSends
    /\ \A n \in 0 .. MaxSends : n # 0 => n \in 1 .. MaxSends
    /\ \A n \in 0 .. MaxStarts : n < MaxStarts => n + 1 \in 0 .. MaxStarts
    /\ \A n \in 1 .. (MaxIds + 1) : n <= MaxIds =>
          n \in 1 .. MaxIds /\ n \in 0 .. MaxIds /\ n + 1 \in 1 .. (MaxIds + 1)
    /\ Codex \subseteq Mates /\ Temporary \subseteq Mates
BY TeammatesAssumption DEF TeammatesAssumption

-----------------------------------------------------------------------------
(* The nested loops.                                                       *)

\* The loops f are the first of those that run, and wait for the same.
Within(f) ==
    /\ f \in Seq(Frame) /\ DOMAIN f \subseteq DOMAIN frames
    /\ \A i \in DOMAIN f : f[i].mate = frames[i].mate /\ f[i].at = frames[i].at

\* Some loops are over.
LEMMA SomeOver ==
    ASSUME frames \in Seq(Frame), NEW b \in [DOMAIN frames -> BOOLEAN]
    PROVE  Within([i \in DOMAIN frames |-> [frames[i] EXCEPT !.over = b[i]]])
<1> DEFINE g == [i \in DOMAIN frames |-> [frames[i] EXCEPT !.over = b[i]]]
<1>1. \A i \in DOMAIN frames : frames[i] \in Frame
  OBVIOUS
<1>2. \A i \in DOMAIN frames : g[i] \in Frame /\ g[i].mate = frames[i].mate /\ g[i].at = frames[i].at
  BY <1>1 DEF Frame
<1>3. DOMAIN frames = 1 .. Len(frames) /\ Len(frames) \in Nat
  OBVIOUS
<1>4. DOMAIN g = DOMAIN frames /\ g \in [1 .. Len(frames) -> Frame]
  BY <1>2, <1>3
<1> HIDE DEF g
<1>5. g \in Seq(Frame)
  BY <1>3, <1>4
<1>6. Within(g)
  BY <1>2, <1>4, <1>5 DEF Within
<1> QED
  BY <1>6 DEF g

LEMMA LoopsOver ==
    ASSUME frames \in Seq(Frame)
    PROVE  /\ Within(frames) /\ Within(QuitAll)
           /\ \A at, id : Within(Quit(at, id))
           /\ \A i \in DOMAIN frames : Within([frames EXCEPT ![i].over = TRUE])
<1>1. \A i \in DOMAIN frames : frames[i] \in Frame
  OBVIOUS
<1>2. Within(frames)
  BY DEF Within
<1>3. Within(QuitAll)
  <2> DEFINE b == [i \in DOMAIN frames |-> TRUE]
  <2>1. b \in [DOMAIN frames -> BOOLEAN] /\ \A i \in DOMAIN frames : b[i] = TRUE
    OBVIOUS
  <2>2. QuitAll = [i \in DOMAIN frames |-> [frames[i] EXCEPT !.over = b[i]]]
    BY DEF QuitAll
  <2> HIDE DEF b
  <2> QED
    BY <2>1, <2>2, SomeOver
<1>4. ASSUME NEW at, NEW id PROVE Within(Quit(at, id))
  <2> DEFINE b == [i \in DOMAIN frames |-> frames[i].over \/ (frames[i].at = at /\ id \in {0, frames[i].id})]
  <2>1. b \in [DOMAIN frames -> BOOLEAN]
    BY <1>1 DEF Frame
  <2>2. Quit(at, id) = [i \in DOMAIN frames |-> [frames[i] EXCEPT !.over = b[i]]]
    BY DEF Quit
  <2> HIDE DEF b
  <2> QED
    BY <2>1, <2>2, SomeOver
<1>5. ASSUME NEW i \in DOMAIN frames PROVE Within([frames EXCEPT ![i].over = TRUE])
  <2> DEFINE e == [frames[i] EXCEPT !.over = TRUE]
  <2>1. e \in Frame /\ e.mate = frames[i].mate /\ e.at = frames[i].at
    BY <1>1 DEF Frame
  <2>2. [frames EXCEPT ![i].over = TRUE] = [frames EXCEPT ![i] = e]
    OBVIOUS
  <2> HIDE DEF e
  <2>3. [frames EXCEPT ![i] = e] \in Seq(Frame)
    BY <1>1, <2>1
  <2> QED
    BY <1>1, <2>1, <2>2, <2>3 DEF Within
<1> QED
  BY <1>2, <1>3, <1>4, <1>5

\* The loops below the innermost one.
LEMMA Below ==
    ASSUME frames \in Seq(Frame), frames # <<>>
    PROVE  /\ Top \in Frame /\ Len(frames) \in DOMAIN frames /\ Top = frames[Len(frames)]
           /\ Within(Front(frames))
           /\ \A i \in DOMAIN Front(frames) : i # Len(frames)
<1>1. Len(frames) \in Nat /\ Len(frames) # 0 /\ DOMAIN frames = 1 .. Len(frames)
  OBVIOUS
<1>2. Len(frames) \in DOMAIN frames /\ Top = frames[Len(frames)]
  BY <1>1 DEF Top, Last
<1>3. \A i \in DOMAIN frames : frames[i] \in Frame
  OBVIOUS
<1>4. Front(frames) = [i \in 1 .. (Len(frames) - 1) |-> frames[i]]
  BY <1>1 DEF Front
<1>5. /\ Len(frames) - 1 \in Nat
      /\ \A i \in 1 .. (Len(frames) - 1) : i \in DOMAIN frames /\ i # Len(frames)
  <2> DEFINE n == Len(frames)
  <2>1. n \in Nat /\ n # 0 /\ DOMAIN frames = 1 .. n
    BY <1>1
  <2> HIDE DEF n
  <2>2. n - 1 \in Nat /\ \A i \in 1 .. (n - 1) : i \in 1 .. n /\ i # n
    BY <2>1
  <2> QED
    BY <2>1, <2>2 DEF n
<1>6. Front(frames) \in [1 .. (Len(frames) - 1) -> Frame]
  BY <1>3, <1>4, <1>5
<1>7. Front(frames) \in Seq(Frame)
  BY <1>5, <1>6
<1> QED
  BY <1>2, <1>3, <1>4, <1>5, <1>7 DEF Within

\* Of the loops that run some go on, for mates that wait for the server no less.
LEMMA LoopsKept ==
    ASSUME Loops, Within(frames'),
           \A i \in DOMAIN frames' :
              frames[i].at = "ready" /\ phase[frames[i].mate] = "new" => phase'[frames[i].mate] = "new"
    PROVE  Loops' /\ frames' \in Seq(Frame)
BY DEF Loops, Within

\* One more loop, for a mate no other one creates.
LEMMA LoopAdded ==
    ASSUME Loops, NEW f, Within(f), NEW e \in Frame, e.mate \in Codex,
           frames' = Append(f, e),
           \A i \in DOMAIN f : f[i].mate # e.mate,
           \A i \in DOMAIN f :
              frames[i].at = "ready" /\ phase[frames[i].mate] = "new" => phase'[frames[i].mate] = "new",
           e.at = "ready" => phase'[e.mate] = "new"
    PROVE  Loops' /\ frames' \in Seq(Frame)
<1>1. f \in Seq(Frame) /\ Len(f) \in Nat /\ DOMAIN f = 1 .. Len(f)
  BY DEF Within
<1>2. frames' \in Seq(Frame) /\ DOMAIN frames' = 1 .. (Len(f) + 1)
  BY <1>1
<1>3. \A i \in DOMAIN frames' :
         (i \in DOMAIN f /\ frames'[i] = f[i]) \/ (i = Len(f) + 1 /\ frames'[i] = e)
  BY <1>1, <1>2
<1>4. \A i \in DOMAIN f : /\ i \in DOMAIN frames
                          /\ f[i].mate = frames[i].mate /\ f[i].at = frames[i].at
  BY DEF Within
<1>5. \A i \in DOMAIN frames' : /\ frames'[i].mate \in Codex
                                /\ frames'[i].at = "ready" => phase'[frames'[i].mate] = "new"
  BY <1>3, <1>4 DEF Loops
<1>6. \A i, j \in DOMAIN frames' : i # j => frames'[i].mate # frames'[j].mate
  BY <1>3, <1>4 DEF Loops
<1> QED
  BY <1>2, <1>5, <1>6 DEF Loops

-----------------------------------------------------------------------------
(* The requests.                                                           *)

\* What a new request adds.
LEMMA Asked ==
    ASSUME Plain, NEW m \in Codex, NEW kept \in BOOLEAN,
           NEW kind \in {"initialize", "thread", "turn", "interrupt"},
           NEW turn \in 0 .. MaxSends, Ask(kind, m, turn, kept)
    PROVE  LET new == [id |-> nextId, kind |-> kind, mate |-> m, turn |-> turn] IN
           /\ nextId \in 0 .. MaxIds /\ nextId' \in 1 .. (MaxIds + 1)
           /\ pending' \subseteq Requests /\ asked' \subseteq Requests
           /\ asked' = asked \cup {new}
           /\ pending' \subseteq pending \cup (IF kept THEN {new} ELSE {})
<1>1. nextId \in 1 .. (MaxIds + 1) /\ nextId <= MaxIds /\ nextId' = nextId + 1
  BY DEF Ask, Plain
<1>2. nextId \in 1 .. MaxIds /\ nextId \in 0 .. MaxIds /\ nextId' \in 1 .. (MaxIds + 1) /\ m \in Mates
  BY <1>1, Bounds
<1> DEFINE new == [id |-> nextId, kind |-> kind, mate |-> m, turn |-> turn]
<1>3. new \in Requests
  BY <1>2 DEF Requests
<1>4. /\ asked' = asked \cup {new}
      /\ pending' = IF kept THEN {p \in pending : p.id # nextId} \cup {new} ELSE pending
  BY DEF Ask
<1> HIDE DEF new
<1>5. pending' \subseteq pending \cup (IF kept THEN {new} ELSE {})
  BY <1>4
<1>6. pending \subseteq Requests /\ asked \subseteq Requests
  BY DEF Plain
<1>7. pending' \subseteq Requests /\ asked' \subseteq Requests
  BY <1>3, <1>4, <1>6
<1> QED
  BY <1>2, <1>4, <1>5, <1>7 DEF new

\* No request for a thread is added, no mate becomes new again and none gets a thread.
LEMMA ThreadsKept ==
    ASSUME Threads,
           \A r \in pending' \cup asked' :
              \/ r \in pending \cup asked
              \/ r.mate \in Codex /\ r.kind # "thread" /\ (r.kind = "turn" => r.turn # 0),
           \A r \in pending' : r \in pending \/ r.kind = "turn",
           \A m \in Mates : (phase'[m] = "new" => phase[m] = "new") /\ (thread'[m] => thread[m]),
           Codex \subseteq Mates
    PROVE  Threads'
<1>1. \A r \in pending' \cup asked' : /\ r.mate \in Codex
                                      /\ r.kind = "thread" => phase'[r.mate] # "new"
                                      /\ r.kind = "turn" => r.turn # 0
  BY DEF Threads
<1>2. \A r \in pending' : r.kind \in {"thread", "turn"}
  BY DEF Threads
<1>3. \A p, r \in pending' \cup asked' :
         p.kind = "thread" /\ r.kind = "thread" /\ p.mate = r.mate => p = r
  BY DEF Threads
<1>4. \A r \in pending' : r.kind = "thread" => ~thread'[r.mate]
  <2> SUFFICES ASSUME NEW r \in pending', r.kind = "thread" PROVE ~thread'[r.mate]
    OBVIOUS
  <2>1. r \in pending /\ r.mate \in Mates
    BY <1>1
  <2> QED
    BY <2>1 DEF Threads
<1>5. \A m \in Mates : phase'[m] = "new" => ~thread'[m]
  BY DEF Threads
<1> QED
  BY <1>1, <1>2, <1>3, <1>4, <1>5 DEF Threads

-----------------------------------------------------------------------------
(* The steps.                                                              *)

\* The parts of the invariant.
LEMMA Parts ==
    /\ MateInv <=> /\ Plain /\ frames \in Seq(Frame) /\ Waits /\ Children /\ Loops /\ Threads
                   /\ spare \subseteq Codex
    /\ MateInv' <=> /\ Plain' /\ frames' \in Seq(Frame) /\ Waits' /\ Children' /\ Loops' /\ Threads'
                    /\ spare' \subseteq Codex
BY TypeParts DEF MateInv

\* createSession: the mate is created, its loop and its request are the only ones.
LEMMA Opened ==
    ASSUME Plain, Loops, Threads, NEW m \in Codex, NEW below,
           phase[m] = "new", Within(below), \A i \in DOMAIN below : frames[i].mate # m,
           OpenSession(m, below), UNCHANGED thread
    PROVE  /\ phase' \in [Mates -> {"new", "creating", "live", "gone"}]
           /\ nextId' \in 1 .. (MaxIds + 1)
           /\ pending' \subseteq Requests /\ asked' \subseteq Requests
           /\ frames' \in Seq(Frame) /\ Loops' /\ Threads'
<1> DEFINE new == [id |-> nextId, kind |-> "thread", mate |-> m, turn |-> 0]
           e == [mate |-> m, at |-> "thread", id |-> nextId, over |-> FALSE]
<1>1. Ask("thread", m, 0, TRUE) /\ phase' = [phase EXCEPT ![m] = "creating"] /\ frames' = Append(below, e)
  BY DEF OpenSession
<1>2. /\ nextId \in 0 .. MaxIds /\ nextId' \in 1 .. (MaxIds + 1)
      /\ pending' \subseteq Requests /\ asked' \subseteq Requests
      /\ asked' = asked \cup {new} /\ pending' \subseteq pending \cup {new}
  BY <1>1, Asked, Bounds
<1>3. m \in Mates /\ Codex \subseteq Mates
  BY Bounds
<1>4. phase' \in [Mates -> {"new", "creating", "live", "gone"}]
  BY <1>1 DEF Plain
<1>5. \A n \in Mates : phase'[n] = IF n = m THEN "creating" ELSE phase[n]
  BY <1>1 DEF Plain
<1>6. e \in Frame /\ e.mate = m /\ e.at = "thread"
  BY <1>2, <1>3 DEF Frame
<1>7. new.kind = "thread" /\ new.mate = m
  OBVIOUS
<1> HIDE DEF new, e
<1>8. /\ \A i \in DOMAIN below : below[i].mate # e.mate
      /\ \A i \in DOMAIN below : frames[i].at = "ready" /\ phase[frames[i].mate] = "new"
                                    => phase'[frames[i].mate] = "new"
  <2> SUFFICES ASSUME NEW i \in DOMAIN below
               PROVE  /\ below[i].mate # e.mate
                      /\ phase[frames[i].mate] = "new" => phase'[frames[i].mate] = "new"
    OBVIOUS
  <2>1. frames[i].mate # m /\ frames[i].mate \in Mates /\ below[i].mate = frames[i].mate
    BY <1>3 DEF Within, Loops
  <2> QED
    BY <1>5, <1>6, <2>1
<1>9. Loops' /\ frames' \in Seq(Frame)
  BY <1>1, <1>6, <1>8, LoopAdded
<1>10. \A r \in pending \cup asked : r.kind = "thread" => r.mate # m
  BY DEF Threads
<1>11. Threads'
  <2>1. \A r \in pending' \cup asked' : r \in pending \cup asked \/ r = new
    BY <1>2
  <2>2. \A r \in pending' \cup asked' : /\ r.mate \in Codex
                                        /\ r.kind = "thread" => phase'[r.mate] # "new"
                                        /\ r.kind = "turn" => r.turn # 0
    BY <1>3, <1>5, <1>7, <2>1 DEF Threads
  <2>3. \A r \in pending' : r.kind \in {"thread", "turn"}
    BY <1>2, <1>7 DEF Threads
  <2>4. \A p, r \in pending' \cup asked' :
           p.kind = "thread" /\ r.kind = "thread" /\ p.mate = r.mate => p = r
    BY <1>7, <1>10, <2>1 DEF Threads
  <2>5. \A r \in pending' : r.kind = "thread" => ~thread'[r.mate]
    BY <1>2, <1>3, <1>7 DEF Threads
  <2>6. \A n \in Mates : phase'[n] = "new" => ~thread'[n]
    BY <1>5 DEF Threads
  <2> QED
    BY <2>2, <2>3, <2>4, <2>5, <2>6 DEF Threads
<1> QED
  BY <1>2, <1>4, <1>9, <1>11

\* A tmagent mate: nothing asks for its thread.
LEMMA CreateTmagentStep ==
    ASSUME MateInv, NEW m \in Mates, CreateTmagent(m)
    PROVE  MateInv'
<1>0. /\ Plain /\ frames \in Seq(Frame) /\ Waits /\ Children /\ Loops /\ Threads
      /\ spare \subseteq Codex /\ Codex \subseteq Mates /\ Temporary \subseteq Mates
  BY Parts, Bounds
<1>1. Plain'
  BY <1>0, Bounds DEF CreateTmagent, Plain
<1>2. Loops' /\ frames' \in Seq(Frame)
  <2>1. \A i \in DOMAIN frames : frames[i].mate # m /\ frames[i].mate \in Mates
    BY <1>0 DEF CreateTmagent, Loops
  <2>2. \A n \in Mates : n # m => phase'[n] = phase[n]
    BY <1>0 DEF CreateTmagent, Plain
  <2> QED
    BY <1>0, <2>1, <2>2, LoopsKept, LoopsOver DEF CreateTmagent
<1>3. Waits' /\ Children'
  BY <1>0 DEF CreateTmagent, Exists, Waits, Children, Plain
<1>4. Threads'
  BY <1>0 DEF CreateTmagent, Threads, Plain
<1>5. spare' \subseteq Codex
  BY <1>0 DEF CreateTmagent
<1> QED
  BY <1>1, <1>2, <1>3, <1>4, <1>5, Parts

\* A codex mate that is created while the server is ready.
LEMMA CreateCodexStep ==
    ASSUME MateInv, NEW m \in Mates, CreateCodex(m)
    PROVE  MateInv'
<1>0. /\ Plain /\ frames \in Seq(Frame) /\ Waits /\ Children /\ Loops /\ Threads
      /\ spare \subseteq Codex /\ Codex \subseteq Mates /\ Temporary \subseteq Mates
  BY Parts, Bounds
<1>1. Plain'
  <2>1. Within(frames) /\ m \in Codex /\ phase[m] = "new" /\ \A i \in DOMAIN frames : frames[i].mate # m
    BY <1>0, LoopsOver DEF CreateCodex, InCreation
  <2>2. /\ phase' \in [Mates -> {"new", "creating", "live", "gone"}]
        /\ nextId' \in 1 .. (MaxIds + 1)
        /\ pending' \subseteq Requests /\ asked' \subseteq Requests
    BY <1>0, <2>1, Opened DEF CreateCodex
  <2> QED
    BY <1>0, <2>2 DEF CreateCodex, Plain
<1>2. Loops' /\ frames' \in Seq(Frame)
  BY <1>0, LoopsOver, Opened DEF CreateCodex, InCreation
<1>3. Waits' /\ Children'
  BY <1>0 DEF CreateCodex, OpenSession, Exists, Waits, Children, Plain
<1>4. Threads'
  BY <1>0, LoopsOver, Opened DEF CreateCodex, InCreation
<1>5. spare' \subseteq Codex
  BY <1>0 DEF CreateCodex
<1> QED
  BY <1>1, <1>2, <1>3, <1>4, <1>5, Parts

\* A codex mate that is created while the server is not ready.
LEMMA CreateStartingStep ==
    ASSUME MateInv, NEW m \in Mates, CreateStarting(m)
    PROVE  MateInv'
<1>0. /\ Plain /\ frames \in Seq(Frame) /\ Waits /\ Children /\ Loops /\ Threads
      /\ spare \subseteq Codex /\ Codex \subseteq Mates /\ Temporary \subseteq Mates
  BY Parts, Bounds
<1>1. Plain'
  <2>1. [id |-> 1, kind |-> "initialize", mate |-> m, turn |-> 0] \in Requests
    BY <1>0, Bounds DEF Requests
  <2>2. asked' \subseteq Requests /\ nextId' \in 1 .. (MaxIds + 1) /\ starts' \in 0 .. MaxStarts
    BY <1>0, <2>1, Bounds DEF CreateStarting, Plain
  <2> QED
    BY ZenonT(60), <1>0, <2>2 DEF CreateStarting, TransportError, Settle, Replies, BusyReached, Reached, Exists, Plain
<1>2. Loops' /\ frames' \in Seq(Frame)
  <2> DEFINE e == [mate |-> m, at |-> "ready", id |-> 0, over |-> FALSE]
  <2>1. /\ frames' = Append(frames, e) /\ m \in Codex /\ phase[m] = "new" /\ UNCHANGED phase
        /\ \A i \in DOMAIN frames : frames[i].mate # m
    BY DEF CreateStarting, InCreation
  <2>2. e \in Frame /\ e.mate = m
    BY Bounds DEF Frame
  <2> HIDE DEF e
  <2> QED
    BY <1>0, <2>1, <2>2, LoopsOver, LoopAdded
<1>3. Waits' /\ Children'
  BY <1>0 DEF CreateStarting, TransportError, Settle, Replies, BusyReached, Reached, Exists, Waits, Children, Plain
<1>4. Threads'
  BY <1>0, ThreadsKept DEF CreateStarting
<1>5. spare' \subseteq Codex
  BY <1>0 DEF CreateStarting, TransportError, Settle, Replies, BusyReached, Reached, Exists
<1> QED
  BY <1>1, <1>2, <1>3, <1>4, <1>5, Parts

\* A loop that gives up.
LEMMA LoopTimeoutStep ==
    ASSUME MateInv, NEW i \in DOMAIN frames, LoopTimeout(i)
    PROVE  MateInv'
<1>0. /\ Plain /\ frames \in Seq(Frame) /\ Waits /\ Children /\ Loops /\ Threads
      /\ spare \subseteq Codex /\ Codex \subseteq Mates /\ Temporary \subseteq Mates
  BY Parts, Bounds
<1>1. Plain'
  BY <1>0, Bounds DEF LoopTimeout, client, Plain
<1>2. Loops' /\ frames' \in Seq(Frame)
  BY <1>0, LoopsKept, LoopsOver DEF LoopTimeout, client
<1>3. Waits' /\ Children'
  BY <1>0 DEF LoopTimeout, client, Exists, Waits, Children, Plain
<1>4. Threads'
  BY <1>0, ThreadsKept DEF LoopTimeout, client
<1>5. spare' \subseteq Codex
  BY <1>0 DEF LoopTimeout
<1> QED
  BY <1>1, <1>2, <1>3, <1>4, <1>5, Parts

\* The innermost loop that waited for the server returns.
LEMMA ReadyReturnsStep ==
    ASSUME MateInv, ReadyReturns
    PROVE  MateInv'
<1>0. /\ Plain /\ frames \in Seq(Frame) /\ Waits /\ Children /\ Loops /\ Threads
      /\ spare \subseteq Codex /\ Codex \subseteq Mates /\ Temporary \subseteq Mates
  BY Parts, Bounds
<1>top. /\ Within(Front(frames)) /\ Top.mate \in Codex /\ phase[Top.mate] = "new"
      /\ \A i \in DOMAIN Front(frames) : frames[i].mate # Top.mate
  BY <1>0, Below DEF ReadyReturns, Loops, Within
<1>1. Plain'
  <2>1. CASE server = "ready"
    BY <1>0, <1>top, <2>1, Opened DEF ReadyReturns, Plain
  <2>2. CASE server # "ready"
    BY <1>0, <2>2 DEF ReadyReturns, Plain
  <2> QED
    BY <2>1, <2>2
<1>2. Loops' /\ frames' \in Seq(Frame)
  <2>1. CASE server = "ready"
    BY <1>0, <1>top, <2>1, Opened DEF ReadyReturns
  <2>2. CASE server # "ready"
    <3>1. Within(frames') /\ phase' = [phase EXCEPT ![Top.mate] = "gone"]
      BY <1>top, <2>2 DEF ReadyReturns
    <3>2. \A i \in DOMAIN frames' : frames[i].mate \in Mates /\ frames[i].mate # Top.mate
      BY <1>0, <1>top, <3>1, <2>2 DEF ReadyReturns, Loops, Within
    <3>3. \A n \in Mates : n # Top.mate => phase'[n] = phase[n]
      BY <1>0, <3>1 DEF Plain
    <3> QED
      BY <1>0, <3>1, <3>2, <3>3, LoopsKept
  <2> QED
    BY <2>1, <2>2
<1>3. Waits' /\ Children'
  <2>1. \A n \in Mates : n \in waiting => n # Top.mate
    BY <1>0, <1>top DEF Waits, Exists
  <2>2. \A n \in Mates : n # Top.mate => phase'[n] = phase[n]
    BY <1>0 DEF ReadyReturns, OpenSession, Plain
  <2> QED
    BY <1>0, <2>1, <2>2 DEF ReadyReturns, Waits, Children, Exists, Plain
<1>4. Threads'
  <2>1. CASE server = "ready"
    BY <1>0, <1>top, <2>1, Opened DEF ReadyReturns
  <2>2. CASE server # "ready"
    <3>1. \A n \in Mates : phase'[n] = "new" => phase[n] = "new"
      BY <1>0, <2>2 DEF ReadyReturns, Plain
    <3> QED
      BY <1>0, <2>2, <3>1, ThreadsKept DEF ReadyReturns
  <2> QED
    BY <2>1, <2>2
<1>5. spare' \subseteq Codex
  BY <1>0 DEF ReadyReturns
<1> QED
  BY <1>1, <1>2, <1>3, <1>4, <1>5, Parts

\* The innermost loop that waited for a thread returns.
LEMMA SessionReturnsStep ==
    ASSUME MateInv, SessionReturns
    PROVE  MateInv'
<1>0. /\ Plain /\ frames \in Seq(Frame) /\ Waits /\ Children /\ Loops /\ Threads
      /\ spare \subseteq Codex /\ Codex \subseteq Mates /\ Temporary \subseteq Mates
  BY Parts, Bounds
<1>top. /\ Within(Front(frames)) /\ Top.mate \in Codex
      /\ \A i \in DOMAIN Front(frames) : frames[i].mate # Top.mate
  BY <1>0, Below DEF SessionReturns, Loops, Within
<1>1. Plain'
  <2>1. phase' \in [Mates -> {"new", "creating", "live", "gone"}]
    BY <1>0 DEF SessionReturns, Plain
  <2>2. undefined' \in BOOLEAN
    BY <1>0 DEF SessionReturns, Plain
  <2> QED
    BY <1>0, <2>1, <2>2 DEF SessionReturns, Plain
<1>2. Loops' /\ frames' \in Seq(Frame)
  <2>1. \A i \in DOMAIN frames' : frames[i].mate \in Mates /\ frames[i].mate # Top.mate
    BY <1>0, <1>top DEF SessionReturns, Loops, Within
  <2>2. \A n \in Mates : n # Top.mate => phase'[n] = phase[n]
    BY <1>0 DEF SessionReturns, Plain
  <2> QED
    BY <1>0, <1>top, <2>1, <2>2, LoopsKept DEF SessionReturns
<1>3. Waits' /\ Children'
  <2>1. \A n \in Mates : phase'[n] = IF n # Top.mate THEN phase[n]
                                     ELSE IF phase[n] # "gone" /\ thread[n] THEN "live" ELSE "gone"
    BY <1>0 DEF SessionReturns, Plain
  <2>2. \A n \in waiting : n \in Mates /\ phase[n] \in {"creating", "live"} /\ (n = Top.mate => thread[n])
    BY <1>0, <1>top DEF Waits, Exists, Plain
  <2>3. Waits'
    BY <1>0, <2>1, <2>2 DEF SessionReturns, Waits, Exists
  <2> QED
    BY <1>0, <2>3 DEF SessionReturns, Children
<1>4. Threads'
  <2>1. \A n \in Mates : phase'[n] = "new" => phase[n] = "new"
    BY <1>0 DEF SessionReturns, Plain
  <2> QED
    BY <1>0, <2>1, ThreadsKept DEF SessionReturns
<1>5. spare' \subseteq Codex
  BY <1>0 DEF SessionReturns
<1> QED
  BY <1>1, <1>2, <1>3, <1>4, <1>5, Parts

\* A message to a codex mate: one with a thread waits for the reply.
LEMMA SendCodexStep ==
    ASSUME MateInv, NEW m \in Mates, SendCodex(m)
    PROVE  MateInv'
<1>0. /\ Plain /\ frames \in Seq(Frame) /\ Waits /\ Children /\ Loops /\ Threads
      /\ spare \subseteq Codex /\ Codex \subseteq Mates /\ Temporary \subseteq Mates
  BY Parts, Bounds
<1>ask. ASSUME thread[m]
      PROVE  /\ nextId' \in 1 .. (MaxIds + 1)
             /\ pending' \subseteq Requests /\ asked' \subseteq Requests
             /\ \A r \in pending' : r \in pending \/ (r.mate = m /\ r.kind = "turn" /\ r.turn # 0)
             /\ \A r \in asked' : r \in asked \/ (r.mate = m /\ r.kind = "turn" /\ r.turn # 0)
  <2>1. m \in Codex /\ sends[m] + 1 \in 1 .. MaxSends /\ Ask("turn", m, sends[m] + 1, TRUE)
    BY <1>0, <1>ask, Bounds DEF SendCodex, Plain
  <2>2. PICK n \in 1 .. MaxSends : Ask("turn", m, n, TRUE)
    BY <2>1
  <2>4. n \in 0 .. MaxSends /\ n # 0
    BY Bounds
  <2> DEFINE new == [id |-> nextId, kind |-> "turn", mate |-> m, turn |-> n]
  <2>3. /\ nextId' \in 1 .. (MaxIds + 1) /\ pending' \subseteq Requests /\ asked' \subseteq Requests
        /\ asked' = asked \cup {new} /\ pending' \subseteq pending \cup {new}
    BY <1>0, <2>1, <2>2, <2>4, Asked
  <2> QED
    BY <2>3, <2>4
<1>1. Plain'
  <2>1. nextId' \in 1 .. (MaxIds + 1) /\ pending' \subseteq Requests /\ asked' \subseteq Requests
    BY <1>0, <1>ask DEF SendCodex, Plain
  <2>2. sends[m] + 1 \in 0 .. MaxSends
    BY <1>0, Bounds DEF SendCodex, Plain
  <2>3. sends' \in [Mates -> 0 .. MaxSends]
    BY <1>0, <2>2 DEF SendCodex, Plain
  <2>4. status' \in [Mates -> {"idle", "busy", "error"}] /\ timer' \in [Mates -> BOOLEAN]
    BY <1>0 DEF SendCodex, Plain
  <2>5. waiting' \subseteq Mates
    BY <1>0 DEF SendCodex, Plain
  <2> QED
    BY <1>0, <2>1, <2>3, <2>4, <2>5 DEF SendCodex, Plain
<1>2. Loops' /\ frames' \in Seq(Frame)
  BY <1>0, LoopsKept, LoopsOver DEF SendCodex
<1>3. Waits' /\ Children'
  <2>1. CASE thread[m]
    <3>1. /\ waiting' = waiting \cup {m} /\ Exists(m) /\ UNCHANGED <<phase, thread, active>>
          /\ status' = [status EXCEPT ![m] = "busy"]
      BY <2>1 DEF SendCodex
    <3> QED
      BY <1>0, <2>1, <3>1 DEF Waits, Children, Exists, Plain
  <2>2. CASE ~thread[m]
    <3>1. /\ UNCHANGED <<waiting, phase, thread, active>> /\ status[m] # "busy"
          /\ status' = [status EXCEPT ![m] = "error"]
      BY <2>2 DEF SendCodex
    <3> QED
      BY <1>0, <3>1 DEF Waits, Children, Exists, Plain
  <2> QED
    BY <2>1, <2>2
<1>4. Threads'
  <2>1. /\ \A r \in pending' : r \in pending \/ (r.mate \in Codex /\ r.kind = "turn" /\ r.turn # 0)
        /\ \A r \in asked' : r \in asked \/ (r.mate \in Codex /\ r.kind = "turn" /\ r.turn # 0)
    BY <1>ask DEF SendCodex
  <2> QED
    BY <1>0, <2>1, ThreadsKept DEF SendCodex
<1>5. spare' \subseteq Codex
  BY <1>0 DEF SendCodex
<1> QED
  BY <1>1, <1>2, <1>3, <1>4, <1>5, Parts

\* A message to a tmagent mate: its child runs, or its reply came first.
LEMMA SendTmagentStep ==
    ASSUME MateInv, NEW m \in Mates, SendTmagent(m)
    PROVE  MateInv'
<1>0. /\ Plain /\ frames \in Seq(Frame) /\ Waits /\ Children /\ Loops /\ Threads
      /\ spare \subseteq Codex /\ Codex \subseteq Mates /\ Temporary \subseteq Mates
  BY Parts, Bounds
<1>1. Plain'
  BY <1>0, Bounds DEF SendTmagent, Plain
<1>2. Loops' /\ frames' \in Seq(Frame)
  BY <1>0, LoopsKept, LoopsOver DEF SendTmagent
<1>3. Waits' /\ Children'
  BY <1>0 DEF SendTmagent, Exists, Waits, Children, Plain
<1>4. Threads'
  BY <1>0, ThreadsKept DEF SendTmagent
<1>5. spare' \subseteq Codex
  BY <1>0 DEF SendTmagent
<1> QED
  BY <1>1, <1>2, <1>3, <1>4, <1>5, Parts

\* The end of a child tells the one who waits.
LEMMA ChildEndsStep ==
    ASSUME MateInv, NEW m \in Mates, ChildEnds(m)
    PROVE  MateInv'
<1>0. /\ Plain /\ frames \in Seq(Frame) /\ Waits /\ Children /\ Loops /\ Threads
      /\ spare \subseteq Codex /\ Codex \subseteq Mates /\ Temporary \subseteq Mates
  BY Parts, Bounds
<1>1. Plain'
  BY <1>0, Bounds DEF ChildEnds, Replies, Plain
<1>2. Loops' /\ frames' \in Seq(Frame)
  BY <1>0, LoopsKept, LoopsOver DEF ChildEnds
<1>3. Waits' /\ Children'
  BY <1>0 DEF ChildEnds, Replies, Exists, Waits, Children, Plain
<1>4. Threads'
  BY <1>0, ThreadsKept DEF ChildEnds
<1>5. spare' \subseteq Codex
  BY <1>0 DEF ChildEnds, Replies, Children
<1> QED
  BY <1>1, <1>2, <1>3, <1>4, <1>5, Parts

\* The request to interrupt a turn.
LEMMA InterruptStep ==
    ASSUME MateInv, NEW m \in Mates, Interrupt(m)
    PROVE  MateInv'
<1>0. /\ Plain /\ frames \in Seq(Frame) /\ Waits /\ Children /\ Loops /\ Threads
      /\ spare \subseteq Codex /\ Codex \subseteq Mates /\ Temporary \subseteq Mates
  BY Parts, Bounds
<1>ask. /\ nextId' \in 1 .. (MaxIds + 1) /\ pending' \subseteq Requests /\ asked' \subseteq Requests
      /\ pending' \subseteq pending
      /\ \A r \in asked' : r \in asked \/ (r.mate \in Codex /\ r.kind = "interrupt")
  <2>1. m \in Codex /\ active[m] \in 0 .. MaxSends /\ Ask("interrupt", m, active[m], FALSE)
    BY <1>0 DEF Interrupt, Plain
  <2>2. PICK n \in 0 .. MaxSends : Ask("interrupt", m, n, FALSE)
    BY <2>1
  <2> DEFINE new == [id |-> nextId, kind |-> "interrupt", mate |-> m, turn |-> n]
  <2>3. /\ nextId' \in 1 .. (MaxIds + 1) /\ pending' \subseteq Requests /\ asked' \subseteq Requests
        /\ asked' = asked \cup {new} /\ pending' \subseteq pending
    BY <1>0, <2>1, <2>2, Asked
  <2> QED
    BY <2>1, <2>3
<1>1. Plain'
  BY <1>0, <1>ask DEF Interrupt, client, Plain
<1>2. Loops' /\ frames' \in Seq(Frame)
  BY <1>0, LoopsKept, LoopsOver DEF Interrupt, client
<1>3. Waits' /\ Children'
  BY <1>0 DEF Interrupt, client, Exists, Waits, Children, Plain
<1>4. Threads'
  BY <1>0, <1>ask, ThreadsKept DEF Interrupt, client
<1>5. spare' \subseteq Codex
  BY <1>0 DEF Interrupt
<1> QED
  BY <1>1, <1>2, <1>3, <1>4, <1>5, Parts

\* A mate the user removes.
LEMMA RemoveTeammateStep ==
    ASSUME MateInv, NEW m \in Mates, RemoveTeammate(m)
    PROVE  MateInv'
<1>0. /\ Plain /\ frames \in Seq(Frame) /\ Waits /\ Children /\ Loops /\ Threads
      /\ spare \subseteq Codex /\ Codex \subseteq Mates /\ Temporary \subseteq Mates
  BY Parts, Bounds
<1>1. Plain'
  <2>1. phase' \in [Mates -> {"new", "creating", "live", "gone"}] /\ thread' \in [Mates -> BOOLEAN]
    BY <1>0 DEF RemoveTeammate, Gone, Plain
  <2>2. timer' \in [Mates -> BOOLEAN] /\ active' \in [Mates -> 0 .. MaxSends]
    BY <1>0, Bounds DEF RemoveTeammate, Gone, Plain
  <2> QED
    BY <1>0, <2>1, <2>2 DEF RemoveTeammate, Gone, Plain
<1>2. Loops' /\ frames' \in Seq(Frame)
  <2>1. \A n \in Mates : phase'[n] = "new" <=> phase[n] = "new"
    BY <1>0 DEF RemoveTeammate, Gone, Exists, Plain
  <2>2. \A i \in DOMAIN frames : frames[i].mate \in Mates
    BY <1>0 DEF Loops
  <2> QED
    BY <1>0, <2>1, <2>2, LoopsKept, LoopsOver DEF RemoveTeammate, Gone
<1>3. Waits' /\ Children'
  BY <1>0 DEF RemoveTeammate, Gone, Waits, Children, Exists, Plain
<1>4. Threads'
  <2>1. \A n \in Mates : (phase'[n] = "new" => phase[n] = "new") /\ (thread'[n] => thread[n])
    BY <1>0 DEF RemoveTeammate, Gone, Exists, Plain
  <2> QED
    BY <1>0, <2>1, ThreadsKept DEF RemoveTeammate, Gone
<1>5. spare' \subseteq Codex
  BY <1>0 DEF RemoveTeammate, Gone
<1> QED
  BY <1>1, <1>2, <1>3, <1>4, <1>5, Parts

\* A temporary mate is removed when its reply was handled.
LEMMA QueuedRemovalStep ==
    ASSUME MateInv, NEW m \in Mates, QueuedRemoval(m)
    PROVE  MateInv'
<1>0. /\ Plain /\ frames \in Seq(Frame) /\ Waits /\ Children /\ Loops /\ Threads
      /\ spare \subseteq Codex /\ Codex \subseteq Mates /\ Temporary \subseteq Mates
  BY Parts, Bounds
<1>1. Plain'
  <2>1. phase' \in [Mates -> {"new", "creating", "live", "gone"}] /\ thread' \in [Mates -> BOOLEAN]
    BY <1>0 DEF QueuedRemoval, Gone, client, Plain
  <2>2. timer' \in [Mates -> BOOLEAN] /\ active' \in [Mates -> 0 .. MaxSends]
    BY ZenonT(60), <1>0, Bounds DEF QueuedRemoval, Gone, client, Plain
  <2> QED
    BY <1>0, <2>1, <2>2 DEF QueuedRemoval, Gone, client, Plain
<1>2. Loops' /\ frames' \in Seq(Frame)
  <2>1. \A n \in Mates : phase'[n] = "new" <=> phase[n] = "new"
    BY <1>0 DEF QueuedRemoval, Gone, client, Exists, Plain
  <2>2. \A i \in DOMAIN frames : frames[i].mate \in Mates
    BY <1>0 DEF Loops
  <2> QED
    BY <1>0, <2>1, <2>2, LoopsKept, LoopsOver DEF QueuedRemoval, Gone, client
<1>3. Waits' /\ Children'
  BY <1>0 DEF QueuedRemoval, Gone, client, Waits, Children, Exists, Plain
<1>4. Threads'
  <2>1. \A n \in Mates : (phase'[n] = "new" => phase[n] = "new") /\ (thread'[n] => thread[n])
    BY <1>0 DEF QueuedRemoval, Gone, client, Exists, Plain
  <2> QED
    BY <1>0, <2>1, ThreadsKept DEF QueuedRemoval, Gone, client
<1>5. spare' \subseteq Codex
  BY <1>0 DEF QueuedRemoval, Gone, client
<1> QED
  BY <1>1, <1>2, <1>3, <1>4, <1>5, Parts

\* The timer starts again.
LEMMA ActivityStep ==
    ASSUME MateInv, Activity
    PROVE  MateInv'
<1>0. /\ Plain /\ frames \in Seq(Frame) /\ Waits /\ Children /\ Loops /\ Threads
      /\ spare \subseteq Codex /\ Codex \subseteq Mates /\ Temporary \subseteq Mates
  BY Parts, Bounds
<1>1. Plain'
  BY <1>0, Bounds DEF Activity, Plain
<1>2. Loops' /\ frames' \in Seq(Frame)
  BY <1>0, LoopsKept, LoopsOver DEF Activity
<1>3. Waits' /\ Children'
  BY <1>0 DEF Activity, Exists, Waits, Children, Plain
<1>4. Threads'
  BY <1>0, ThreadsKept DEF Activity
<1>5. spare' \subseteq Codex
  BY <1>0 DEF Activity
<1> QED
  BY <1>1, <1>2, <1>3, <1>4, <1>5, Parts

\* An error of the turn tells the one who waits.
LEMMA ErrorNotificationStep ==
    ASSUME MateInv, ErrorNotification
    PROVE  MateInv'
<1>0. /\ Plain /\ frames \in Seq(Frame) /\ Waits /\ Children /\ Loops /\ Threads
      /\ spare \subseteq Codex /\ Codex \subseteq Mates /\ Temporary \subseteq Mates
  BY Parts, Bounds
<1>1. Plain'
  BY <1>0, Bounds DEF ErrorNotification, Replies, BusyReached, Reached, Exists, Plain
<1>2. Loops' /\ frames' \in Seq(Frame)
  BY <1>0, LoopsKept, LoopsOver DEF ErrorNotification
<1>3. Waits' /\ Children'
  BY <1>0 DEF ErrorNotification, Replies, BusyReached, Reached, Exists, Waits, Children, Plain
<1>4. Threads'
  BY <1>0, ThreadsKept DEF ErrorNotification
<1>5. spare' \subseteq Codex
  BY <1>0 DEF ErrorNotification, Replies, BusyReached, Reached, Exists
<1> QED
  BY <1>1, <1>2, <1>3, <1>4, <1>5, Parts

\* The end of any turn of the thread tells the one who waits.
LEMMA TurnCompletedStep ==
    ASSUME MateInv, TurnCompleted
    PROVE  MateInv'
<1>0. /\ Plain /\ frames \in Seq(Frame) /\ Waits /\ Children /\ Loops /\ Threads
      /\ spare \subseteq Codex /\ Codex \subseteq Mates /\ Temporary \subseteq Mates
  BY Parts, Bounds
<1>1. Plain'
  BY <1>0, Bounds DEF TurnCompleted, Settle, Replies, Reached, Exists, Plain
<1>2. Loops' /\ frames' \in Seq(Frame)
  BY <1>0, LoopsKept, LoopsOver DEF TurnCompleted
<1>3. Waits' /\ Children'
  BY <1>0 DEF TurnCompleted, Settle, Replies, Reached, Exists, Waits, Children, Plain
<1>4. Threads'
  BY <1>0, ThreadsKept DEF TurnCompleted
<1>5. spare' \subseteq Codex
  BY <1>0 DEF TurnCompleted, Settle, Replies, Reached, Exists, Plain
<1> QED
  BY <1>1, <1>2, <1>3, <1>4, <1>5, Parts

\* The time-out of a turn tells the one who waits.
LEMMA TurnTimeoutStep ==
    ASSUME MateInv, NEW m \in Mates, TurnTimeout(m)
    PROVE  MateInv'
<1>0. /\ Plain /\ frames \in Seq(Frame) /\ Waits /\ Children /\ Loops /\ Threads
      /\ spare \subseteq Codex /\ Codex \subseteq Mates /\ Temporary \subseteq Mates
  BY Parts, Bounds
<1>1. Plain'
  BY <1>0, Bounds DEF TurnTimeout, Replies, BusyReached, Reached, Exists, Plain
<1>2. Loops' /\ frames' \in Seq(Frame)
  BY <1>0, LoopsKept, LoopsOver DEF TurnTimeout
<1>3. Waits' /\ Children'
  BY <1>0 DEF TurnTimeout, Replies, BusyReached, Reached, Exists, Waits, Children, Plain
<1>4. Threads'
  BY <1>0, ThreadsKept DEF TurnTimeout
<1>5. spare' \subseteq Codex
  BY <1>0 DEF TurnTimeout, Replies, BusyReached, Reached, Exists
<1> QED
  BY <1>1, <1>2, <1>3, <1>4, <1>5, Parts

\* The end of the server: an error tells those who wait, or they go on waiting.
LEMMA ServerStopsStep ==
    ASSUME MateInv, ServerStops
    PROVE  MateInv'
<1>0. /\ Plain /\ frames \in Seq(Frame) /\ Waits /\ Children /\ Loops /\ Threads
      /\ spare \subseteq Codex /\ Codex \subseteq Mates /\ Temporary \subseteq Mates
  BY Parts, Bounds
<1>1. Plain'
  <2>1. CASE TransportError(BusyReached)
    BY <1>0, <2>1 DEF ServerStops, TransportError, Settle, Replies, BusyReached, Reached, Exists, Plain
  <2>2. CASE TransportError({})
    BY <1>0, <2>2 DEF ServerStops, TransportError, Settle, Replies, BusyReached, Reached, Exists, Plain
  <2> QED
    BY <2>1, <2>2 DEF ServerStops
<1>2. Loops' /\ frames' \in Seq(Frame)
  BY <1>0, LoopsKept, LoopsOver DEF ServerStops, TransportError, Settle, Replies, BusyReached, Reached, Exists
<1>3. Waits' /\ Children'
  BY <1>0 DEF ServerStops, TransportError, Settle, Replies, BusyReached, Reached, Exists, Waits, Children, Plain
<1>4. Threads'
  BY <1>0, ThreadsKept DEF ServerStops, TransportError, Settle, Replies, BusyReached, Reached, Exists
<1>5. spare' \subseteq Codex
  BY <1>0 DEF ServerStops, TransportError, Settle, Replies, BusyReached, Reached, Exists
<1> QED
  BY <1>1, <1>2, <1>3, <1>4, <1>5, Parts

\* A line that is no message counts as an error.
LEMMA GarbledLineStep ==
    ASSUME MateInv, GarbledLine
    PROVE  MateInv'
<1>0. /\ Plain /\ frames \in Seq(Frame) /\ Waits /\ Children /\ Loops /\ Threads
      /\ spare \subseteq Codex /\ Codex \subseteq Mates /\ Temporary \subseteq Mates
  BY Parts, Bounds
<1>1. Plain'
  BY <1>0, Bounds DEF GarbledLine, TransportError, Settle, Replies, BusyReached, Reached, Exists, Plain
<1>2. Loops' /\ frames' \in Seq(Frame)
  BY <1>0, LoopsKept, LoopsOver DEF GarbledLine, TransportError, Settle, Replies, BusyReached, Reached, Exists
<1>3. Waits' /\ Children'
  BY <1>0 DEF GarbledLine, TransportError, Settle, Replies, BusyReached, Reached, Exists, Waits, Children, Plain
<1>4. Threads'
  BY <1>0, ThreadsKept DEF GarbledLine, TransportError, Settle, Replies, BusyReached, Reached, Exists
<1>5. spare' \subseteq Codex
  BY <1>0 DEF GarbledLine, TransportError, Settle, Replies, BusyReached, Reached, Exists
<1> QED
  BY <1>1, <1>2, <1>3, <1>4, <1>5, Parts

\* The answer to the handshake.
LEMMA HandshakeStep ==
    ASSUME MateInv, NEW r \in asked, asked' = asked \ {r},
           UNCHANGED <<starts, nextId>>, Handshake(r)
    PROVE  MateInv'
<1>0. /\ Plain /\ frames \in Seq(Frame) /\ Waits /\ Children /\ Loops /\ Threads
      /\ spare \subseteq Codex /\ Codex \subseteq Mates /\ Temporary \subseteq Mates
  BY Parts, Bounds
<1>1. Plain'
  BY <1>0, Bounds DEF Handshake, client, Plain
<1>2. Loops' /\ frames' \in Seq(Frame)
  BY <1>0, LoopsKept, LoopsOver DEF Handshake, client
<1>3. Waits' /\ Children'
  BY <1>0 DEF Handshake, client, Exists, Waits, Children, Plain
<1>4. Threads'
  BY <1>0, ThreadsKept DEF Handshake, client
<1>5. spare' \subseteq Codex
  BY <1>0 DEF Handshake
<1> QED
  BY <1>1, <1>2, <1>3, <1>4, <1>5, Parts

\* The answer with a thread: the entries that stay are of other mates.
LEMMA ThreadStartedStep ==
    ASSUME MateInv, NEW r \in asked, asked' = asked \ {r},
           UNCHANGED <<starts, nextId>>, ThreadStarted(r)
    PROVE  MateInv'
<1>0. /\ Plain /\ frames \in Seq(Frame) /\ Waits /\ Children /\ Loops /\ Threads
      /\ spare \subseteq Codex /\ Codex \subseteq Mates /\ Temporary \subseteq Mates
  BY Parts, Bounds
<1>1. Plain'
  <2>1. undefined' \in BOOLEAN /\ thread' \in [Mates -> BOOLEAN]
    BY <1>0 DEF ThreadStarted, Exists, Plain
  <2>2. pending' \subseteq pending
    BY DEF ThreadStarted
  <2> QED
    BY <1>0, <2>1, <2>2 DEF ThreadStarted, Plain
<1>2. Loops' /\ frames' \in Seq(Frame)
  BY <1>0, LoopsKept, LoopsOver DEF ThreadStarted
<1>3. Waits' /\ Children'
  BY <1>0 DEF ThreadStarted, Exists, Waits, Children, Plain
<1>4. Threads'
  <2>1. /\ pending' \subseteq pending /\ \A p \in pending' : p.id # r.id
        /\ UNCHANGED phase /\ r.kind = "thread"
        /\ \A m \in Mates : thread'[m] => thread[m] \/ m = r.mate
    BY DEF ThreadStarted, EntryFor
  <2>2. /\ \A p \in pending' \cup asked' :
              /\ p.mate \in Codex
              /\ p.kind = "thread" => phase'[p.mate] # "new"
              /\ p.kind = "turn" => p.turn # 0
        /\ \A p \in pending' : p.kind \in {"thread", "turn"}
        /\ \A p, q \in pending' \cup asked' :
              p.kind = "thread" /\ q.kind = "thread" /\ p.mate = q.mate => p = q
    BY <1>0, <2>1 DEF Threads
  <2>3. \A p \in pending' : p.kind = "thread" => ~thread[p.mate] /\ p.mate # r.mate
    BY <1>0, <2>1 DEF Threads
  <2>4. \A p \in pending' : p.kind = "thread" => ~thread'[p.mate]
    <3> SUFFICES ASSUME NEW p \in pending', p.kind = "thread" PROVE ~thread'[p.mate]
      OBVIOUS
    <3>1. p.mate \in Mates /\ ~thread[p.mate] /\ p.mate # r.mate
      BY <1>0, <2>2, <2>3
    <3> QED
      BY <2>1, <3>1
  <2>5. phase[r.mate] # "new"
    BY <1>0, <2>1 DEF Threads
  <2>6. \A m \in Mates : phase'[m] = "new" => ~thread'[m]
    BY <1>0, <2>1, <2>5 DEF Threads
  <2> QED
    BY <2>2, <2>4, <2>6 DEF Threads
<1>5. spare' \subseteq Codex
  BY <1>0 DEF ThreadStarted
<1> QED
  BY <1>1, <1>2, <1>3, <1>4, <1>5, Parts

\* The answer that a turn runs.
LEMMA TurnAcceptedStep ==
    ASSUME MateInv, NEW r \in asked, asked' = asked \ {r},
           UNCHANGED <<starts, nextId>>, TurnAccepted(r)
    PROVE  MateInv'
<1>0. /\ Plain /\ frames \in Seq(Frame) /\ Waits /\ Children /\ Loops /\ Threads
      /\ spare \subseteq Codex /\ Codex \subseteq Mates /\ Temporary \subseteq Mates
  BY Parts, Bounds
<1>1. Plain'
  <2>1. r.turn \in 0 .. MaxSends /\ r.turn \in 1 .. MaxSends /\ r.mate \in Codex
    <3>1. r.turn \in 0 .. MaxSends /\ r.turn # 0 /\ r.mate \in Codex
      BY <1>0 DEF TurnAccepted, Plain, Requests, Threads
    <3> QED
      BY <3>1, Bounds
  <2>2. undefined' \in BOOLEAN /\ active' \in [Mates -> 0 .. MaxSends]
    BY <1>0, <2>1 DEF TurnAccepted, Exists, Plain
  <2>3. running' \subseteq [mate : Codex, turn : 1 .. MaxSends]
    BY <1>0, <2>1 DEF TurnAccepted, Plain
  <2>4. pending' \subseteq pending
    BY DEF TurnAccepted
  <2> QED
    BY <1>0, <2>2, <2>3, <2>4 DEF TurnAccepted, Plain
<1>2. Loops' /\ frames' \in Seq(Frame)
  BY <1>0, LoopsKept, LoopsOver DEF TurnAccepted
<1>3. Waits' /\ Children'
  <2>1. r.mate \in Codex
    BY <1>0 DEF Threads
  <2> QED
    BY <1>0, <2>1 DEF TurnAccepted, Waits, Children, Exists, Plain
<1>4. Threads'
  BY <1>0, ThreadsKept DEF TurnAccepted
<1>5. spare' \subseteq Codex
  BY <1>0 DEF TurnAccepted
<1> QED
  BY <1>1, <1>2, <1>3, <1>4, <1>5, Parts

\* The answer to an interrupt.
LEMMA InterruptedStep ==
    ASSUME MateInv, NEW r \in asked, asked' = asked \ {r},
           UNCHANGED <<starts, nextId>>, Interrupted(r)
    PROVE  MateInv'
<1>0. /\ Plain /\ frames \in Seq(Frame) /\ Waits /\ Children /\ Loops /\ Threads
      /\ spare \subseteq Codex /\ Codex \subseteq Mates /\ Temporary \subseteq Mates
  BY Parts, Bounds
<1>1. Plain'
  BY <1>0, Bounds DEF Interrupted, Plain
<1>2. Loops' /\ frames' \in Seq(Frame)
  BY <1>0, LoopsKept, LoopsOver DEF Interrupted
<1>3. Waits' /\ Children'
  BY <1>0 DEF Interrupted, Exists, Waits, Children, Plain
<1>4. Threads'
  BY <1>0, ThreadsKept DEF Interrupted
<1>5. spare' \subseteq Codex
  BY <1>0 DEF Interrupted
<1> QED
  BY <1>1, <1>2, <1>3, <1>4, <1>5, Parts

\* A refusal: the mate it hits has a turn whose end it reports, or no thread and so no one who waits.
LEMMA RefusedStep ==
    ASSUME MateInv, NEW r \in asked, asked' = asked \ {r},
           UNCHANGED <<starts, nextId>>, Refused(r)
    PROVE  MateInv'
<1>0. /\ Plain /\ frames \in Seq(Frame) /\ Waits /\ Children /\ Loops /\ Threads
      /\ spare \subseteq Codex /\ Codex \subseteq Mates /\ Temporary \subseteq Mates
  BY Parts, Bounds
<1>1. Plain'
  <2>1. undefined' \in BOOLEAN /\ status' \in [Mates -> {"idle", "busy", "error"}]
    BY <1>0 DEF Refused, Plain
  <2>2. pending' \subseteq pending
    BY DEF Refused
  <2>3. waiting' \subseteq Mates /\ spare' \subseteq Mates /\ cleanup' \subseteq Temporary
    BY <1>0 DEF Refused, Replies, NoReply, Plain
  <2> QED
    BY <1>0, <2>1, <2>2, <2>3 DEF Refused, Plain
<1>2. Loops' /\ frames' \in Seq(Frame)
  BY <1>0, LoopsKept, LoopsOver DEF Refused
<1>3. Waits' /\ Children'
  <2> DEFINE ms == {p.mate : p \in EntryFor(r)} \cap {m \in Mates : Exists(m)}
  <2>1. /\ status' = [m \in Mates |-> IF m \in ms THEN "error" ELSE status[m]]
        /\ waiting' \subseteq waiting
        /\ (\E p \in EntryFor(r) : p.kind = "turn") => waiting' = waiting \ ms
        /\ UNCHANGED <<phase, thread, active>>
    BY DEF Refused, Replies, NoReply
  <2>2. ms \subseteq Codex
    BY <1>0 DEF EntryFor, Threads
  <2>3. ms \cap waiting' = {}
    <3>1. CASE \E p \in EntryFor(r) : p.kind = "turn"
      BY <2>1, <3>1
    <3>2. CASE ~\E p \in EntryFor(r) : p.kind = "turn"
      <4>1. \A p \in EntryFor(r) : p.kind = "thread" /\ ~thread[p.mate] /\ p.mate \in Codex
        BY <1>0, <3>2 DEF EntryFor, Threads
      <4>2. \A m \in ms : ~thread[m] /\ m \in Codex
        BY <4>1
      <4> QED
        BY <1>0, <2>1, <4>2 DEF Waits
    <3> QED
      BY <3>1, <3>2
  <2>4. \A m \in waiting \ ms : m \in waiting'
    BY <2>1 DEF Refused, Replies, NoReply
  <2> HIDE DEF ms
  <2> QED
    BY <1>0, <2>1, <2>2, <2>3, <2>4 DEF Waits, Children, Exists, Plain
<1>4. Threads'
  BY <1>0, ThreadsKept DEF Refused
<1>5. spare' \subseteq Codex
  <2>1. {p.mate : p \in EntryFor(r)} \subseteq Codex
    BY <1>0 DEF EntryFor, Threads
  <2> QED
    BY <1>0, <2>1 DEF Refused, Replies, NoReply
<1> QED
  BY <1>1, <1>2, <1>3, <1>4, <1>5, Parts

-----------------------------------------------------------------------------
LEMMA InitStep ==
    ASSUME Init
    PROVE  MateInv
<1>1. Plain
  BY Bounds DEF Init, Plain
<1>2. frames \in Seq(Frame) /\ DOMAIN frames = {}
  BY DEF Init
<1>3. Waits /\ Children /\ Loops /\ Threads /\ spare \subseteq Codex
  BY <1>2 DEF Init, Waits, Children, Loops, Threads
<1> QED
  BY <1>1, <1>2, <1>3, Parts

LEMMA NextStep ==
    ASSUME MateInv, [Next]_vars
    PROVE  MateInv'
<1>1. CASE UNCHANGED vars
  BY <1>1 DEF vars, client, MateInv, TypeOK, Waits, Exists, Children, Loops, Threads
<1>2. CASE \E m \in Mates :
              \/ CreateTmagent(m) \/ CreateCodex(m) \/ CreateStarting(m)
              \/ SendCodex(m) \/ SendTmagent(m) \/ ChildEnds(m) \/ Interrupt(m)
              \/ RemoveTeammate(m) \/ QueuedRemoval(m) \/ TurnTimeout(m)
  BY <1>2, CreateTmagentStep, CreateCodexStep, CreateStartingStep, SendCodexStep, SendTmagentStep,
     ChildEndsStep, InterruptStep, RemoveTeammateStep, QueuedRemovalStep, TurnTimeoutStep
<1>3. CASE \E i \in DOMAIN frames : LoopTimeout(i)
  BY <1>3, LoopTimeoutStep
<1>4. CASE Answer
  BY <1>4, HandshakeStep, ThreadStartedStep, TurnAcceptedStep, InterruptedStep, RefusedStep DEF Answer
<1>5. CASE ReadyReturns \/ SessionReturns
  BY <1>5, ReadyReturnsStep, SessionReturnsStep
<1>6. CASE Activity \/ ErrorNotification \/ TurnCompleted \/ ServerStops \/ GarbledLine
  BY <1>6, ActivityStep, ErrorNotificationStep, TurnCompletedStep, ServerStopsStep, GarbledLineStep
<1> QED
  BY <1>1, <1>2, <1>3, <1>4, <1>5, <1>6 DEF Next

\* The invariant of the teammates holds in every state, whatever the app-server answers and
\* when.
THEOREM Team == Spec => []MateInv
<1>1. Init => MateInv
  BY InitStep
<1>2. MateInv /\ [Next]_vars => MateInv'
  BY NextStep
<1> QED
  BY <1>1, <1>2, PTL DEF Spec

\* Nobody waits in silence: a message that was accepted waits only on a busy mate, so that
\* whatever ends the turn has told the sender (TeammateManager's turnCompleted), and a
\* tmagent mate tells nobody twice.
THEOREM ToldOfTheEnd == Spec => []NoSilentMate
<1>1. MateInv => NoSilentMate
  BY DEF MateInv, Waits, NoSilentMate
<1> QED
  BY <1>1, Team, PTL
=============================================================================
