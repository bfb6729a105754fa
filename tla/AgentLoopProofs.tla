-------------------------- MODULE AgentLoopProofs --------------------------
(***************************************************************************)
(* Proofs about AgentLoop, for every set of calls and every bound: its     *)
(* type, that the results of a round are results of its calls, that a turn *)
(* goes on only when its round is over, and that the service never waits   *)
(* for nothing.                                                            *)
(*                                                                         *)
(* What makes them inductive is where a call may be: a frame of            *)
(* executeToolCalls still has to run it or waits for it, or its result is  *)
(* still to come from the bus, and it is in one of these places only,      *)
(* since an id is used again only when nothing refers to it.               *)
(*                                                                         *)
(* And about the components that MCAgentLoop composes with it, each with   *)
(* an inductive invariant of its own: the tools of a service and the calls *)
(* to language servers; terminals, the command line and the client of the  *)
(* app-server; the limits of the tool loop.  Their variables are w1, w2,   *)
(* ... as MCAgentLoop gives them.                                          *)
(***************************************************************************)
EXTENDS MCAgentLoop, FunctionTheorems, SequenceTheorems, FiniteSetTheorems, TLAPS

Held(k) == frames[k].rest \cup frames[k].at

\* Calls whose tool still has to run, runs, or has still to report.
Live == {c \in Calls : c \in async \/ \E k \in 1 .. Len(frames) : c \in Held(k)}

LiveOfTurn == {c \in Live : owner[c] = turn}

FrameSound(k) ==
    /\ frames[k].turn <= turn
    /\ \A c \in Held(k) : owner[c] = frames[k].turn /\ c \notin async
    /\ \A c, d \in frames[k].at : c = d
    /\ frames[k].rest \cap frames[k].at = {}
    /\ \A l \in 1 .. Len(frames) : l # k => Held(l) \cap Held(k) = {}

\* A call is in one place, and belongs to the turn whose reply made it.
Placed ==
    /\ \A k \in 1 .. Len(frames) : FrameSound(k)
    /\ \A c \in Calls : owner[c] <= turn

\* A request of the turn is under way or due; its last round, if any, is over.
Requesting ==
    /\ request \/ posts # <<>>
    /\ toolMode => waiting /\ Unresolved = {}
    /\ LiveOfTurn = {}

\* The turn waits for the calls of a round that have no result yet.
InRound ==
    /\ ~request /\ posts = <<>>
    /\ toolMode /\ ~waiting
    /\ Unresolved # {}
    /\ LiveOfTurn = Unresolved

\* A turn the service waits for is in one of the two, and its messages are kept.
Phases == busy => messages /\ (Requesting \/ InRound)

\* Nothing is under way before the first request of the service.
Begun == request \/ posts # <<>> \/ toolMode => turn # 0

LoopInv == TypeOK /\ Begun /\ ResultsOfThisTurn /\ Placed /\ Phases

-----------------------------------------------------------------------------
(* Types.                                                                  *)

LEMMA Bounds ==
    /\ RoundMax \in Nat
    /\ MaxTurns \in Nat /\ MaxToolCalls \in Nat /\ MaxToolCalls # 0 /\ Retries \in Nat
    /\ 0 \in 0 .. MaxTurns /\ 0 \in 0 .. MaxToolCalls /\ 0 \in 0 .. Retries
    /\ Retries \in 0 .. Retries
BY AgentLoopAssumption DEF AgentLoopAssumption

LEMMA CountedType == TypeOK => Counted \in 0 .. MaxToolCalls
BY Bounds DEF TypeOK, Counted

\* A result that is submitted changes only the round and the end of the turn.
LEMMA SubmitType ==
    ASSUME TypeOK, NEW c \in Calls, NEW good \in BOOLEAN, Submit(c, good)
    PROVE  /\ busy' \in BOOLEAN /\ toolMode' \in BOOLEAN /\ waiting' \in BOOLEAN
           /\ posts' \in Seq({"retry", "round"})
           /\ pending' \subseteq Calls /\ results' \subseteq Calls
           /\ success' \in BOOLEAN /\ total' \in 0 .. MaxToolCalls /\ failed' \in Nat
           /\ messages' = messages /\ retry' = retry
<1> DEFINE Typed == /\ busy' \in BOOLEAN /\ toolMode' \in BOOLEAN /\ waiting' \in BOOLEAN
                    /\ posts' \in Seq({"retry", "round"})
                    /\ pending' \subseteq Calls /\ results' \subseteq Calls
                    /\ success' \in BOOLEAN /\ total' \in 0 .. MaxToolCalls /\ failed' \in Nat
<1>1. CASE ~Accepts(c)
  BY <1>1 DEF Submit, TypeOK, agent
<1>2. CASE Accepts(c)
  <2>1. messages' = messages /\ retry' = retry
    BY <1>2 DEF Submit
  <2>2. CASE pending \subseteq results \cup {c}
    <3>1. EndRound(success \/ good)
      BY <1>2, <2>2 DEF Submit
    <3>2. CASE /\ waiting' = TRUE /\ posts' = Append(posts, "round") /\ results' = pending
               /\ success' = (success \/ good) /\ total' = Counted
               /\ failed' = (IF success \/ good THEN 0 ELSE failed + 1)
               /\ UNCHANGED <<busy, toolMode, pending>>
      <4>1. Append(posts, "round") \in Seq({"retry", "round"})
        BY DEF TypeOK
      <4>2. failed' \in Nat
        BY <3>2 DEF TypeOK
      <4>3. (success \/ good) \in BOOLEAN
        OBVIOUS
      <4> QED
        BY <2>1, <3>2, <4>1, <4>2, <4>3, CountedType DEF TypeOK
    <3>3. CASE toolMode' = FALSE /\ waiting' = FALSE /\ ResetToolState /\ EndTurn /\ posts' = posts
      BY <2>1, <3>3, Bounds DEF ResetToolState, ResetGuards, EndTurn, TypeOK
    <3> QED
      BY <3>1, <3>2, <3>3 DEF EndRound
  <2>3. CASE ~(pending \subseteq results \cup {c})
    <3>1. /\ results' = results \cup {c} /\ success' = (success \/ good) /\ total' = Counted
          /\ UNCHANGED <<busy, posts, toolMode, waiting, pending, failed>>
      BY <1>2, <2>3 DEF Submit
    <3>2. (success \/ good) \in BOOLEAN
      OBVIOUS
    <3> QED
      BY <2>1, <3>1, <3>2, CountedType DEF TypeOK
  <2> QED
    BY <2>2, <2>3
<1> QED
  BY <1>1, <1>2

\* Taking a call changes the innermost frame and leaves the others.
LEMMA TakeFrames ==
    ASSUME TypeOK, frames # <<>>, NEW c, NEW at \in SUBSET Calls, Take(c, at)
    PROVE  /\ frames' \in Seq(Frame) /\ Len(frames') = Len(frames) /\ 1 \in 1 .. Len(frames)
           /\ Head(frames) = frames[1]
           /\ frames'[1].turn = frames[1].turn
           /\ frames'[1].rest = frames[1].rest \ {c}
           /\ frames'[1].at = at
           /\ \A k \in 1 .. Len(frames) : k # 1 => frames'[k] = frames[k]
<1> DEFINE f == [Head(frames) EXCEPT !.rest = @ \ {c}, !.at = at]
<1> DEFINE r == Tail(frames)
<1>1. frames \in Seq(Frame) /\ Head(frames) = frames[1] /\ Head(frames) \in Frame
  BY DEF TypeOK
<1>2. f \in Frame /\ f.turn = frames[1].turn /\ f.rest = frames[1].rest \ {c} /\ f.at = at
  BY <1>1 DEF Frame
<1>3. r \in Seq(Frame) /\ Len(frames) = Len(r) + 1 /\ \A k \in 1 .. Len(r) : r[k] = frames[k + 1]
  BY <1>1
<1>4. frames' = <<f>> \o r
  BY DEF Take
<1> HIDE DEF f, r
<1> DEFINE g == <<f>> \o r
<1>5. g \in Seq(Frame) /\ Len(g) = Len(r) + 1 /\ g[1] = f
  BY <1>2, <1>3
<1>6. ASSUME NEW k \in 1 .. Len(frames), k # 1 PROVE g[k] = frames[k]
  <2>1. k - 1 \in 1 .. Len(r) /\ (k - 1) + 1 = k /\ k \in 1 .. Len(r) + 1
    BY <1>3, <1>6
  <2>2. g[k] = r[k - 1]
    BY <1>2, <1>3, <1>6, <2>1
  <2> QED
    BY <1>3, <2>1, <2>2
<1>7. 1 \in 1 .. Len(frames)
  BY <1>3
<1> HIDE DEF g
<1> QED
  BY <1>1, <1>2, <1>3, <1>4, <1>5, <1>6, <1>7 DEF g

LEMMA TypeInit == Init => TypeOK
<1> SUFFICES ASSUME Init PROVE TypeOK
  OBVIOUS
<1>1. posts \in Seq({"retry", "round"}) /\ frames \in Seq(Frame)
  BY DEF Init
<1> QED
  BY <1>1, Bounds DEF Init, TypeOK

LEMMA TypeStep == TypeOK /\ Begun /\ [Next]_vars => TypeOK'
<1> SUFFICES ASSUME TypeOK, Begun, [Next]_vars PROVE TypeOK'
  OBVIOUS
<1> USE Bounds
<1>0. posts \in Seq({"retry", "round"}) /\ frames \in Seq(Frame)
  BY DEF TypeOK
<1>1. CASE Send
  <2>1. posts' \in Seq({"retry", "round"}) /\ frames' \in Seq(Frame)
    BY <1>0, <1>1 DEF Send
  <2>2. turn' \in 0 .. MaxTurns
    BY <1>1 DEF Send, TypeOK
  <2> QED
    BY <1>1, <2>1, <2>2 DEF Send, TypeOK, ResetGuards
<1>2. CASE PostRound \/ PostRetry
  <2>1. posts' \in Seq({"retry", "round"}) /\ frames' \in Seq(Frame)
    <3>1. posts' = Tail(posts) /\ posts # <<>> /\ frames' = frames
      BY <1>2 DEF PostRound, PostRetry
    <3> QED
      BY <1>0, <3>1
  <2>2. request' \in BOOLEAN /\ busy' \in BOOLEAN /\ messages' \in BOOLEAN
    BY <1>2 DEF PostRound, PostRetry, Post, EndTurn, TypeOK, agent
  <2> QED
    BY <1>2, <2>1, <2>2 DEF PostRound, PostRetry, TypeOK, agent
<1>3. CASE ReplyComplete
  <2>1. posts' \in Seq({"retry", "round"}) /\ frames' \in Seq(Frame)
    BY <1>0, <1>3 DEF ReplyComplete
  <2>2. CASE UNCHANGED <<busy, toolMode, waiting, total, failed>>
    BY <1>3, <2>1, <2>2 DEF ReplyComplete, Reply, TypeOK
  <2>3. CASE /\ toolMode' = FALSE /\ waiting' \in BOOLEAN /\ total' = 0 /\ failed' = 0
             /\ busy' = FALSE
    BY <1>3, <2>1, <2>3 DEF ReplyComplete, Reply, TypeOK
  <2> QED
    BY <1>3, <2>2, <2>3 DEF ReplyComplete, TypeOK, ResetGuards, EndTurn
<1>4. CASE ReplyError
  <2>1. /\ UNCHANGED <<turn, messages, pending, results, success, owner, frames, async>>
        /\ request' = FALSE
    BY <1>4 DEF ReplyError, Reply
  <2>2. /\ busy' \in BOOLEAN /\ toolMode' \in BOOLEAN /\ waiting' \in BOOLEAN
        /\ total' \in 0 .. MaxToolCalls /\ failed' \in Nat
    <3>1. \/ UNCHANGED <<busy, toolMode, waiting, total, failed>>
          \/ toolMode' = FALSE /\ waiting' = FALSE /\ total' = 0 /\ failed' = 0 /\ busy' = FALSE
      BY <1>4 DEF ReplyError, ResetGuards, EndTurn
    <3>2. CASE UNCHANGED <<busy, toolMode, waiting, total, failed>>
      BY <3>2 DEF TypeOK
    <3>3. CASE toolMode' = FALSE /\ waiting' = FALSE /\ total' = 0 /\ failed' = 0 /\ busy' = FALSE
      BY <3>3
    <3> QED
      BY <3>1, <3>2, <3>3
  <2>3. posts' = posts \/ posts' = Append(posts, "retry")
    BY <1>4 DEF ReplyError
  <2>4. posts' \in Seq({"retry", "round"}) /\ frames' \in Seq(Frame)
    BY <1>0, <2>1, <2>3
  <2>5. retry' \in 0 .. Retries
    <3>1. retry' = retry \/ (retry > 0 /\ retry' = retry - 1)
      BY <1>4 DEF ReplyError, MayRetry
    <3> QED
      BY <3>1 DEF TypeOK
  <2> QED
    BY <2>1, <2>2, <2>4, <2>5 DEF TypeOK
<1>5. CASE ReplyToolCalls
  <2>1. PICK calls \in SUBSET Fresh :
            /\ pending' = calls
            /\ owner' = [c \in Calls |-> IF c \in calls THEN turn ELSE owner[c]]
            /\ frames' = <<[turn |-> turn, rest |-> calls, at |-> {}]>> \o frames
    BY <1>5 DEF ReplyToolCalls, Registered
  <2>2. calls \subseteq Calls
    BY DEF Fresh
  <2>3. owner' \in [Calls -> 0 .. MaxTurns]
    BY <2>1 DEF TypeOK
  <2>4. turn \in 1 .. MaxTurns
    <3>1. turn # 0
      BY <1>5 DEF ReplyToolCalls, Reply, Begun
    <3> QED
      BY <3>1 DEF TypeOK
  <2>5. frames' \in Seq(Frame) /\ posts' \in Seq({"retry", "round"})
    <3> DEFINE f == [turn |-> turn, rest |-> calls, at |-> {}]
    <3>1. f \in Frame
      BY <2>2, <2>4 DEF Frame
    <3> HIDE DEF f
    <3>2. <<f>> \o frames \in Seq(Frame)
      BY <1>0, <3>1
    <3> QED
      BY <1>0, <1>5, <2>1, <3>2 DEF f, ReplyToolCalls
  <2> QED
    BY <1>5, <2>1, <2>2, <2>3, <2>5 DEF ReplyToolCalls, Reply, TypeOK
<1>6. ASSUME NEW c \in Calls, RejectTool(c) \/ StartTool(c) PROVE TypeOK'
  <2>1. frames # <<>> /\ UNCHANGED <<turn, request, owner>>
    BY <1>6 DEF RejectTool, StartTool, Running
  <2>2. frames' \in Seq(Frame)
    BY <1>6, <2>1, TakeFrames DEF RejectTool, StartTool
  <2>3. async' \subseteq Calls
    BY <1>6 DEF RejectTool, StartTool, TypeOK
  <2>4. \/ \E good \in BOOLEAN : Submit(c, good)
        \/ UNCHANGED <<busy, posts, agent>>
    BY <1>6 DEF RejectTool, StartTool
  <2>5. CASE \E good \in BOOLEAN : Submit(c, good)
    BY <2>1, <2>2, <2>3, <2>5, SubmitType DEF TypeOK
  <2>6. CASE UNCHANGED <<busy, posts, agent>>
    BY <1>0, <2>1, <2>2, <2>3, <2>6 DEF TypeOK, agent
  <2> QED
    BY <2>4, <2>5, <2>6
<1>7. CASE FinishTool
  <2>1. PICK c \in Calls, good \in BOOLEAN : Take(c, {}) /\ Submit(c, good)
    <3>1. Head(frames).at \subseteq Calls
      <4>1. Head(frames) \in Frame
        BY <1>0, <1>7 DEF FinishTool
      <4> QED
        BY <4>1 DEF Frame
    <3> QED
      BY <1>7, <3>1 DEF FinishTool
  <2>2. frames # <<>> /\ UNCHANGED <<turn, request, owner, async>>
    BY <1>7 DEF FinishTool
  <2>3. frames' \in Seq(Frame)
    BY <2>1, <2>2, TakeFrames
  <2> QED
    BY <2>1, <2>2, <2>3, SubmitType DEF TypeOK
<1>8. CASE LeaveTools
  <2>1. frames # <<>> /\ frames' = Tail(frames)
    BY <1>8 DEF LeaveTools
  <2>2. frames' \in Seq(Frame)
    BY <1>0, <2>1
  <2> QED
    BY <1>0, <1>8, <2>2 DEF LeaveTools, TypeOK, agent
<1>9. ASSUME NEW c \in Calls, DeferredResult(c) PROVE TypeOK'
  <2>1. PICK good \in BOOLEAN : Submit(c, good)
    BY <1>9 DEF DeferredResult
  <2>2. UNCHANGED <<turn, request, owner, frames>> /\ async' = async \ {c}
    BY <1>9 DEF DeferredResult
  <2> QED
    BY <1>0, <2>1, <2>2, SubmitType DEF TypeOK
<1>10. CASE Abort
  <2>1. posts' \in Seq({"retry", "round"}) /\ frames' \in Seq(Frame)
    BY <1>0, <1>10 DEF Abort
  <2> QED
    BY <1>10, <2>1 DEF Abort, TypeOK, ResetToolState, ResetGuards, EndTurn
<1>11. CASE UNCHANGED vars
  BY <1>0, <1>11 DEF vars, agent, TypeOK
<1> QED
  BY <1>1, <1>2, <1>3, <1>4, <1>5, <1>6, <1>7, <1>8, <1>9, <1>10, <1>11
     DEF Next, Replies, RunTools

-----------------------------------------------------------------------------
(* Where a call is.                                                        *)

\* What leaves the frames, the calls that will report and their turn alone.
LEMMA PlacedFrame ==
    ASSUME Placed, UNCHANGED <<turn, owner, frames, async>>
    PROVE  Placed' /\ Live' = Live /\ LiveOfTurn' = LiveOfTurn
<1>1. \A k : Held(k)' = Held(k)
  BY DEF Held
<1>2. Live' = Live /\ LiveOfTurn' = LiveOfTurn
  BY <1>1 DEF Live, LiveOfTurn
<1>3. Placed'
  BY <1>1 DEF Placed, FrameSound
<1> QED
  BY <1>2, <1>3

\* The innermost call of executeToolCalls takes a call, or is done with it: it is
\* nowhere any more, unless it waits for it or the bus will report it.
LEMMA PlacedTake ==
    ASSUME TypeOK, Placed, frames # <<>>, NEW c \in Calls, NEW at \in {{}, {c}},
           Take(c, at), c \in Head(frames).rest \cup Head(frames).at, Head(frames).at \subseteq {c},
           UNCHANGED <<turn, owner>>, async' \in {async, async \cup {c}},
           at = {c} => async' = async
    PROVE  /\ Placed'
           /\ at = {} /\ async' = async => Live' = Live \ {c}
           /\ at = {c} \/ async' = async \cup {c} => Live' = Live
<1> DEFINE n == Len(frames)
<1>1. /\ n \in Nat /\ Len(frames') = n /\ 1 \in 1 .. n
      /\ Head(frames) = frames[1]
      /\ frames'[1].turn = frames[1].turn
      /\ frames'[1].rest = frames[1].rest \ {c}
      /\ frames'[1].at = at
      /\ \A k \in 1 .. n : k # 1 => frames'[k] = frames[k]
  <2>1. at \in SUBSET Calls
    OBVIOUS
  <2> QED
    BY <2>1, TakeFrames DEF TypeOK
<1> HIDE DEF n
<1>2. /\ Held(1)' = (Held(1) \ {c}) \cup at
      /\ c \in Held(1)
      /\ \A k \in 1 .. n : k # 1 => Held(k)' = Held(k)
  BY <1>1 DEF Held
<1>3. /\ \A k \in 1 .. n : FrameSound(k)
      /\ \A d \in Calls : owner[d] <= turn
  BY DEF Placed, n
<1>4. \A k \in 1 .. n : k # 1 => c \notin Held(k)
  BY <1>1, <1>2, <1>3 DEF FrameSound, n
<1>5. c \notin async
  BY <1>1, <1>2, <1>3 DEF FrameSound
<1>6. ASSUME NEW k \in 1 .. n PROVE FrameSound(k)'
  <2>1. FrameSound(k)
    BY <1>3
  <2>2. frames'[k].turn = frames[k].turn /\ Held(k)' \subseteq Held(k)
    BY <1>1, <1>2
  <2>3. frames'[k].turn <= turn'
    BY <2>1, <2>2 DEF FrameSound
  <2>4. \A d \in Held(k)' : owner'[d] = frames'[k].turn /\ d \notin async'
    <3>1. ASSUME NEW d \in Held(k)', d = c PROVE async' = async
      BY <1>2, <1>4, <3>1, <1>1
    <3> QED
      BY <2>1, <2>2, <3>1 DEF FrameSound
  <2>5. (\A d, e \in frames'[k].at : d = e) /\ frames'[k].rest \cap frames'[k].at = {}
    <3>1. CASE k = 1
      BY <1>1, <3>1
    <3>2. CASE k # 1
      BY <1>1, <2>1, <3>2 DEF FrameSound
    <3> QED
      BY <3>1, <3>2
  <2>6. \A l \in 1 .. n : l # k => Held(l)' \cap Held(k)' = {}
    <3>1. \A l \in 1 .. n : Held(l)' \subseteq Held(l)
      BY <1>2
    <3>2. \A l \in 1 .. n : l # k => Held(l) \cap Held(k) = {}
      BY <2>1 DEF FrameSound, n
    <3> QED
      BY <3>1, <3>2
  <2> QED
    BY <1>1, <2>3, <2>4, <2>5, <2>6 DEF FrameSound
<1>7. Placed'
  BY <1>1, <1>3, <1>6 DEF Placed
<1>8. Live' = {d \in Calls : d \in async' \/ \E k \in 1 .. n : d \in Held(k)'}
  BY <1>1 DEF Live
<1>9. Live = {d \in Calls : d \in async \/ \E k \in 1 .. n : d \in Held(k)}
  BY DEF Live, n
<1>10. \A d \in Calls : d # c =>
          ((\E k \in 1 .. n : d \in Held(k)') <=> (\E k \in 1 .. n : d \in Held(k)))
  BY <1>2
<1>11. (\E k \in 1 .. n : c \in Held(k)') <=> at = {c}
  BY <1>1, <1>2, <1>4
<1>12. ASSUME at = {}, async' = async PROVE Live' = Live \ {c}
  BY <1>5, <1>8, <1>9, <1>10, <1>11, <1>12
<1>13. ASSUME at = {c} \/ async' = async \cup {c} PROVE Live' = Live
  BY <1>1, <1>2, <1>8, <1>9, <1>10, <1>11, <1>13
<1> QED
  BY <1>7, <1>12, <1>13

\* A reply's calls, which nothing refers to, get a frame of their own.
LEMMA PlacedPush ==
    ASSUME TypeOK, Placed, NEW calls \in SUBSET Fresh, turn \in 1 .. MaxTurns,
           owner' = [c \in Calls |-> IF c \in calls THEN turn ELSE owner[c]],
           frames' = <<[turn |-> turn, rest |-> calls, at |-> {}]>> \o frames,
           UNCHANGED <<turn, async>>
    PROVE  /\ Placed'
           /\ Live' = Live \cup calls
           /\ Live \cap calls = {}
<1> DEFINE n == Len(frames)
<1> DEFINE f == [turn |-> turn, rest |-> calls, at |-> {}]
<1>1. frames \in Seq(Frame) /\ n \in Nat
  BY DEF TypeOK
<1>2. calls \subseteq Calls
  BY DEF Fresh
<1>3. f \in Frame /\ f.turn = turn /\ f.rest = calls /\ f.at = {} /\ frames' = <<f>> \o frames
  BY <1>2 DEF Frame
<1> HIDE DEF f
<1> DEFINE g == <<f>> \o frames
<1>4. Len(g) = n + 1 /\ g[1] = f /\ \A k \in 1 .. n : g[k + 1] = frames[k]
  BY <1>1, <1>3
<1> HIDE DEF n, g
<1>5. /\ Held(1)' = calls /\ frames'[1] = f /\ Len(frames') = n + 1
      /\ \A k \in 1 .. n : frames'[k + 1] = frames[k] /\ Held(k + 1)' = Held(k)
  BY <1>3, <1>4 DEF Held, g
<1>6. \A j \in 1 .. n + 1 : j = 1 \/ \E k \in 1 .. n : j = k + 1
  <2> SUFFICES ASSUME NEW j \in 1 .. n + 1, j # 1 PROVE j - 1 \in 1 .. n /\ j = (j - 1) + 1
    OBVIOUS
  <2> QED
    BY <1>1
<1>7. \A k \in 1 .. n : k + 1 \in 1 .. n + 1
  BY <1>1
<1>8. 1 \in 1 .. n + 1
  BY <1>1
<1>9. Live = {d \in Calls : d \in async \/ \E k \in 1 .. n : d \in Held(k)}
  BY DEF Live, n
<1>10. Live' = {d \in Calls : d \in async \/ \E j \in 1 .. n + 1 : d \in Held(j)'}
  BY <1>5 DEF Live
<1>11. \A c \in calls : c \notin async /\ \A k \in 1 .. n : c \notin Held(k)
  BY DEF Fresh, Held, n
<1>12. Live' = Live \cup calls
  <2>1. ASSUME NEW d \in Calls, NEW j \in 1 .. n + 1, d \in Held(j)'
        PROVE  d \in calls \/ \E k \in 1 .. n : d \in Held(k)
    BY <1>5, <1>6, <2>1
  <2>2. ASSUME NEW d \in Calls, NEW k \in 1 .. n, d \in Held(k)
        PROVE  \E j \in 1 .. n + 1 : d \in Held(j)'
    BY <1>5, <1>7, <2>2
  <2>3. ASSUME NEW d \in calls PROVE \E j \in 1 .. n + 1 : d \in Held(j)'
    BY <1>5, <1>8
  <2>4. Live' \subseteq Live \cup calls
    BY <1>9, <1>10, <2>1
  <2>5. Live \subseteq Live'
    BY <1>9, <1>10, <2>2
  <2>6. calls \subseteq Live'
    BY <1>2, <1>10, <2>3
  <2> QED
    BY <2>4, <2>5, <2>6
<1>13. Live \cap calls = {}
  BY <1>9, <1>11
<1>14. \A c \in Calls : owner'[c] <= turn'
  BY DEF Placed, TypeOK
<1>15. \A k \in 1 .. n : FrameSound(k)
  BY DEF Placed, n
<1>16. \A c \in calls : owner'[c] = turn
  BY <1>2
<1>17. ASSUME NEW k \in 1 .. n PROVE \A c \in Held(k) : c \notin calls /\ owner'[c] = owner[c]
  <2>1. \A c \in Held(k) : c \in Calls
    <3>1. frames[k] \in Frame
      BY <1>1, <1>17 DEF n
    <3> QED
      BY <3>1 DEF Held, Frame
  <2> QED
    BY <1>11, <2>1
<1>18. FrameSound(1)'
  <2>1. ASSUME NEW l \in 1 .. n + 1, l # 1 PROVE Held(l)' \cap Held(1)' = {}
    BY <1>5, <1>6, <1>11, <2>1
  <2> QED
    BY <1>3, <1>5, <1>11, <1>16, <2>1 DEF FrameSound, TypeOK
<1>19. ASSUME NEW k \in 1 .. n PROVE FrameSound(k + 1)'
  <2>1. FrameSound(k)
    BY <1>15
  <2>2. \A c \in Held(k) : owner'[c] = frames[k].turn /\ c \notin async'
    BY <1>17, <2>1 DEF FrameSound
  <2>3. ASSUME NEW j \in 1 .. n + 1, j # k + 1 PROVE Held(j)' \cap Held(k) = {}
    <3>1. CASE j = 1
      BY <1>5, <1>11, <3>1
    <3>2. ASSUME NEW l \in 1 .. n, j = l + 1 PROVE Held(j)' \cap Held(k) = {}
      <4>1. l # k
        BY <2>3, <3>2
      <4> QED
        BY <1>5, <2>1, <3>2, <4>1 DEF FrameSound, n
    <3> QED
      BY <1>6, <3>1, <3>2
  <2> QED
    BY <1>5, <2>1, <2>2, <2>3 DEF FrameSound
<1>20. Placed'
  BY <1>5, <1>6, <1>14, <1>18, <1>19 DEF Placed
<1> QED
  BY <1>12, <1>13, <1>20

\* executeToolCalls returns.
LEMMA PlacedPop ==
    ASSUME TypeOK, Placed, frames # <<>>, frames' = Tail(frames), Head(frames).at = {},
           UNCHANGED <<turn, owner, async>>
    PROVE  /\ Placed'
           /\ Live' \subseteq Live
           /\ Head(frames).rest = {} => Live' = Live
<1> DEFINE n == Len(frames')
<1>1. /\ n \in Nat /\ Len(frames) = n + 1 /\ Head(frames) = frames[1]
      /\ \A k \in 1 .. n : frames'[k] = frames[k + 1]
  BY DEF TypeOK
<1> HIDE DEF n
<1>2. \A k \in 1 .. n : Held(k)' = Held(k + 1) /\ k + 1 \in 1 .. n + 1
  BY <1>1 DEF Held
<1>3. \A j \in 1 .. n + 1 : j = 1 \/ \E k \in 1 .. n : j = k + 1
  <2> SUFFICES ASSUME NEW j \in 1 .. n + 1, j # 1 PROVE j - 1 \in 1 .. n /\ j = (j - 1) + 1
    OBVIOUS
  <2> QED
    BY <1>1
<1>4. Live' = {d \in Calls : d \in async \/ \E k \in 1 .. n : d \in Held(k)'}
  BY DEF Live, n
<1>5. Live = {d \in Calls : d \in async \/ \E j \in 1 .. n + 1 : d \in Held(j)}
  BY <1>1 DEF Live
<1>6. Live' \subseteq Live
  BY <1>2, <1>4, <1>5
<1>7. ASSUME Head(frames).rest = {} PROVE Live' = Live
  <2>1. Held(1) = {}
    BY <1>1, <1>7 DEF Held
  <2> QED
    BY <1>2, <1>3, <1>4, <1>5, <2>1
<1>8. \A j \in 1 .. n + 1 : FrameSound(j)
  BY <1>1 DEF Placed
<1>9. ASSUME NEW k \in 1 .. n PROVE FrameSound(k)'
  <2>1. FrameSound(k + 1)
    BY <1>2, <1>8
  <2>2. ASSUME NEW l \in 1 .. n, l # k PROVE Held(l)' \cap Held(k)' = {}
    <3>1. l + 1 # k + 1 /\ l + 1 \in 1 .. Len(frames)
      BY <1>1, <1>2, <2>2
    <3> QED
      BY <1>2, <2>1, <3>1 DEF FrameSound
  <2> QED
    BY <1>1, <1>2, <2>1, <2>2 DEF FrameSound, n
<1>10. Placed'
  BY <1>9 DEF Placed, n
<1> QED
  BY <1>6, <1>7, <1>10

-----------------------------------------------------------------------------
(* The steps.                                                              *)

Sound == Begun /\ ResultsOfThisTurn /\ Placed /\ Phases

\* A result that is submitted belongs to the round of the turn or changes nothing:
\* the round goes on with one call less, or it is over.
LEMMA SubmitSound ==
    ASSUME LoopInv, NEW c \in Live, NEW good \in BOOLEAN, Submit(c, good),
           UNCHANGED <<turn, request, owner>>, Placed', Live' = Live \ {c}
    PROVE  Begun' /\ ResultsOfThisTurn' /\ Phases'
<1>1. LiveOfTurn' = LiveOfTurn \ {c}
  BY DEF LiveOfTurn
<1>2. CASE ~Accepts(c)
  <2>1. UNCHANGED <<busy, posts, messages, toolMode, waiting, pending, results>>
    BY <1>2 DEF Submit, agent
  <2>2. ASSUME InRound, busy PROVE c \notin LiveOfTurn
    BY <1>2, <2>2 DEF InRound, Unresolved, Accepts
  <2>3. ASSUME InRound, busy PROVE InRound'
    BY <1>1, <2>1, <2>2, <2>3 DEF InRound, Unresolved
  <2>4. ASSUME Requesting PROVE Requesting'
    BY <1>1, <2>1, <2>4 DEF Requesting, Unresolved
  <2>5. Phases'
    BY <2>1, <2>3, <2>4 DEF LoopInv, Phases
  <2>6. Begun' /\ ResultsOfThisTurn'
    BY <2>1 DEF LoopInv, Begun, ResultsOfThisTurn
  <2> QED
    BY <2>5, <2>6
<1>3. CASE Accepts(c)
  <2>1. /\ toolMode /\ ~waiting /\ c \in pending /\ c \notin results
        /\ results \subseteq pending /\ owner[c] = turn /\ turn # 0
        /\ messages' = messages
        /\ \A d \in pending : owner'[d] = turn'
    BY <1>3 DEF Accepts, LoopInv, ResultsOfThisTurn, Begun, Submit
  <2>2. busy => InRound /\ messages
    BY <2>1 DEF LoopInv, Phases, Requesting
  <2>3. CASE pending \subseteq results \cup {c}
    <3>1. EndRound(success \/ good)
      BY <1>3, <2>3 DEF Submit
    <3>2. CASE /\ waiting' = TRUE /\ posts' = Append(posts, "round") /\ results' = pending
               /\ UNCHANGED <<busy, toolMode, pending>>
      <4>1. posts' # <<>>
        <5>1. posts \in Seq({"retry", "round"})
          BY DEF LoopInv, TypeOK
        <5> QED
          BY <3>2, <5>1
      <4>2. busy => LiveOfTurn' = {}
        BY <1>1, <2>2, <2>3 DEF InRound, Unresolved
      <4>3. Unresolved' = {}
        BY <3>2 DEF Unresolved
      <4>4. Phases'
        BY <2>1, <2>2, <3>2, <4>1, <4>2, <4>3 DEF Phases, Requesting
      <4>5. Begun' /\ ResultsOfThisTurn'
        BY <2>1, <3>2 DEF Begun, ResultsOfThisTurn
      <4> QED
        BY <4>4, <4>5
    <3>3. CASE toolMode' = FALSE /\ busy' = FALSE
      BY <2>1, <3>3 DEF Begun, ResultsOfThisTurn, Phases
    <3> QED
      BY <3>1, <3>2, <3>3 DEF EndRound, EndTurn
  <2>4. CASE ~(pending \subseteq results \cup {c})
    <3>1. results' = results \cup {c} /\ UNCHANGED <<busy, posts, toolMode, waiting, pending>>
      BY <1>3, <2>4 DEF Submit
    <3>2. Unresolved' = Unresolved \ {c} /\ Unresolved' # {}
      BY <2>4, <3>1 DEF Unresolved
    <3>3. Phases'
      BY <1>1, <2>1, <2>2, <3>1, <3>2 DEF Phases, InRound
    <3>4. Begun' /\ ResultsOfThisTurn'
      BY <2>1, <3>1 DEF Begun, ResultsOfThisTurn
    <3> QED
      BY <3>3, <3>4
  <2> QED
    BY <2>3, <2>4
<1> QED
  BY <1>2, <1>3

\* A call that moves, but is still to report, changes nothing.
LEMMA MovedSound ==
    ASSUME LoopInv, UNCHANGED <<turn, request, owner, busy, posts, agent>>, Placed', Live' = Live
    PROVE  Sound'
<1>1. LiveOfTurn' = LiveOfTurn
  BY DEF LiveOfTurn
<1>2. (Requesting => Requesting') /\ (InRound => InRound')
  BY <1>1 DEF Requesting, InRound, Unresolved, agent
<1>3. Phases'
  BY <1>2 DEF LoopInv, Phases, agent
<1> QED
  BY <1>3 DEF LoopInv, Sound, Begun, ResultsOfThisTurn, agent

\* A new request of the service: no call of the turn has been made.
LEMMA SendSound ==
    ASSUME LoopInv, Send
    PROVE  Sound'
<1>1. /\ turn' = turn + 1 /\ toolMode' = FALSE /\ messages' = TRUE /\ turn \in Nat
      /\ busy' => request'
      /\ UNCHANGED <<owner, frames, async>>
  BY DEF Send, LoopInv, TypeOK
<1>2. /\ \A k : Held(k)' = Held(k)
      /\ \A c \in Calls : owner[c] <= turn /\ owner[c] \in Nat
      /\ \A k \in 1 .. Len(frames) : FrameSound(k) /\ frames[k].turn \in Nat
  <2>1. \A k : Held(k)' = Held(k)
    BY <1>1 DEF Held
  <2>2. \A c \in Calls : owner[c] <= turn /\ owner[c] \in Nat
    <3>1. owner \in [Calls -> 0 .. MaxTurns]
      BY DEF LoopInv, TypeOK
    <3> QED
      BY <3>1, Bounds DEF LoopInv, Placed
  <2>3. ASSUME NEW k \in 1 .. Len(frames) PROVE FrameSound(k) /\ frames[k].turn \in Nat
    <3>1. frames[k] \in Frame
      BY DEF LoopInv, TypeOK
    <3> QED
      BY <3>1, Bounds DEF LoopInv, Placed, Frame
  <2> QED
    BY <2>1, <2>2, <2>3
<1>3. LiveOfTurn' = {}
  BY <1>1, <1>2 DEF LiveOfTurn, Live
<1>4. ASSUME NEW k \in 1 .. Len(frames) PROVE FrameSound(k)'
  <2>1. frames[k].turn <= turn + 1
    BY <1>1, <1>2 DEF FrameSound
  <2> QED
    BY <1>1, <1>2, <2>1 DEF FrameSound
<1>5. Placed'
  BY <1>1, <1>2, <1>4 DEF Placed
<1>6. Phases' /\ Begun' /\ ResultsOfThisTurn'
  BY <1>1, <1>3 DEF Phases, Requesting, Begun, ResultsOfThisTurn
<1> QED
  BY <1>5, <1>6 DEF Sound

\* A timer that was posted sends the next request of the turn, or ends the turn.
LEMMA PostSound ==
    ASSUME LoopInv, PostRound \/ PostRetry
    PROVE  Sound'
<1>1. /\ posts # <<>> /\ UNCHANGED <<turn, toolMode, waiting, pending, results, owner, frames, async>>
      /\ posts' = Tail(posts)
  BY DEF PostRound, PostRetry, agent
<1>2. messages' => \/ request' = TRUE /\ busy' = busy
                   \/ request' = FALSE /\ busy' = FALSE
  BY DEF PostRound, PostRetry, Post, EndTurn, agent
<1>3. /\ messages => messages'
      /\ ~messages' => UNCHANGED <<request, busy>>
  BY DEF PostRound, PostRetry, agent
<1>4. Placed' /\ LiveOfTurn' = LiveOfTurn
  BY <1>1, PlacedFrame DEF LoopInv
<1>5. busy' => busy
  BY <1>2, <1>3 DEF LoopInv, TypeOK
<1>6. ASSUME busy' PROVE messages' /\ Requesting'
  <2>1. messages' /\ Requesting
    BY <1>1, <1>3, <1>5, <1>6 DEF LoopInv, Phases, InRound
  <2>2. request'
    BY <1>2, <1>6, <2>1
  <2> QED
    BY <1>1, <1>4, <2>1, <2>2 DEF Requesting, Unresolved
<1>7. turn' # 0
  BY <1>1 DEF LoopInv, Begun
<1> QED
  BY <1>1, <1>4, <1>6, <1>7 DEF LoopInv, Sound, Phases, Begun, ResultsOfThisTurn

\* The reply of the model ends the turn, ...
LEMMA CompleteSound ==
    ASSUME LoopInv, ReplyComplete
    PROVE  Sound'
<1>1. /\ request /\ posts = <<>> /\ turn # 0
      /\ UNCHANGED <<turn, posts, messages, pending, results, owner, frames, async>>
  BY DEF ReplyComplete, Reply, LoopInv, Begun
<1>2. Placed'
  BY <1>1, PlacedFrame DEF LoopInv
<1>3. busy => Requesting
  BY <1>1 DEF LoopInv, Phases, InRound
<1>4. ~busy'
  <2>1. ~busy \/ ~(toolMode /\ (Unresolved # {} \/ ~waiting))
    BY <1>3 DEF Requesting
  <2> QED
    BY <2>1 DEF ReplyComplete, EndTurn
<1>5. toolMode' => toolMode
  BY DEF ReplyComplete, LoopInv, TypeOK
<1> QED
  BY <1>1, <1>2, <1>4, <1>5 DEF LoopInv, Sound, Phases, Begun, ResultsOfThisTurn

\* ... its error ends it too, or is retried, ...
LEMMA ErrorSound ==
    ASSUME LoopInv, ReplyError
    PROVE  Sound'
<1>1. /\ request /\ posts = <<>> /\ turn # 0
      /\ UNCHANGED <<turn, messages, pending, results, owner, frames, async>>
  BY DEF ReplyError, Reply, LoopInv, Begun
<1>2. Placed' /\ LiveOfTurn' = LiveOfTurn
  BY <1>1, PlacedFrame DEF LoopInv
<1>3. busy => Requesting /\ messages
  BY <1>1 DEF LoopInv, Phases, InRound
<1>4. busy => ~ErrorIgnored
  BY <1>3 DEF Requesting, ErrorIgnored
<1>5. \/ ErrorIgnored /\ UNCHANGED <<busy, toolMode>>
      \/ posts' = Append(posts, "retry") /\ UNCHANGED <<busy, toolMode, waiting>>
      \/ toolMode' = FALSE /\ busy' = FALSE
  BY DEF ReplyError, EndTurn
<1>6. ASSUME busy' PROVE messages' /\ Requesting'
  <2>1. busy /\ posts' = Append(posts, "retry") /\ UNCHANGED <<busy, toolMode, waiting>>
    BY <1>4, <1>5, <1>6
  <2>2. posts' # <<>>
    BY <1>1, <2>1
  <2> QED
    BY <1>1, <1>2, <1>3, <2>1, <2>2 DEF Requesting, Unresolved
<1>7. toolMode' => toolMode
  BY <1>5
<1> QED
  BY <1>1, <1>2, <1>6, <1>7 DEF LoopInv, Sound, Phases, Begun, ResultsOfThisTurn

\* ... and its tool calls begin a round.
LEMMA ToolCallsSound ==
    ASSUME LoopInv, ReplyToolCalls
    PROVE  Sound'
<1>1. PICK calls \in SUBSET Fresh :
          /\ Cardinality(calls) \in 1 .. RoundMax
          /\ pending' = calls
          /\ owner' = [c \in Calls |-> IF c \in calls THEN turn ELSE owner[c]]
          /\ frames' = <<[turn |-> turn, rest |-> calls, at |-> {}]>> \o frames
  BY DEF ReplyToolCalls, Registered
<1>2. /\ request /\ posts = <<>> /\ turn # 0 /\ request' = FALSE
      /\ toolMode' = TRUE /\ waiting' = FALSE /\ results' = {}
      /\ UNCHANGED <<turn, busy, posts, messages, async>>
  BY DEF ReplyToolCalls, Reply, LoopInv, Begun
<1>3. turn \in 1 .. MaxTurns /\ calls \subseteq Calls
  BY <1>2, Bounds DEF LoopInv, TypeOK, Fresh
<1>4. Placed' /\ Live' = Live \cup calls /\ Live \cap calls = {}
  BY <1>1, <1>2, <1>3, PlacedPush DEF LoopInv
<1>5. calls # {}
  <2>1. Cardinality({}) = 0 /\ RoundMax \in Nat
    BY FS_EmptySet, Bounds
  <2>2. 0 \notin 1 .. RoundMax
    BY <2>1
  <2>3. Cardinality(calls) # 0
    BY <1>1, <2>2
  <2> QED
    BY <2>1, <2>3
<1>6. (\A c \in calls : owner'[c] = turn) /\ (\A c \in Live : owner'[c] = owner[c])
  BY <1>1, <1>3, <1>4 DEF Live
<1>7. ASSUME busy PROVE LiveOfTurn' = calls
  <2>1. LiveOfTurn = {}
    BY <1>2, <1>7 DEF LoopInv, Phases, Requesting, InRound
  <2> QED
    BY <1>2, <1>4, <1>6, <2>1 DEF LiveOfTurn
<1>8. Unresolved' = calls
  BY <1>1, <1>2 DEF Unresolved
<1>9. Phases'
  BY <1>2, <1>5, <1>7, <1>8 DEF LoopInv, Phases, InRound
<1>10. Begun' /\ ResultsOfThisTurn'
  BY <1>1, <1>2, <1>6 DEF Begun, ResultsOfThisTurn
<1> QED
  BY <1>4, <1>9, <1>10 DEF Sound

\* A call is refused or started.
LEMMA RunSound ==
    ASSUME LoopInv, NEW c \in Calls, RejectTool(c) \/ StartTool(c)
    PROVE  Sound'
<1>1. /\ frames # <<>> /\ Head(frames).at = {} /\ c \in Head(frames).rest
      /\ UNCHANGED <<turn, request, owner>>
  BY DEF RejectTool, StartTool, Running
<1>2. c \in Live
  <2>1. 1 \in 1 .. Len(frames) /\ Head(frames) = frames[1]
    BY <1>1 DEF LoopInv, TypeOK
  <2> QED
    BY <1>1, <2>1 DEF Live, Held
<1>3. ASSUME NEW good \in BOOLEAN, Take(c, {}), async' = async, Submit(c, good) PROVE Sound'
  <2>1. Placed' /\ Live' = Live \ {c}
    BY <1>1, <1>3, PlacedTake DEF LoopInv
  <2> QED
    BY <1>1, <1>2, <1>3, <2>1, SubmitSound DEF Sound
<1>4. CASE Take(c, {}) /\ async' = async \cup {c} /\ UNCHANGED <<busy, posts, agent>>
  <2>1. Placed' /\ Live' = Live
    BY <1>1, <1>4, PlacedTake DEF LoopInv
  <2> QED
    BY <1>1, <1>4, <2>1, MovedSound
<1>5. CASE Take(c, {c}) /\ UNCHANGED <<busy, posts, agent, async>>
  <2>1. Placed' /\ Live' = Live
    BY <1>1, <1>5, PlacedTake DEF LoopInv
  <2> QED
    BY <1>1, <1>5, <2>1, MovedSound
<1> QED
  BY <1>3, <1>4, <1>5 DEF RejectTool, StartTool

\* A nested event loop ends with the result of the call that waited in it.
LEMMA FinishSound ==
    ASSUME LoopInv, FinishTool
    PROVE  Sound'
<1>1. 1 \in 1 .. Len(frames) /\ Head(frames) = frames[1] /\ frames[1] \in Frame
  BY DEF FinishTool, LoopInv, TypeOK
<1>2. PICK c \in Head(frames).at, good \in BOOLEAN : Take(c, {}) /\ Submit(c, good)
  BY DEF FinishTool
<1>3. frames # <<>> /\ UNCHANGED <<turn, request, owner, async>>
  BY DEF FinishTool
<1>4. c \in Calls /\ c \in Live /\ Head(frames).at \subseteq {c}
  BY <1>1, <1>2 DEF Frame, Live, Held, LoopInv, Placed, FrameSound
<1>5. Placed' /\ Live' = Live \ {c}
  BY <1>2, <1>3, <1>4, PlacedTake DEF LoopInv
<1> QED
  BY <1>2, <1>3, <1>4, <1>5, SubmitSound DEF Sound

\* executeToolCalls returns: it leaves no call of a turn that goes on.
LEMMA LeaveSound ==
    ASSUME LoopInv, LeaveTools
    PROVE  Sound'
<1>1. /\ frames # <<>> /\ frames' = Tail(frames) /\ Head(frames).at = {}
      /\ Head(frames).rest = {} \/ ~toolMode
      /\ UNCHANGED <<turn, request, owner, busy, posts, agent, async>>
  BY DEF LeaveTools
<1>2. Placed' /\ Live' \subseteq Live /\ (Head(frames).rest = {} => Live' = Live)
  BY <1>1, PlacedPop DEF LoopInv
<1>3. CASE Head(frames).rest = {}
  BY <1>1, <1>2, <1>3, MovedSound
<1>4. CASE ~toolMode
  <2>1. LiveOfTurn' \subseteq LiveOfTurn
    BY <1>1, <1>2 DEF LiveOfTurn
  <2>2. ~InRound
    BY <1>4 DEF InRound
  <2>3. Requesting => Requesting'
    BY <1>1, <1>4, <2>1 DEF Requesting, agent
  <2>4. Phases'
    BY <1>1, <2>2, <2>3 DEF LoopInv, Phases, agent
  <2> QED
    BY <1>1, <1>2, <1>4, <2>4 DEF LoopInv, Sound, Begun, ResultsOfThisTurn, agent
<1> QED
  BY <1>1, <1>3, <1>4

\* The bus brings the result of a deferred call, of this turn or of an earlier one.
LEMMA DeferredSound ==
    ASSUME LoopInv, NEW c \in Calls, DeferredResult(c)
    PROVE  Sound'
<1>1. PICK good \in BOOLEAN : Submit(c, good)
  BY DEF DeferredResult
<1>2. c \in async /\ async' = async \ {c} /\ UNCHANGED <<turn, request, owner, frames>>
  BY DEF DeferredResult
<1>3. /\ \A k : Held(k)' = Held(k)
      /\ \A k \in 1 .. Len(frames) : FrameSound(k) /\ c \notin Held(k)
  BY <1>2 DEF Held, LoopInv, Placed, FrameSound
<1>4. c \in Live /\ Live' = Live \ {c}
  BY <1>2, <1>3 DEF Live
<1>5. ASSUME NEW k \in 1 .. Len(frames) PROVE FrameSound(k)'
  BY <1>2, <1>3 DEF FrameSound
<1>6. Placed'
  BY <1>2, <1>5 DEF LoopInv, Placed
<1> QED
  BY <1>1, <1>2, <1>4, <1>6, SubmitSound DEF Sound

\* A turn that is stopped is not waited for.
LEMMA AbortSound ==
    ASSUME LoopInv, Abort
    PROVE  Sound'
<1>1. /\ busy' = FALSE /\ request' = FALSE /\ toolMode' = FALSE
      /\ UNCHANGED <<turn, posts, owner, frames, async>>
  BY DEF Abort, EndTurn
<1>2. Placed'
  BY <1>1, PlacedFrame DEF LoopInv
<1> QED
  BY <1>1, <1>2 DEF LoopInv, Sound, Begun, ResultsOfThisTurn, Phases

LEMMA LoopStep == LoopInv /\ [Next]_vars => LoopInv'
<1> SUFFICES ASSUME LoopInv, [Next]_vars PROVE LoopInv'
  OBVIOUS
<1>1. TypeOK'
  BY TypeStep DEF LoopInv
<1>2. Sound'
  <2>1. CASE UNCHANGED vars
    <3>1. Placed' /\ Live' = Live
      BY <2>1, PlacedFrame DEF LoopInv, vars
    <3> QED
      BY <2>1, <3>1, MovedSound DEF vars
  <2> QED
    BY <2>1, SendSound, PostSound, CompleteSound, ErrorSound, ToolCallsSound, RunSound,
       FinishSound, LeaveSound, DeferredSound, AbortSound
       DEF Next, Replies, RunTools
<1> QED
  BY <1>1, <1>2 DEF Sound, LoopInv

LEMMA LoopInit == Init => LoopInv
<1> SUFFICES ASSUME Init PROVE LoopInv
  OBVIOUS
<1>1. Begun /\ ResultsOfThisTurn /\ Phases /\ Placed
  BY Bounds DEF Init, Begun, ResultsOfThisTurn, Phases, Placed
<1> QED
  BY <1>1, TypeInit DEF LoopInv

\* Where every call is, and what the service waits for, agree in every order in
\* which replies, timers, results and nested event loops come.
THEOREM Loop == Spec => []LoopInv
BY LoopInit, LoopStep, PTL DEF Spec

\* Every variable keeps its type; the retries of a request are never overdrawn.
THEOREM LoopTypes == Spec => []TypeOK
<1>1. LoopInv => TypeOK
  BY DEF LoopInv
<1> QED
  BY <1>1, Loop, PTL

\* No result of another turn, from the bus or from a tool that ran on after its turn
\* was stopped, is collected for the round of this one.
THEOREM ResultsStay == Spec => []ResultsOfThisTurn
<1>1. LoopInv => ResultsOfThisTurn
  BY DEF LoopInv
<1> QED
  BY <1>1, Loop, PTL

\* The next request of a turn is not made while a call of its round runs or is still
\* to report.
THEOREM RoundsEnd == Spec => []RoundOver
<1>1. LoopInv => RoundOver
  <2> SUFFICES ASSUME LoopInv, busy, request \/ posts # <<>> PROVE
          /\ \A k \in 1 .. Len(frames) :
                frames[k].turn = turn => frames[k].rest = {} /\ frames[k].at = {}
          /\ \A c \in async : owner[c] # turn
    BY DEF RoundOver
  <2>1. LiveOfTurn = {}
    BY DEF LoopInv, Phases, Requesting, InRound
  <2>2. async \subseteq Calls
    BY DEF LoopInv, TypeOK
  <2>3. ASSUME NEW k \in 1 .. Len(frames), frames[k].turn = turn PROVE Held(k) = {}
    <3>1. Held(k) \subseteq Calls
      <4>1. frames[k] \in Frame
        BY <2>3 DEF LoopInv, TypeOK
      <4> QED
        BY <4>1 DEF Held, Frame
    <3>2. \A c \in Held(k) : owner[c] = turn
      BY <2>3 DEF LoopInv, Placed, FrameSound
    <3> QED
      BY <2>1, <2>3, <3>1, <3>2 DEF LiveOfTurn, Live
  <2>4. \A c \in async : owner[c] # turn
    BY <2>1, <2>2 DEF LiveOfTurn, Live
  <2> QED
    BY <2>3, <2>4 DEF Held
<1> QED
  BY <1>1, Loop, PTL

\* The service never waits for nothing: a request is under way or due, or every call
\* without a result is one that a tool runs or the bus will report.
THEOREM Advances == Spec => []TurnAdvances
<1>1. LoopInv => TurnAdvances
  <2> SUFFICES ASSUME LoopInv, busy, InRound, NEW c \in Unresolved
               PROVE  \/ c \in async
                      \/ \E k \in 1 .. Len(frames) : c \in frames[k].rest \cup frames[k].at
    BY DEF TurnAdvances, LoopInv, Phases, Requesting, InRound
  <2> QED
    BY DEF InRound, LiveOfTurn, Live, Held
<1> QED
  BY <1>1, Loop, PTL

\* Taking the last frame off, and putting one on, leaves good frames.
LEMMA FrameTaken ==
    ASSUME NEW fs, NEW ss, NEW st, Index!GoodFrames(fs, ss, st), fs # <<>>
    PROVE  /\ Index!GoodFrames(Index!Front(fs), ss, st)
           /\ Index!Last(fs) \in Index!Lists \cup Index!Waits
           /\ Index!Fits(Index!Last(fs), ss, st)
<1> DEFINE T == Index!Lists \cup Index!Waits
<1>1. fs \in Seq(T) /\ \A i \in DOMAIN fs : Index!Fits(fs[i], ss, st)
  BY DEF Index!GoodFrames
<1> HIDE DEF T
<1>2. Len(fs) \in DOMAIN fs /\ Len(fs) \in Nat \ {0} /\ DOMAIN fs = 1..Len(fs)
  BY <1>1
<1>3. Index!Last(fs) = fs[Len(fs)]
  BY DEF Index!Last
<1>4. Index!Front(fs) = SubSeq(fs, 1, Len(fs) - 1)
  BY DEF Index!Front
<1>5. /\ Index!Front(fs) \in Seq(T)
      /\ DOMAIN Index!Front(fs) = 1..(Len(fs) - 1)
      /\ \A i \in 1..(Len(fs) - 1) : Index!Front(fs)[i] = fs[i]
  BY <1>1, <1>2, <1>4
<1>6. \A i \in DOMAIN Index!Front(fs) : Index!Fits(Index!Front(fs)[i], ss, st)
  BY <1>1, <1>2, <1>5
<1>7. Index!GoodFrames(Index!Front(fs), ss, st)
  BY <1>5, <1>6 DEF Index!GoodFrames, T
<1>8. Index!Last(fs) \in T /\ Index!Fits(Index!Last(fs), ss, st)
  BY <1>1, <1>2, <1>3
<1> QED BY <1>7, <1>8 DEF T

LEMMA FramePut ==
    ASSUME NEW fs, NEW ss, NEW st, Index!GoodFrames(fs, ss, st),
           NEW f \in Index!Lists \cup Index!Waits, Index!Fits(f, ss, st)
    PROVE  Index!GoodFrames(Append(fs, f), ss, st)
<1> DEFINE T == Index!Lists \cup Index!Waits
<1>1. fs \in Seq(T) /\ f \in T /\ \A i \in DOMAIN fs : Index!Fits(fs[i], ss, st)
  BY DEF Index!GoodFrames
<1> HIDE DEF T
<1>2. /\ Append(fs, f) \in Seq(T) /\ DOMAIN Append(fs, f) = 1..(Len(fs) + 1)
      /\ DOMAIN fs = 1..Len(fs) /\ Append(fs, f)[Len(fs) + 1] = f
      /\ \A i \in 1..Len(fs) : Append(fs, f)[i] = fs[i]
  BY <1>1
<1>3. \A i \in DOMAIN Append(fs, f) : Index!Fits(Append(fs, f)[i], ss, st)
  BY <1>1, <1>2
<1> QED BY <1>2, <1>3 DEF Index!GoodFrames, T

\* So does a change of one frame.
LEMMA FrameChanged ==
    ASSUME NEW fs, NEW ss, NEW st, Index!GoodFrames(fs, ss, st), NEW k \in DOMAIN fs,
           NEW f \in Index!Lists \cup Index!Waits, Index!Fits(f, ss, st)
    PROVE  Index!GoodFrames([fs EXCEPT ![k] = f], ss, st)
<1> DEFINE T == Index!Lists \cup Index!Waits
           gs == [fs EXCEPT ![k] = f]
<1>1. fs \in Seq(T) /\ f \in T /\ \A i \in DOMAIN fs : Index!Fits(fs[i], ss, st)
  BY DEF Index!GoodFrames
<1> HIDE DEF T
<1>2. gs \in Seq(T) /\ DOMAIN gs = DOMAIN fs /\ \A i \in DOMAIN fs : gs[i] = IF i = k THEN f ELSE fs[i]
  BY <1>1
<1>3. \A i \in DOMAIN gs : Index!Fits(gs[i], ss, st)
  BY <1>1, <1>2
<1> QED BY <1>2, <1>3 DEF Index!GoodFrames, T

\* The frames that are put on.
LEMMA ListFrame ==
    ASSUME NEW ss \in Seq(ToolServers), ss # <<>>, NEW st \in Nat,
           NEW then \in Index!Afterwards, NEW for \in Index!Callers,
           then \in {"ready", "again"} => for \in Index!Asks
    PROVE  LET f == [wait |-> "list", over |-> "no", storage |-> st, next |-> 1,
                     size |-> Len(ss), then |-> then, for |-> for]
           IN  f \in Index!Lists \cup Index!Waits /\ Index!Fits(f, ss, st)
<1>1. Len(ss) \in Nat \ {0} /\ 1 \in 1..Len(ss) /\ 1 \in Nat
  OBVIOUS
<1> DEFINE f == [wait |-> "list", over |-> "no", storage |-> st, next |-> 1,
                 size |-> Len(ss), then |-> then, for |-> for]
<1>2. f \in Index!Lists
  BY <1>1 DEF Index!Lists, Index!Overs
<1>3. /\ f.wait = "list" /\ f.next = 1 /\ f.size = Len(ss) /\ f.storage = st
      /\ f.then = then /\ f.for = for
  OBVIOUS
<1> HIDE DEF f
<1>4. Index!Fits(f, ss, st)
  BY <1>1, <1>3 DEF Index!Fits
<1> QED BY <1>2, <1>4 DEF f

LEMMA CallFrame ==
    ASSUME NEW ss, NEW st, NEW c \in Index!Asks
    PROVE  LET f == [wait |-> "call", over |-> "no", for |-> c]
           IN  f \in Index!Lists \cup Index!Waits /\ Index!Fits(f, ss, st)
<1> DEFINE f == [wait |-> "call", over |-> "no", for |-> c]
<1>1. f \in Index!Waits
  BY DEF Index!Waits, Index!Overs, Index!Callers, Index!Asks
<1>2. f.wait = "call" /\ f.for = c
  OBVIOUS
<1> HIDE DEF f
<1>3. Index!Fits(f, ss, st)
  BY <1>2 DEF Index!Fits
<1> QED BY <1>1, <1>3 DEF f

-----------------------------------------------------------------------------
(* The two indexes, as functions of the servers and the active plugins.    *)

Known(ts, ss) ==
    /\ ts \in [ToolNames -> ToolServers \cup {NoRequest}]
    /\ \A n \in ToolNames : ts[n] # NoRequest => ts[n] \in Index!ToSet(ss) /\ n \in ServerTools[ts[n]]

Offer(n, ac) == {p \in ac : n \in PluginTools[p]}

Owned(o, ac, ss) ==
    /\ o \in [ToolNames -> ToolPlugins \cup {Mcp, NoRequest}]
    /\ \A n \in ToolNames : Offer(n, ac) = {} => o[n] \in {Mcp, NoRequest}
    /\ \A n \in ToolNames : Offer(n, ac) # {} => o[n] \in Offer(n, ac)
    /\ \A n \in ToolNames : o[n] = Mcp => \E s \in Index!ToSet(ss) : n \in ServerTools[s]

CallStates == [ToolAgents -> {"idle", "running", "deferred"}]

Others(known, working, enabled, cache, made, undefined) ==
    /\ known \subseteq ToolPlugins /\ working \subseteq known /\ enabled \subseteq ToolPlugins
    /\ cache \in {"none", "fresh", "old"}
    /\ made \in [ToolAgents -> 0..CallsPerAgent]
    /\ undefined \in BOOLEAN

LEMMA IndexExpanded ==
    Index!IndexSound <=>
        /\ w1 \in Configurations /\ w2 \in 0..ToolEdits
        /\ Known(w3, w1) /\ Owned(w8, w6 \cap w7, w1) /\ Index!GoodFrames(w9, w1, w2)
        /\ w10 \in CallStates /\ Others(w5, w6, w7, w4, w11, w12)
<1>1. ASSUME Index!IndexSound
      PROVE  /\ w1 \in Configurations /\ w2 \in 0..ToolEdits
             /\ Known(w3, w1) /\ Owned(w8, w6 \cap w7, w1) /\ Index!GoodFrames(w9, w1, w2)
             /\ w10 \in CallStates /\ Others(w5, w6, w7, w4, w11, w12)
  <2>1. Index!TypeOK /\ Index!PluginsFirst /\ Index!OnlyConfigured
    BY <1>1 DEF Index!IndexSound
  <2>2. Known(w3, w1)
    BY <1>1, <2>1 DEF Index!IndexSound, Index!TypeOK, Index!OnlyConfigured, Known
  <2>3. w8 \in [ToolNames -> ToolPlugins \cup {Mcp, NoRequest}]
    BY <2>1 DEF Index!TypeOK
  <2>4. \A n \in ToolNames : Offer(n, w6 \cap w7) = {} => w8[n] \in {Mcp, NoRequest}
    BY <2>1 DEF Index!PluginsFirst, Index!Active, Offer
  <2>5. \A n \in ToolNames : Offer(n, w6 \cap w7) # {} => w8[n] \in Offer(n, w6 \cap w7)
    BY <2>1 DEF Index!PluginsFirst, Index!Active, Offer
  <2>6. \A n \in ToolNames : w8[n] = Mcp => \E s \in Index!ToSet(w1) : n \in ServerTools[s]
    BY <2>1 DEF Index!OnlyConfigured
  <2>7. Owned(w8, w6 \cap w7, w1)
    BY <2>3, <2>4, <2>5, <2>6 DEF Owned
  <2>8. Index!GoodFrames(w9, w1, w2)
    BY <1>1 DEF Index!IndexSound
  <2> QED BY <2>1, <2>2, <2>7, <2>8 DEF Index!TypeOK, CallStates, Others
<1>2. ASSUME w1 \in Configurations, w2 \in 0..ToolEdits,
             Known(w3, w1), Owned(w8, w6 \cap w7, w1), Index!GoodFrames(w9, w1, w2),
             w10 \in CallStates, Others(w5, w6, w7, w4, w11, w12)
      PROVE  Index!IndexSound
  <2>1. \A i \in DOMAIN w9 : w9[i] \in Index!Lists \cup Index!Waits
    <3> DEFINE T == Index!Lists \cup Index!Waits
    <3>1. w9 \in Seq(T)
      BY <1>2 DEF Index!GoodFrames
    <3> HIDE DEF T
    <3>2. \A i \in DOMAIN w9 : w9[i] \in T
      BY <3>1
    <3> QED BY <3>2 DEF T
  <2>2. Index!TypeOK
    BY <1>2, <2>1 DEF Index!TypeOK, Known, Owned, CallStates, Others
  <2>3. ASSUME NEW n \in ToolNames
        PROVE  LET offer == {p \in Index!Active : n \in PluginTools[p]}
               IN  w8[n] \in (IF offer = {} THEN {Mcp, NoRequest} ELSE offer)
    <3>1. CASE Offer(n, w6 \cap w7) = {}
      BY <1>2, <3>1 DEF Owned, Offer, Index!Active
    <3>2. CASE Offer(n, w6 \cap w7) # {}
      BY <1>2, <3>2 DEF Owned, Offer, Index!Active
    <3> QED BY <3>1, <3>2
  <2>4. Index!PluginsFirst
    BY <2>3 DEF Index!PluginsFirst
  <2>5. Index!OnlyConfigured
    BY <1>2 DEF Known, Owned, Index!OnlyConfigured
  <2>6. \A n \in ToolNames : w3[n] # NoRequest => n \in ServerTools[w3[n]]
    BY <1>2 DEF Known
  <2> QED BY <1>2, <2>2, <2>4, <2>5, <2>6 DEF Index!IndexSound
<1> QED BY <1>1, <1>2

LEMMA NothingKnown == ASSUME NEW ss PROVE Known(Index!NoTools, ss)
BY DEF Known, Index!NoTools

LEMMA OwnerIndexed ==
    ASSUME NEW o, NEW ac, NEW ss, NEW ts, Owned(o, ac, ss), Known(ts, ss), ac \subseteq ToolPlugins
    PROVE  Owned(Index!IndexMcp(o, ts), ac, ss)
<1> DEFINE r == Index!IndexMcp(o, ts)
<1>1. r = [n \in ToolNames |-> IF o[n] = NoRequest /\ ts[n] # NoRequest THEN Mcp ELSE o[n]]
  BY DEF Index!IndexMcp
<1>2. r \in [ToolNames -> ToolPlugins \cup {Mcp, NoRequest}]
  BY <1>1 DEF Owned
<1>3. ASSUME NEW n \in ToolNames, Offer(n, ac) = {} PROVE r[n] \in {Mcp, NoRequest}
  BY <1>1, <1>3 DEF Owned
<1>4. ASSUME NEW n \in ToolNames, Offer(n, ac) # {} PROVE r[n] \in Offer(n, ac)
  <2>1. o[n] \in Offer(n, ac) /\ Offer(n, ac) \subseteq ToolPlugins
    BY <1>4 DEF Owned, Offer
  <2>2. o[n] # NoRequest
    BY <2>1, CallsAssumption
  <2> QED BY <1>1, <2>1, <2>2
<1>5. ASSUME NEW n \in ToolNames, r[n] = Mcp
      PROVE  \E s \in Index!ToSet(ss) : n \in ServerTools[s]
  <2>1. CASE o[n] = Mcp
    BY <2>1 DEF Owned
  <2>2. CASE o[n] # Mcp
    <3>1. ts[n] # NoRequest
      BY <1>1, <1>5, <2>2
    <3> QED BY <3>1 DEF Known
  <2> QED BY <2>1, <2>2
<1> HIDE DEF r
<1> QED BY <1>2, <1>3, <1>4, <1>5 DEF Owned, r

LEMMA OwnerForgot ==
    ASSUME NEW o, NEW ac, NEW ss, NEW tt, Owned(o, ac, ss), ac \subseteq ToolPlugins
    PROVE  Owned(Index!Forget(o), ac, tt)
<1> DEFINE r == Index!Forget(o)
<1>1. r = [n \in ToolNames |-> IF o[n] = Mcp THEN NoRequest ELSE o[n]]
  BY DEF Index!Forget
<1>2. r \in [ToolNames -> ToolPlugins \cup {Mcp, NoRequest}]
  BY <1>1 DEF Owned
<1>3. ASSUME NEW n \in ToolNames, Offer(n, ac) = {} PROVE r[n] \in {Mcp, NoRequest}
  BY <1>1, <1>3 DEF Owned
<1>4. ASSUME NEW n \in ToolNames, Offer(n, ac) # {} PROVE r[n] \in Offer(n, ac)
  <2>1. o[n] \in Offer(n, ac) /\ Offer(n, ac) \subseteq ToolPlugins
    BY <1>4 DEF Owned, Offer
  <2>2. o[n] # Mcp
    BY <2>1, CallsAssumption
  <2> QED BY <1>1, <2>1, <2>2
<1>5. \A n \in ToolNames : r[n] # Mcp
  BY <1>1, CallsAssumption
<1> HIDE DEF r
<1> QED BY <1>2, <1>3, <1>4, <1>5 DEF Owned, r

LEMMA OwnerPlugins ==
    ASSUME NEW o, NEW ac, NEW ss, ac \subseteq ToolPlugins
    PROVE  Owned(Index!IndexPlugins(ac, o), ac, ss)
<1> DEFINE r == Index!IndexPlugins(ac, o)
<1>1. ASSUME NEW n \in ToolNames
      PROVE  /\ Offer(n, ac) = {} => r[n] = NoRequest
             /\ Offer(n, ac) # {} => r[n] \in Offer(n, ac)
  <2>1. CASE \E p \in ac : n \in PluginTools[p]
    <3>1. r[n] = CHOOSE p \in ac : n \in PluginTools[p]
      BY <2>1 DEF Index!IndexPlugins
    <3>2. r[n] \in ac /\ n \in PluginTools[r[n]]
      BY <2>1, <3>1
    <3> QED BY <3>2 DEF Offer
  <2>2. CASE ~\E p \in ac : n \in PluginTools[p]
    BY <2>2 DEF Index!IndexPlugins, Offer
  <2> QED BY <2>1, <2>2
<1>2. r \in [ToolNames -> ToolPlugins \cup {Mcp, NoRequest}]
  <2>1. \A n \in ToolNames : r[n] \in ToolPlugins \cup {Mcp, NoRequest}
    BY <1>1 DEF Offer
  <2>2. r = [n \in ToolNames |-> r[n]]
    BY DEF Index!IndexPlugins
  <2> HIDE DEF r
  <2> QED BY <2>1, <2>2
<1>3. \A n \in ToolNames : r[n] # Mcp
  BY <1>1, CallsAssumption DEF Offer
<1> HIDE DEF r
<1> QED BY <1>1, <1>2, <1>3 DEF Owned, r

-----------------------------------------------------------------------------
(* What the operations leave of the index and the frames.                  *)

LEMMA Listing ==
    ASSUME NEW ss \in Seq(ToolServers), NEW st \in Nat, NEW below, Index!GoodFrames(below, ss, st),
           NEW then \in Index!Afterwards, NEW for \in Index!Callers,
           then \in {"ready", "again"} => for \in Index!Asks,
           Index!ListTools(ss, st, then, for, below)
    PROVE  Known(w3', ss) /\ Index!GoodFrames(w9', ss, st)
<1>1. Known(w3', ss)
  BY NothingKnown DEF Index!ListTools
<1>2. CASE ss = <<>>
  BY <1>2, <1>1 DEF Index!ListTools
<1>3. CASE ss # <<>>
  <2> DEFINE f == [wait |-> "list", over |-> "no", storage |-> st, next |-> 1,
                   size |-> Len(ss), then |-> then, for |-> for]
  <2>1. f \in Index!Lists \cup Index!Waits /\ Index!Fits(f, ss, st)
    BY <1>3, ListFrame
  <2>2. w9' = Append(below, f)
    BY <1>3 DEF Index!ListTools
  <2> HIDE DEF f
  <2> QED BY <1>1, <2>1, <2>2, FramePut
<1> QED BY <1>2, <1>3

LEMMA Sending ==
    ASSUME NEW ss, NEW st, NEW below, Index!GoodFrames(below, ss, st),
           NEW c \in Index!Asks, NEW ts, Known(ts, ss), w10 \in CallStates,
           Index!Send(c, ts, below)
    PROVE  Known(w3', ss) /\ Index!GoodFrames(w9', ss, st) /\ w10' \in CallStates
<1>1. Known(w3', ss)
  BY DEF Index!Send
<1>2. w10' \in CallStates
  BY DEF Index!Send, CallStates
<1>3. Index!GoodFrames(w9', ss, st)
  <2> DEFINE f == [wait |-> "call", over |-> "no", for |-> c]
  <2>1. f \in Index!Lists \cup Index!Waits /\ Index!Fits(f, ss, st)
    BY CallFrame
  <2>2. w9' = below \/ w9' = Append(below, f)
    BY DEF Index!Send
  <2> HIDE DEF f
  <2> QED BY <2>1, <2>2, FramePut
<1> QED BY <1>1, <1>2, <1>3

LEMMA Executing ==
    ASSUME w1 \in Seq(ToolServers), w2 \in Nat, NEW below, Index!GoodFrames(below, w1, w2),
           NEW c \in Index!Asks, NEW ts, Known(ts, w1), w10 \in CallStates,
           Index!Execute(c, ts, below)
    PROVE  Known(w3', w1) /\ Index!GoodFrames(w9', w1, w2) /\ w10' \in CallStates
<1>1. CASE ts = Index!NoTools /\ Index!Answer(c.agent) /\ w3' = ts /\ w9' = below
  BY <1>1 DEF Index!Answer, CallStates
<1>2. CASE /\ w10' = [w10 EXCEPT ![c.agent] = IF w1 = <<>> THEN "idle" ELSE "running"]
           /\ Index!ListTools(w1, w2, "again", c, below)
  <2>1. "again" \in Index!Afterwards /\ c \in Index!Callers
    BY DEF Index!Afterwards, Index!Callers, Index!Asks
  <2>2. Known(w3', w1) /\ Index!GoodFrames(w9', w1, w2)
    BY <1>2, <2>1, Listing
  <2> QED BY <1>2, <2>2 DEF CallStates
<1>3. CASE Index!Send(c, ts, below)
  BY <1>3, Sending
<1> QED BY <1>1, <1>2, <1>3 DEF Index!Execute

-----------------------------------------------------------------------------
(* The actions.                                                            *)

LEMMA IndexInit == Index!Init => Index!IndexSound
<1> SUFFICES ASSUME Index!Init PROVE Index!IndexSound
  OBVIOUS
<1>1. PICK S \in Configurations, K \in SUBSET ToolPlugins, W \in SUBSET ToolPlugins,
           E \in SUBSET ToolPlugins :
        /\ W \subseteq K
        /\ w1 = S /\ w2 = 0 /\ w3 = Index!NoTools /\ w4 = "none"
        /\ w5 = K /\ w6 = W /\ w7 = E
        /\ w8 = Index!IndexPlugins(W \cap E, Index!NoTools)
        /\ w9 = IF S = <<>> THEN <<>>
                ELSE <<[wait |-> "list", over |-> "no", storage |-> 0, next |-> 1,
                        size |-> Len(S), then |-> "index", for |-> NoRequest]>>
        /\ w10 = [a \in ToolAgents |-> "idle"] /\ w11 = [a \in ToolAgents |-> 0]
        /\ w12 = FALSE
  BY DEF Index!Init
<1>2. S \in Seq(ToolServers) /\ 0 \in 0..ToolEdits /\ 0 \in 0..CallsPerAgent
  BY CallsAssumption
<1>3. Owned(w8, w6 \cap w7, w1)
  BY <1>1, OwnerPlugins
<1>4. Index!GoodFrames(<<>>, S, 0)
  <2>1. DOMAIN <<>> = {} /\ <<>> \in Seq(Index!Lists \cup Index!Waits)
    OBVIOUS
  <2> QED BY <2>1 DEF Index!GoodFrames
<1>5. Index!GoodFrames(w9, w1, w2)
  <2>1. CASE S = <<>>
    BY <1>1, <1>4, <2>1
  <2>2. CASE S # <<>>
    <3> DEFINE f == [wait |-> "list", over |-> "no", storage |-> 0, next |-> 1,
                     size |-> Len(S), then |-> "index", for |-> NoRequest]
    <3>1. "index" \in Index!Afterwards /\ NoRequest \in Index!Callers /\ "index" \notin {"ready", "again"}
      BY DEF Index!Afterwards, Index!Callers
    <3>2. f \in Index!Lists \cup Index!Waits /\ Index!Fits(f, S, 0)
      BY <1>2, <2>2, <3>1, ListFrame
    <3>3. w9 = Append(<<>>, f)
      BY <1>1, <2>2
    <3> HIDE DEF f
    <3>4. Index!GoodFrames(w9, S, 0)
      BY <1>4, <3>2, <3>3, FramePut
    <3> QED BY <1>1, <3>4
  <2> QED BY <2>1, <2>2
<1>6. w10 \in CallStates /\ Others(w5, w6, w7, w4, w11, w12)
  BY <1>1, <1>2 DEF CallStates, Others
<1>7. Known(w3, w1)
  BY <1>1, NothingKnown
<1> QED BY <1>1, <1>2, <1>3, <1>5, <1>6, <1>7, IndexExpanded

\* What a step leaves of the index and the frames, when configuration and plugins stay.
Kept ==
    /\ Known(w3', w1) /\ Owned(w8', w6 \cap w7, w1) /\ Index!GoodFrames(w9', w1, w2)
    /\ w10' \in CallStates /\ w4' \in {"none", "fresh", "old"} /\ w12' \in BOOLEAN

LEMMA CompleteKept ==
    ASSUME Index!IndexSound, NEW f \in Index!Lists, Index!Fits(f, w1, w2), NEW ts, Known(ts, w1),
           NEW below, Index!GoodFrames(below, w1, w2), Index!Complete(f, ts, below)
    PROVE  /\ Known(w3', w1) /\ Owned(w8', w6 \cap w7, w1) /\ Index!GoodFrames(w9', w1, w2)
           /\ w10' \in CallStates /\ w4' = "fresh"
<1>1. /\ w1 \in Configurations /\ w2 \in 0..ToolEdits /\ Owned(w8, w6 \cap w7, w1)
      /\ w10 \in CallStates /\ Others(w5, w6, w7, w4, w11, w12)
  BY IndexExpanded
<1>2. w1 \in Seq(ToolServers) /\ w2 \in Nat /\ w6 \cap w7 \subseteq ToolPlugins
  BY <1>1, CallsAssumption DEF Others
<1>3. w4' = "fresh"
  BY DEF Index!Complete
<1>4. CASE f.then = "index" /\ w8' = Index!IndexMcp(w8, ts) /\ w3' = ts /\ w9' = below /\ UNCHANGED w10
  BY <1>1, <1>2, <1>3, <1>4, OwnerIndexed
<1>5. CASE f.then = "infos" /\ w3' = ts /\ w9' = below /\ UNCHANGED <<w8, w10>>
  BY <1>1, <1>3, <1>5
<1>6. ASSUME f.then \in {"ready", "again"} PROVE f.for \in Index!Asks
  BY <1>6 DEF Index!Fits
<1>7. CASE f.then = "ready" /\ Index!Execute(f.for, ts, below) /\ UNCHANGED w8
  <2>1. Known(w3', w1) /\ Index!GoodFrames(w9', w1, w2) /\ w10' \in CallStates
    BY <1>1, <1>2, <1>6, <1>7, Executing
  <2> QED BY <1>1, <1>3, <1>7, <2>1
<1>8. CASE f.then = "again" /\ UNCHANGED w8 /\ ts[f.for.name] = NoRequest /\ Index!Answer(f.for.agent)
           /\ w3' = ts /\ w9' = below
  BY <1>1, <1>3, <1>8 DEF Index!Answer, CallStates
<1>9. CASE f.then = "again" /\ UNCHANGED w8 /\ Index!Send(f.for, ts, below)
  <2>1. Known(w3', w1) /\ Index!GoodFrames(w9', w1, w2) /\ w10' \in CallStates
    BY <1>1, <1>6, <1>9, Sending
  <2> QED BY <1>1, <1>3, <1>9, <2>1
<1> QED BY <1>4, <1>5, <1>7, <1>8, <1>9 DEF Index!Complete

LEMMA NextServerKept ==
    ASSUME Index!IndexSound, w9 # <<>>, NEW f, f = Index!Last(w9), f \in Index!Lists,
           NEW ts, Known(ts, w1), Index!NextServer(f, ts)
    PROVE  Kept
<1>1. /\ Index!GoodFrames(w9, w1, w2) /\ Owned(w8, w6 \cap w7, w1) /\ Known(w3, w1)
      /\ w10 \in CallStates /\ Others(w5, w6, w7, w4, w11, w12)
  BY IndexExpanded
<1>2. Index!GoodFrames(Index!Front(w9), w1, w2) /\ Index!Fits(f, w1, w2)
  BY <1>1, FrameTaken
<1>3. CASE Index!Complete(f, ts, Index!Front(w9)) /\ UNCHANGED w12
  BY <1>1, <1>2, <1>3, CompleteKept DEF Kept, Others
<1>4. CASE /\ f.next < f.size /\ f.storage = w2 /\ w3' = ts
           /\ w9' = [w9 EXCEPT ![Len(w9)] = [f EXCEPT !.next = @ + 1, !.over = "no"]]
           /\ UNCHANGED <<w4, w8, w10, w12>>
  <2> DEFINE g == [f EXCEPT !.next = @ + 1, !.over = "no"]
  <2>1. f.wait = "list" /\ f.size \in Nat /\ f.next \in 1..f.size /\ f.next + 1 \in Nat /\ f.next + 1 \in 1..f.size
    BY <1>2, <1>4 DEF Index!Lists, Index!Fits
  <2>2. g \in Index!Lists
    BY <2>1 DEF Index!Lists, Index!Overs
  <2>3. /\ g.wait = f.wait /\ g.then = f.then /\ g.for = f.for /\ g.storage = f.storage
        /\ g.size = f.size /\ g.next = f.next + 1
    BY DEF Index!Lists
  <2>4. Index!Fits(g, w1, w2)
    <3> HIDE DEF g
    <3> QED BY <1>2, <2>1, <2>3 DEF Index!Fits
  <2>5. Len(w9) \in DOMAIN w9 /\ w9[Len(w9)] = f
    <3> DEFINE T == Index!Lists \cup Index!Waits
    <3>1. w9 \in Seq(T)
      BY <1>1 DEF Index!GoodFrames
    <3> HIDE DEF T
    <3> QED BY <3>1 DEF Index!Last
  <2>6. w9' = [w9 EXCEPT ![Len(w9)] = g]
    BY <1>4
  <2> HIDE DEF g
  <2>7. Index!GoodFrames(w9', w1, w2)
    BY <1>1, <2>2, <2>4, <2>5, <2>6, FrameChanged
  <2> QED BY <1>1, <1>4, <2>7 DEF Kept, Others
<1>5. CASE w12' = TRUE /\ UNCHANGED <<w3, w4, w8, w9, w10>>
  BY <1>1, <1>5 DEF Kept, Others
<1> QED BY <1>3, <1>4, <1>5 DEF Index!NextServer

LEMMA ReturnKept ==
    ASSUME Index!IndexSound, Index!Return
    PROVE  Kept
<1>1. /\ Index!GoodFrames(w9, w1, w2) /\ Owned(w8, w6 \cap w7, w1) /\ Known(w3, w1)
      /\ w10 \in CallStates /\ Others(w5, w6, w7, w4, w11, w12)
      /\ w1 \in Configurations /\ w2 \in 0..ToolEdits
  BY IndexExpanded
<1>2. w9 # <<>> /\ (Index!ListReturns \/ Index!CallReturns)
  BY DEF Index!Return
<1> DEFINE f == Index!Last(w9)
<1>3. Index!GoodFrames(Index!Front(w9), w1, w2) /\ f \in Index!Lists \cup Index!Waits /\ Index!Fits(f, w1, w2)
  BY <1>1, <1>2, FrameTaken
<1>4. CASE Index!ListReturns
  <2>1. f.wait = "list"
    BY <1>4 DEF Index!ListReturns, Index!Top
  <2>2. f \in Index!Lists
    BY <1>3, <2>1 DEF Index!Waits
  <2>3. CASE Index!NextServer(f, w3)
    BY <1>1, <1>2, <2>2, <2>3, NextServerKept
  <2>4. CASE f.storage = w2 /\ Index!NextServer(f, Index!Added(w1[f.next]))
    <3>1. f.next \in DOMAIN w1
      BY <1>1, <1>3, <2>1, <2>4, CallsAssumption DEF Index!Fits
    <3>2. w1[f.next] \in ToolServers /\ w1[f.next] \in Index!ToSet(w1)
      BY <1>1, <3>1, CallsAssumption DEF Index!ToSet
    <3>3. Known(Index!Added(w1[f.next]), w1)
      BY <1>1, <3>2 DEF Known, Index!Added
    <3> HIDE DEF f
    <3> QED BY <1>1, <1>2, <2>2, <2>4, <3>3, NextServerKept DEF f
  <2>5. CASE w12' = TRUE /\ UNCHANGED <<w3, w4, w8, w10, w9>>
    BY <1>1, <2>5 DEF Kept, Others
  <2> QED BY <1>4, <2>3, <2>4, <2>5 DEF Index!ListReturns, Index!Top
<1>5. CASE Index!CallReturns
  <2>1. w9' = Index!Front(w9) /\ UNCHANGED <<w3, w4, w8, w12>>
    BY <1>5 DEF Index!CallReturns
  <2>2. w10' \in CallStates
    BY <1>1, <1>5 DEF Index!CallReturns, Index!Answer, CallStates
  <2> QED BY <1>1, <1>3, <2>1, <2>2 DEF Kept, Others
<1> QED BY <1>2, <1>4, <1>5

LEMMA OverKept ==
    ASSUME Index!IndexSound, NEW i \in Nat \ {0}, NEW how \in {"replied", "failed"}, Index!Over(i, how)
    PROVE  Index!GoodFrames(w9', w1, w2)
<1>1. Index!GoodFrames(w9, w1, w2)
  BY IndexExpanded
<1> DEFINE T == Index!Lists \cup Index!Waits
           g == [w9[i] EXCEPT !.over = how]
<1>2. i \in DOMAIN w9 /\ w9[i] \in T
  <2>1. w9 \in Seq(T)
    BY <1>1 DEF Index!GoodFrames
  <2>2. i <= Len(w9)
    BY DEF Index!Over
  <2> HIDE DEF T
  <2> QED BY <2>1, <2>2
<1>3. g \in T /\ Index!Fits(g, w1, w2)
  <2>1. Index!Fits(w9[i], w1, w2)
    BY <1>1, <1>2 DEF Index!GoodFrames
  <2>2. CASE w9[i] \in Index!Lists
    <3>1. g \in Index!Lists
      BY <2>2 DEF Index!Lists, Index!Overs
    <3>2. /\ g.wait = w9[i].wait /\ g.then = w9[i].then /\ g.for = w9[i].for
          /\ g.storage = w9[i].storage /\ g.size = w9[i].size /\ g.next = w9[i].next
      BY <2>2 DEF Index!Lists
    <3> HIDE DEF g
    <3> QED BY <2>1, <3>1, <3>2 DEF Index!Fits
  <2>3. CASE w9[i] \in Index!Waits
    <3>1. g \in Index!Waits
      BY <2>3 DEF Index!Waits, Index!Overs
    <3>2. g.wait = "call" /\ g.for = w9[i].for /\ w9[i].wait = "call"
      BY <2>3 DEF Index!Waits
    <3> HIDE DEF g
    <3> QED BY <2>1, <3>1, <3>2 DEF Index!Fits
  <2> QED BY <1>2, <2>2, <2>3
<1>4. w9' = [w9 EXCEPT ![i] = g]
  BY DEF Index!Over
<1> HIDE DEF g
<1> QED BY <1>1, <1>2, <1>3, <1>4, FrameChanged

LEMMA IndexStep ==
    ASSUME Index!IndexSound, Index!Next
    PROVE  Index!IndexSound'
<1>1. /\ w1 \in Configurations /\ w2 \in 0..ToolEdits
      /\ Known(w3, w1) /\ Owned(w8, w6 \cap w7, w1) /\ Index!GoodFrames(w9, w1, w2)
      /\ w10 \in CallStates /\ Others(w5, w6, w7, w4, w11, w12)
  BY IndexExpanded
<1>2. w1 \in Seq(ToolServers) /\ w2 \in Nat /\ w6 \cap w7 \subseteq ToolPlugins
  BY <1>1, CallsAssumption DEF Others
<1>3. ASSUME w1' \in Configurations, w2' \in 0..ToolEdits,
             Known(w3', w1'), Owned(w8', w6' \cap w7', w1'), Index!GoodFrames(w9', w1', w2'),
             w10' \in CallStates, Others(w5', w6', w7', w4', w11', w12')
      PROVE  Index!IndexSound'
  <2>1. (Index!IndexSound <=>
            /\ w1 \in Configurations /\ w2 \in 0..ToolEdits
            /\ Known(w3, w1) /\ Owned(w8, w6 \cap w7, w1) /\ Index!GoodFrames(w9, w1, w2)
            /\ w10 \in CallStates /\ Others(w5, w6, w7, w4, w11, w12))'
    BY IndexExpanded, PTL
  <2> QED BY <1>3, <2>1
<1>4. ASSUME Kept, UNCHANGED <<w1, w2, w5, w6, w7>>, w11' \in [ToolAgents -> 0..CallsPerAgent]
      PROVE  Index!IndexSound'
  BY <1>1, <1>3, <1>4 DEF Kept, Others
<1>5. ASSUME NEW S \in Configurations, Index!ApplyMcpConfig(S) PROVE Index!IndexSound'
  <2>1. /\ w1' = S /\ w2' = w2 + 1 /\ w2 < ToolEdits /\ w4' = "none" /\ w8' = Index!Forget(w8)
        /\ Index!ListTools(S, w2 + 1, "index", NoRequest, w9)
        /\ UNCHANGED <<w5, w6, w7, w10, w11, w12>>
    BY <1>5 DEF Index!ApplyMcpConfig
  <2>2. S \in Seq(ToolServers) /\ w2 + 1 \in Nat /\ w2 + 1 \in 0..ToolEdits
    BY <1>1, <1>2, <2>1, CallsAssumption
  <2>3. Index!GoodFrames(w9, S, w2 + 1)
    <3> DEFINE T == Index!Lists \cup Index!Waits
    <3>1. w9 \in Seq(T) /\ \A i \in DOMAIN w9 : Index!Fits(w9[i], w1, w2)
      BY <1>1 DEF Index!GoodFrames
    <3>2. ASSUME NEW i \in DOMAIN w9 PROVE Index!Fits(w9[i], S, w2 + 1)
      <4>1. w9[i] \in T
        <5> HIDE DEF T
        <5> QED BY <3>1
      <4>2. Index!Fits(w9[i], w1, w2)
        BY <3>1
      <4>3. CASE w9[i].wait = "list"
        <5>1. w9[i] \in Index!Lists
          BY <4>1, <4>3 DEF Index!Waits
        <5>2. w9[i].storage \in Nat /\ w9[i].storage <= w2
          BY <4>2, <4>3, <5>1 DEF Index!Fits, Index!Lists
        <5>3. w9[i].storage <= w2 + 1 /\ w9[i].storage # w2 + 1
          BY <1>2, <5>2
        <5> QED BY <4>2, <4>3, <5>3 DEF Index!Fits
      <4>4. CASE w9[i].wait # "list"
        BY <4>2, <4>4 DEF Index!Fits
      <4> QED BY <4>3, <4>4
    <3> QED BY <3>1, <3>2 DEF Index!GoodFrames
  <2>4. "index" \in Index!Afterwards /\ NoRequest \in Index!Callers /\ "index" \notin {"ready", "again"}
    BY DEF Index!Afterwards, Index!Callers
  <2>5. Known(w3', S) /\ Index!GoodFrames(w9', S, w2 + 1)
    BY <2>1, <2>2, <2>3, <2>4, Listing
  <2>6. Owned(w8', w6 \cap w7, S)
    BY <1>1, <1>2, <2>1, OwnerForgot
  <2>7. Others(w5', w6', w7', w4', w11', w12')
    BY <1>1, <2>1 DEF Others
  <2> QED BY <1>1, <1>3, <2>1, <2>2, <2>5, <2>6, <2>7
<1>6. ASSUME NEW E \in SUBSET ToolPlugins, NEW found \in SUBSET ToolPlugins, NEW ok \in SUBSET found,
             Index!ReloadToolPlugins(E, found, ok)
      PROVE  Index!IndexSound'
  <2>1. /\ w5' = w5 \cup found /\ w6' = w6 \cup ok /\ w7' = E
        /\ UNCHANGED <<w1, w2, w4, w10, w11, w12>>
    BY <1>6 DEF Index!ReloadToolPlugins
  <2> DEFINE ac == (w6 \cup ok) \cap E
             o == Index!IndexPlugins(ac, w8)
  <2>2. ac \subseteq ToolPlugins /\ w6' \cap w7' = ac /\ Others(w5', w6', w7', w4', w11', w12')
    BY <1>1, <2>1 DEF Others
  <2>3. Owned(o, ac, w1)
    BY <2>2, OwnerPlugins
  <2>4. CASE w4 = "fresh" /\ w8' = Index!IndexMcp(o, w3) /\ UNCHANGED <<w3, w9>>
    <3> HIDE DEF o, ac
    <3>1. Owned(w8', ac, w1)
      BY <1>1, <2>2, <2>3, <2>4, OwnerIndexed
    <3> QED BY <1>1, <1>3, <2>1, <2>2, <2>4, <3>1
  <2>5. CASE w8' = o /\ Index!ListTools(w1, w2, "index", NoRequest, w9)
    <3>1. "index" \in Index!Afterwards /\ NoRequest \in Index!Callers /\ "index" \notin {"ready", "again"}
      BY DEF Index!Afterwards, Index!Callers
    <3>2. Known(w3', w1) /\ Index!GoodFrames(w9', w1, w2)
      BY <1>1, <1>2, <2>5, <3>1, Listing
    <3> HIDE DEF o, ac
    <3> QED BY <1>1, <1>3, <2>1, <2>2, <2>3, <2>5, <3>2
  <2> HIDE DEF o, ac
  <2> QED BY <1>6, <2>4, <2>5 DEF Index!ReloadToolPlugins, o, ac
<1>7. ASSUME Index!ShowPlugins PROVE Index!IndexSound'
  <2>1. Index!ListTools(w1, w2, "infos", NoRequest, w9) /\ UNCHANGED <<w1, w2, w4, w5, w6, w7, w8, w10, w11, w12>>
    BY <1>7 DEF Index!ShowPlugins, Index!catalog
  <2>2. "infos" \in Index!Afterwards /\ NoRequest \in Index!Callers /\ "infos" \notin {"ready", "again"}
    BY DEF Index!Afterwards, Index!Callers
  <2>3. Known(w3', w1) /\ Index!GoodFrames(w9', w1, w2)
    BY <1>1, <1>2, <2>1, <2>2, Listing
  <2> QED BY <1>1, <1>3, <2>1, <2>3
<1>8. ASSUME Index!CacheExpires PROVE Index!IndexSound'
  <2>1. w4' = "old" /\ UNCHANGED <<w1, w2, w3, w5, w6, w7, w8, w9, w10, w11, w12>>
    BY <1>8 DEF Index!CacheExpires, Index!catalog
  <2>2. Others(w5', w6', w7', w4', w11', w12')
    BY <1>1, <2>1 DEF Others
  <2> QED BY <1>1, <1>3, <2>1, <2>2
<1>9. ASSUME NEW a \in ToolAgents, NEW n \in ToolNames, Index!Dispatch(a, n) PROVE Index!IndexSound'
  <2>1. /\ w11' = [w11 EXCEPT ![a] = @ + 1] /\ w11[a] < CallsPerAgent
        /\ UNCHANGED <<w1, w2, w4, w5, w6, w7, w8, w12>>
    BY <1>9 DEF Index!Dispatch, Index!catalog
  <2>2. Others(w5', w6', w7', w4', w11', w12')
    <3>1. w11 \in [ToolAgents -> 0..CallsPerAgent]
      BY <1>1 DEF Others
    <3>2. w11[a] + 1 \in 0..CallsPerAgent
      BY <2>1, <3>1, CallsAssumption
    <3>3. w11' \in [ToolAgents -> 0..CallsPerAgent]
      BY <2>1, <3>1, <3>2
    <3> QED BY <1>1, <2>1, <3>3 DEF Others
  <2> DEFINE c == [agent |-> a, name |-> n]
  <2>3. c \in Index!Asks /\ c \in Index!Callers
    BY DEF Index!Asks, Index!Callers
  <2>4. Known(w3', w1) /\ Index!GoodFrames(w9', w1, w2) /\ w10' \in CallStates
    <3>1. CASE UNCHANGED <<w3, w9, w10>>
      BY <1>1, <3>1
    <3>2. CASE Index!Execute(c, w3, w9)
      <4> HIDE DEF c
      <4> QED BY <1>1, <1>2, <2>3, <3>2, Executing
    <3>3. CASE /\ w10' = [w10 EXCEPT ![a] = IF w1 = <<>> THEN "idle" ELSE "running"]
               /\ Index!ListTools(w1, w2, "ready", c, w9)
      <4>1. "ready" \in Index!Afterwards
        BY DEF Index!Afterwards
      <4>2. w10' \in CallStates
        BY <1>1, <3>3 DEF CallStates
      <4> HIDE DEF c
      <4>3. Known(w3', w1) /\ Index!GoodFrames(w9', w1, w2)
        BY <1>1, <1>2, <2>3, <3>3, <4>1, Listing
      <4> QED BY <4>2, <4>3
    <3> QED BY <1>9, <3>1, <3>2, <3>3 DEF Index!Dispatch
  <2> QED BY <1>1, <1>3, <2>1, <2>2, <2>4
<1>10. ASSUME NEW a \in ToolAgents, Index!DeferredReply(a) PROVE Index!IndexSound'
  <2>1. UNCHANGED <<w1, w2, w3, w4, w5, w6, w7, w8, w9, w11, w12>> /\ w10' = [w10 EXCEPT ![a] = "idle"]
    BY <1>10 DEF Index!DeferredReply, Index!Answer, Index!catalog
  <2>2. w10' \in CallStates
    BY <1>1, <2>1 DEF CallStates
  <2> QED BY <1>1, <1>3, <2>1, <2>2
<1>11. ASSUME Index!Return PROVE Index!IndexSound'
  <2>1. UNCHANGED <<w1, w2, w5, w6, w7, w11>>
    BY <1>11 DEF Index!Return, Index!catalog
  <2>2. w11' \in [ToolAgents -> 0..CallsPerAgent]
    BY <1>1, <2>1 DEF Others
  <2> QED BY <1>4, <1>11, <2>1, <2>2, ReturnKept
<1>12. ASSUME NEW i \in 1..ToolDepth, NEW how \in {"replied", "failed"}, Index!Over(i, how)
       PROVE  Index!IndexSound'
  <2>1. UNCHANGED <<w1, w2, w3, w4, w5, w6, w7, w8, w10, w11, w12>>
    BY <1>12 DEF Index!Over, Index!catalog
  <2>2. i \in Nat \ {0}
    OBVIOUS
  <2>3. Index!GoodFrames(w9', w1, w2)
    BY <1>12, <2>2, OverKept
  <2> QED BY <1>1, <1>3, <2>1, <2>3
<1>13. ASSUME NEW i \in 1..ToolDepth, Index!Replied(i) \/ Index!Failed(i) PROVE Index!IndexSound'
  BY <1>12, <1>13 DEF Index!Replied, Index!Failed
<1> QED BY <1>5, <1>6, <1>7, <1>8, <1>9, <1>10, <1>11, <1>13 DEF Index!Next

-----------------------------------------------------------------------------
(* Calls to a language server: what the frames and the list of waiters hold. *)

LspStates == [LspCalls -> {"new", "running", "deferred", "done"}]
LspFrames(fs) ==
    /\ fs \in Seq(Lsp!Loops \cup Lsp!Notices)
    /\ \A i \in DOMAIN fs : fs[i].at = "notify" => Lsp!IsInjective(fs[i].rest)
LspTypes(st, gv, ws, fs) ==
    /\ st \in LspStates /\ gv \in [LspCalls -> Nat]
    /\ ws \in Seq(LspCalls) /\ Lsp!IsInjective(ws) /\ LspFrames(fs)

\* The invariant for one call.
CallSound(c, st, gv, ws, fs, dl) ==
    /\ gv[c] = IF st[c] = "done" THEN 1 ELSE 0
    /\ c \in Lsp!ToSet(ws) => st[c] = "deferred"
    /\ st[c] = "deferred" => \/ c \in Lsp!ToSet(ws) /\ dl # "no"
                             \/ \E i \in DOMAIN fs : fs[i].at = "notify" /\ Lsp!Holds(fs[i], c)
    /\ \A i \in DOMAIN fs : Lsp!Holds(fs[i], c) =>
           /\ st[c] = Lsp!HeldBy(fs[i]) /\ c \notin Lsp!ToSet(ws)
           /\ \A j \in DOMAIN fs : Lsp!Holds(fs[j], c) => j = i

\* A call that is nowhere, as when it is about to run.
CallFree(c, st, gv, ws, fs) ==
    /\ gv[c] = 0 /\ c \notin Lsp!ToSet(ws)
    /\ \A i \in DOMAIN fs : ~Lsp!Holds(fs[i], c)

LEMMA LspExpanded ==
    Lsp!LspSound <=> LspTypes(w1, w2, w5, w10) /\ \A c \in LspCalls : CallSound(c, w1, w2, w5, w10, w4)
<1>1. ASSUME Lsp!LspSound
      PROVE  LspTypes(w1, w2, w5, w10) /\ \A c \in LspCalls : CallSound(c, w1, w2, w5, w10, w4)
  <2>1. LspTypes(w1, w2, w5, w10)
    BY <1>1 DEF Lsp!LspSound, LspTypes, LspStates, LspFrames
  <2>2. ASSUME NEW c \in LspCalls PROVE CallSound(c, w1, w2, w5, w10, w4)
    <3>1. w2[c] = IF w1[c] = "done" THEN 1 ELSE 0
      BY <1>1 DEF Lsp!LspSound, Lsp!NoLostCall
    <3>2. c \in Lsp!ToSet(w5) => w1[c] = "deferred"
      BY <1>1 DEF Lsp!LspSound
    <3>3. w1[c] = "deferred" => \/ c \in Lsp!ToSet(w5) /\ w4 # "no"
                                \/ \E i \in DOMAIN w10 : w10[i].at = "notify" /\ Lsp!Holds(w10[i], c)
      BY <1>1 DEF Lsp!LspSound, Lsp!NoLostCall, Lsp!InNotice, Lsp!Holds
    <3>4. \A i \in DOMAIN w10 : Lsp!Holds(w10[i], c) =>
             /\ w1[c] = Lsp!HeldBy(w10[i]) /\ c \notin Lsp!ToSet(w5)
             /\ \A j \in DOMAIN w10 : Lsp!Holds(w10[j], c) => j = i
      BY <1>1 DEF Lsp!LspSound
    <3> QED BY <3>1, <3>2, <3>3, <3>4 DEF CallSound
  <2> QED BY <2>1, <2>2
<1>2. ASSUME LspTypes(w1, w2, w5, w10), \A c \in LspCalls : CallSound(c, w1, w2, w5, w10, w4)
      PROVE  Lsp!LspSound
  <2>1. ASSUME NEW c \in LspCalls
        PROVE  /\ w2[c] = IF w1[c] = "done" THEN 1 ELSE 0
               /\ w1[c] = "deferred" => (c \in Lsp!ToSet(w5) /\ w4 # "no") \/ Lsp!InNotice(c)
    BY <1>2 DEF CallSound, Lsp!InNotice, Lsp!Holds
  <2>2. Lsp!NoLostCall
    BY <2>1 DEF Lsp!NoLostCall
  <2>3. \A c \in Lsp!ToSet(w5) : c \in LspCalls
    BY <1>2 DEF LspTypes, Lsp!ToSet
  <2>4. \A c \in Lsp!ToSet(w5) : w1[c] = "deferred"
    BY <1>2, <2>3 DEF CallSound
  <2>5. \A c \in LspCalls : \A i \in DOMAIN w10 : Lsp!Holds(w10[i], c) =>
           /\ w1[c] = Lsp!HeldBy(w10[i]) /\ c \notin Lsp!ToSet(w5)
           /\ \A j \in DOMAIN w10 : Lsp!Holds(w10[j], c) => j = i
    BY <1>2 DEF CallSound
  <2> QED BY <1>2, <2>2, <2>4, <2>5 DEF Lsp!LspSound, LspTypes, LspStates, LspFrames
<1> QED BY <1>1, <1>2

\* Frames put on, taken off and told to quit.
LEMMA LspAppend ==
    ASSUME NEW fs, LspFrames(fs), NEW f \in Lsp!Loops \cup Lsp!Notices
    PROVE  /\ DOMAIN Append(fs, f) = 1..(Len(fs) + 1) /\ DOMAIN fs = 1..Len(fs) /\ Len(fs) \in Nat
           /\ Append(fs, f)[Len(fs) + 1] = f /\ \A i \in DOMAIN fs : Append(fs, f)[i] = fs[i]
           /\ Append(fs, f) \in Seq(Lsp!Loops \cup Lsp!Notices)
<1> DEFINE T == Lsp!Loops \cup Lsp!Notices
<1>1. fs \in Seq(T) /\ f \in T
  BY DEF LspFrames
<1> HIDE DEF T
<1>2. /\ DOMAIN Append(fs, f) = 1..(Len(fs) + 1) /\ DOMAIN fs = 1..Len(fs) /\ Len(fs) \in Nat
      /\ Append(fs, f)[Len(fs) + 1] = f /\ \A i \in DOMAIN fs : Append(fs, f)[i] = fs[i]
      /\ Append(fs, f) \in Seq(T)
  BY <1>1
<1> QED BY <1>2 DEF T

LEMMA LspFramesAppend ==
    ASSUME NEW fs, LspFrames(fs), NEW f \in Lsp!Loops \cup Lsp!Notices,
           f.at = "notify" => Lsp!IsInjective(f.rest)
    PROVE  LspFrames(Append(fs, f))
<1>1. \A i \in DOMAIN Append(fs, f) : i = Len(fs) + 1 \/ i \in DOMAIN fs
  BY LspAppend
<1> QED BY LspAppend, <1>1 DEF LspFrames

LEMMA LspFront ==
    ASSUME NEW fs, LspFrames(fs), fs # <<>>
    PROVE  /\ LspFrames(Lsp!Front(fs))
           /\ Len(fs) \in DOMAIN fs /\ DOMAIN Lsp!Front(fs) = DOMAIN fs \ {Len(fs)}
           /\ Lsp!Last(fs) = fs[Len(fs)] /\ Lsp!Last(fs) \in Lsp!Loops \cup Lsp!Notices
           /\ \A i \in DOMAIN Lsp!Front(fs) : Lsp!Front(fs)[i] = fs[i]
<1> DEFINE T == Lsp!Loops \cup Lsp!Notices
<1>1. fs \in Seq(T)
  BY DEF LspFrames
<1>2. Lsp!Front(fs) = SubSeq(fs, 1, Len(fs) - 1) /\ Lsp!Last(fs) = fs[Len(fs)]
  BY DEF Lsp!Front, Lsp!Last
<1> HIDE DEF T
<1>3. Len(fs) \in Nat \ {0} /\ DOMAIN fs = 1..Len(fs) /\ fs[Len(fs)] \in T
  BY <1>1
<1>4. /\ Lsp!Front(fs) \in Seq(T) /\ DOMAIN Lsp!Front(fs) = 1..(Len(fs) - 1)
      /\ \A i \in 1..(Len(fs) - 1) : Lsp!Front(fs)[i] = fs[i]
  BY <1>1, <1>2, <1>3
<1>5. DOMAIN Lsp!Front(fs) = DOMAIN fs \ {Len(fs)} /\ Len(fs) \in DOMAIN fs
  BY <1>3, <1>4
<1>6. \A i \in DOMAIN Lsp!Front(fs) : Lsp!Front(fs)[i] = fs[i]
  BY <1>4
<1>7. \A i \in DOMAIN Lsp!Front(fs) : Lsp!Front(fs)[i].at = "notify" => Lsp!IsInjective(Lsp!Front(fs)[i].rest)
  BY <1>5, <1>6 DEF LspFrames
<1> QED BY <1>2, <1>3, <1>4, <1>5, <1>6, <1>7 DEF LspFrames, T

\* Of a call that a frame does not hold, putting it on or taking it off changes nothing.
LEMMA PutBeside ==
    ASSUME NEW fs, LspFrames(fs), NEW f \in Lsp!Loops \cup Lsp!Notices, NEW c, ~Lsp!Holds(f, c),
           NEW st, NEW gv, NEW ws, NEW dl, CallSound(c, st, gv, ws, fs, dl),
           NEW st2, NEW gv2, st2[c] = st[c], gv2[c] = gv[c]
    PROVE  CallSound(c, st2, gv2, ws, Append(fs, f), dl)
<1> DEFINE gs == Append(fs, f)
<1>1. /\ \A i \in DOMAIN fs : i \in DOMAIN gs /\ gs[i] = fs[i]
      /\ \A i \in DOMAIN gs : i \in DOMAIN fs \/ gs[i] = f
  <2>1. \A i \in 1..(Len(fs) + 1) : i \in 1..Len(fs) \/ i = Len(fs) + 1
    BY LspAppend
  <2>2. \A i \in 1..Len(fs) : i \in 1..(Len(fs) + 1)
    BY LspAppend
  <2> QED BY LspAppend, <2>1, <2>2
<1> HIDE DEF gs
<1>2. \A i \in DOMAIN gs : Lsp!Holds(gs[i], c) => i \in DOMAIN fs
  BY <1>1
<1>3. CallSound(c, st2, gv2, ws, gs, dl)
  BY <1>1, <1>2 DEF CallSound
<1> QED BY <1>3 DEF gs

LEMMA TakenBeside ==
    ASSUME NEW fs, LspFrames(fs), fs # <<>>, NEW c, ~Lsp!Holds(Lsp!Last(fs), c),
           NEW st, NEW gv, NEW ws, NEW dl, CallSound(c, st, gv, ws, fs, dl)
    PROVE  CallSound(c, st, gv, ws, Lsp!Front(fs), dl)
<1> DEFINE gs == Lsp!Front(fs)
<1>1. /\ \A i \in DOMAIN gs : i \in DOMAIN fs /\ gs[i] = fs[i]
      /\ \A i \in DOMAIN fs : i \in DOMAIN gs \/ fs[i] = Lsp!Last(fs)
  BY LspFront
<1> HIDE DEF gs
<1>2. \A i \in DOMAIN fs : Lsp!Holds(fs[i], c) => i \in DOMAIN gs
  BY <1>1
<1>3. CallSound(c, st, gv, ws, gs, dl)
  BY <1>1, <1>2 DEF CallSound
<1> QED BY <1>3 DEF gs

\* A frame with a call that is nowhere else.
LEMMA PutOn ==
    ASSUME NEW fs, LspFrames(fs), NEW f \in Lsp!Loops \cup Lsp!Notices, NEW c, Lsp!Holds(f, c),
           NEW st, NEW gv, NEW ws, NEW dl, CallFree(c, st, gv, ws, fs), st[c] = Lsp!HeldBy(f)
    PROVE  CallSound(c, st, gv, ws, Append(fs, f), dl)
<1> DEFINE gs == Append(fs, f)
<1>1. /\ \A i \in DOMAIN gs : i = Len(fs) + 1 \/ (i \in DOMAIN fs /\ gs[i] = fs[i])
      /\ Len(fs) + 1 \in DOMAIN gs /\ gs[Len(fs) + 1] = f
  <2>1. \A i \in 1..(Len(fs) + 1) : i \in 1..Len(fs) \/ i = Len(fs) + 1
    BY LspAppend
  <2>2. Len(fs) + 1 \in 1..(Len(fs) + 1)
    BY LspAppend
  <2> QED BY LspAppend, <2>1, <2>2
<1> HIDE DEF gs
<1>2. \A i \in DOMAIN gs : Lsp!Holds(gs[i], c) => i = Len(fs) + 1
  BY <1>1 DEF CallFree
<1>3. st[c] = "deferred" => f.at = "notify"
  BY DEF Lsp!HeldBy
<1>4. st[c] # "done"
  BY DEF Lsp!HeldBy
<1>5. CallSound(c, st, gv, ws, gs, dl)
  BY <1>1, <1>2, <1>3, <1>4 DEF CallSound, CallFree
<1> QED BY <1>5 DEF gs

LEMMA SameFrames ==
    ASSUME NEW fs, NEW gs, DOMAIN gs = DOMAIN fs, NEW c,
           \A i \in DOMAIN fs : gs[i].at = fs[i].at /\ (Lsp!Holds(gs[i], c) <=> Lsp!Holds(fs[i], c)),
           NEW st, NEW gv, NEW ws, NEW dl, CallSound(c, st, gv, ws, fs, dl)
    PROVE  CallSound(c, st, gv, ws, gs, dl)
<1>1. \A i \in DOMAIN fs : Lsp!HeldBy(gs[i]) = Lsp!HeldBy(fs[i])
  BY DEF Lsp!HeldBy
<1> QED BY <1>1 DEF CallSound

\* Lists of calls.
LEMMA CallsAppended ==
    ASSUME NEW cs \in Seq(LspCalls), Lsp!IsInjective(cs), NEW c \in LspCalls, c \notin Lsp!ToSet(cs)
    PROVE  /\ Append(cs, c) \in Seq(LspCalls) /\ Lsp!IsInjective(Append(cs, c))
           /\ Lsp!ToSet(Append(cs, c)) = Lsp!ToSet(cs) \cup {c}
<1> DEFINE ds == Append(cs, c)
<1>1. /\ ds \in Seq(LspCalls) /\ DOMAIN ds = 1..(Len(cs) + 1) /\ DOMAIN cs = 1..Len(cs) /\ Len(cs) \in Nat
      /\ ds[Len(cs) + 1] = c /\ \A i \in 1..Len(cs) : ds[i] = cs[i]
  OBVIOUS
<1> HIDE DEF ds
<1>2. \A i \in DOMAIN cs : cs[i] # c
  BY DEF Lsp!ToSet
<1>3. ASSUME NEW a \in DOMAIN ds, NEW b \in DOMAIN ds, ds[a] = ds[b] PROVE a = b
  <2>1. (a = Len(cs) + 1 \/ a \in DOMAIN cs) /\ (b = Len(cs) + 1 \/ b \in DOMAIN cs)
    BY <1>1
  <2> QED BY <1>1, <1>2, <1>3, <2>1 DEF Lsp!IsInjective
<1>4. Lsp!IsInjective(ds)
  BY <1>3 DEF Lsp!IsInjective
<1>5. Lsp!ToSet(ds) = Lsp!ToSet(cs) \cup {c}
  <2>1. ASSUME NEW d \in Lsp!ToSet(ds) PROVE d \in Lsp!ToSet(cs) \cup {c}
    BY <1>1, <2>1 DEF Lsp!ToSet
  <2>2. ASSUME NEW d \in Lsp!ToSet(cs) \cup {c} PROVE d \in Lsp!ToSet(ds)
    <3>1. CASE d = c
      <4>1. Len(cs) + 1 \in DOMAIN ds
        BY <1>1
      <4> QED BY <1>1, <3>1, <4>1 DEF Lsp!ToSet
    <3>2. CASE d \in Lsp!ToSet(cs)
      <4>1. PICK i \in DOMAIN cs : d = cs[i]
        BY <3>2 DEF Lsp!ToSet
      <4>2. i \in DOMAIN ds
        BY <1>1
      <4> QED BY <1>1, <4>1, <4>2 DEF Lsp!ToSet
    <3> QED BY <2>2, <3>1, <3>2
  <2> QED BY <2>1, <2>2
<1> QED BY <1>1, <1>4, <1>5 DEF ds

LEMMA CallsSplit ==
    ASSUME NEW cs \in Seq(LspCalls), Lsp!IsInjective(cs), cs # <<>>
    PROVE  /\ Head(cs) \in LspCalls /\ Head(cs) \notin Lsp!ToSet(Tail(cs))
           /\ Tail(cs) \in Seq(LspCalls) /\ Lsp!IsInjective(Tail(cs))
           /\ Lsp!ToSet(cs) = Lsp!ToSet(Tail(cs)) \cup {Head(cs)}
<1> DEFINE ts == Tail(cs)
<1>1. /\ ts \in Seq(LspCalls) /\ Len(cs) \in Nat \ {0} /\ DOMAIN ts = 1..(Len(cs) - 1) /\ DOMAIN cs = 1..Len(cs)
      /\ Head(cs) = cs[1] /\ cs[1] \in LspCalls /\ \A i \in 1..(Len(cs) - 1) : ts[i] = cs[i + 1]
  OBVIOUS
<1> HIDE DEF ts
<1>2. \A i \in DOMAIN ts : i + 1 \in DOMAIN cs /\ i + 1 # 1 /\ ts[i] = cs[i + 1]
  BY <1>1
<1>3. 1 \in DOMAIN cs
  BY <1>1
<1>4. cs[1] \notin Lsp!ToSet(ts)
  BY <1>2, <1>3 DEF Lsp!ToSet, Lsp!IsInjective
<1>5. Lsp!IsInjective(ts)
  <2>1. ASSUME NEW a \in DOMAIN ts, NEW b \in DOMAIN ts, ts[a] = ts[b] PROVE a = b
    <3>1. a + 1 = b + 1
      BY <1>2, <2>1 DEF Lsp!IsInjective
    <3> QED BY <1>1, <3>1
  <2> QED BY <2>1 DEF Lsp!IsInjective
<1>6. Lsp!ToSet(cs) = Lsp!ToSet(ts) \cup {cs[1]}
  <2>1. ASSUME NEW d \in Lsp!ToSet(cs) PROVE d \in Lsp!ToSet(ts) \cup {cs[1]}
    <3>1. PICK i \in DOMAIN cs : d = cs[i]
      BY <2>1 DEF Lsp!ToSet
    <3>2. CASE i = 1
      BY <3>1, <3>2
    <3>3. CASE i # 1
      <4>1. i - 1 \in DOMAIN ts /\ ts[i - 1] = cs[i]
        BY <1>1, <3>3
      <4> QED BY <3>1, <4>1 DEF Lsp!ToSet
    <3> QED BY <3>2, <3>3
  <2>2. ASSUME NEW d \in Lsp!ToSet(ts) \cup {cs[1]} PROVE d \in Lsp!ToSet(cs)
    BY <1>2, <1>3, <2>2 DEF Lsp!ToSet
  <2> QED BY <2>1, <2>2
<1> QED BY <1>1, <1>4, <1>5, <1>6 DEF ts

-----------------------------------------------------------------------------
(* Running a call that is nowhere.                                         *)

LspSoundNow(ws, fs, dl) ==
    LspTypes(w1, w2, ws, fs) /\ \A c \in LspCalls : CallSound(c, w1, w2, ws, fs, dl)

\* Everything is sound but the call that is about to run.
About(c, ws, fs, dl) ==
    /\ LspTypes(w1, w2, ws, fs) /\ CallFree(c, w1, w2, ws, fs)
    /\ \A d \in LspCalls \ {c} : CallSound(d, w1, w2, ws, fs, dl)

AfterRun(ws, dl) ==
    LspTypes(w1', w2', ws, w10') /\ \A c \in LspCalls : CallSound(c, w1', w2', ws, w10', dl)

LEMMA Ending ==
    ASSUME NEW c \in LspCalls, NEW below, NEW ws, NEW dl, About(c, ws, below, dl), Lsp!Ends(c, below)
    PROVE  AfterRun(ws, dl)
<1>1. w1' = [w1 EXCEPT ![c] = "done"] /\ w2' = [w2 EXCEPT ![c] = @ + 1] /\ w10' = below
  BY DEF Lsp!Ends, Lsp!Result
<1>2. w1 \in LspStates /\ w2 \in [LspCalls -> Nat] /\ LspTypes(w1, w2, ws, below) /\ CallFree(c, w1, w2, ws, below)
  BY DEF About, LspTypes
<1>3. LspTypes(w1', w2', ws, w10')
  BY <1>1, <1>2 DEF LspTypes, LspStates
<1>4. w1'[c] = "done" /\ w2'[c] = 1
  BY <1>1, <1>2 DEF LspStates, CallFree
<1>5. CallSound(c, w1', w2', ws, w10', dl)
  BY <1>1, <1>2, <1>4 DEF CallSound, CallFree
<1>6. ASSUME NEW d \in LspCalls \ {c} PROVE CallSound(d, w1', w2', ws, w10', dl)
  <2>1. w1'[d] = w1[d] /\ w2'[d] = w2[d]
    BY <1>1, <1>2 DEF LspStates
  <2>2. CallSound(d, w1, w2, ws, below, dl)
    BY DEF About
  <2> QED BY <1>1, <2>1, <2>2 DEF CallSound
<1> QED BY <1>3, <1>5, <1>6 DEF AfterRun

LEMMA Pausing ==
    ASSUME NEW c \in LspCalls, NEW below, NEW ws, NEW dl, About(c, ws, below, dl),
           NEW at \in {"init", "answer"},
           w10' = Append(below, Lsp!Wait(at, c)), w1' = [w1 EXCEPT ![c] = "running"], w2' = w2
    PROVE  AfterRun(ws, dl)
<1> DEFINE f == Lsp!Wait(at, c)
<1>1. f \in Lsp!Loops \cup Lsp!Notices /\ f.at = at /\ f.call = c
  BY DEF Lsp!Wait, Lsp!Loops
<1>2. /\ w1 \in LspStates /\ w2 \in [LspCalls -> Nat] /\ LspFrames(below)
      /\ LspTypes(w1, w2, ws, below) /\ CallFree(c, w1, w2, ws, below)
  BY DEF About, LspTypes
<1> HIDE DEF f
<1>3. f.at # "notify" /\ Lsp!Holds(f, c) /\ Lsp!HeldBy(f) = "running" /\ \A d : d # c => ~Lsp!Holds(f, d)
  BY <1>1 DEF Lsp!Holds, Lsp!HeldBy
<1>4. w10' = Append(below, f)
  BY DEF f
<1>5. LspTypes(w1', w2', ws, w10')
  <2>1. LspFrames(Append(below, f))
    BY <1>1, <1>2, <1>3, LspFramesAppend
  <2> QED BY <1>2, <1>4, <2>1 DEF LspTypes, LspStates
<1>6. CallSound(c, w1', w2', ws, w10', dl)
  <2>1. w1'[c] = "running" /\ CallFree(c, w1', w2', ws, below)
    BY <1>2 DEF LspStates, CallFree
  <2>2. w1'[c] = Lsp!HeldBy(f)
    BY <1>3, <2>1
  <2>3. CallSound(c, w1', w2', ws, Append(below, f), dl)
    BY ONLY <1>1, <1>2, <1>3, <2>1, <2>2, PutOn
  <2> QED BY <1>4, <2>3
<1>7. ASSUME NEW d \in LspCalls \ {c} PROVE CallSound(d, w1', w2', ws, w10', dl)
  <2>1. w1'[d] = w1[d] /\ w2'[d] = w2[d]
    BY <1>2 DEF LspStates
  <2>2. CallSound(d, w1, w2, ws, below, dl) /\ ~Lsp!Holds(f, d)
    BY <1>3 DEF About
  <2>3. CallSound(d, w1', w2', ws, Append(below, f), dl)
    BY ONLY <1>1, <1>2, <2>1, <2>2, PutBeside
  <2> QED BY <1>4, <2>3
<1> QED BY <1>5, <1>6, <1>7 DEF AfterRun

LEMMA Asking ==
    ASSUME NEW c \in LspCalls, NEW below, NEW ws, NEW dl, About(c, ws, below, dl), Lsp!Ask(c, below)
    PROVE  AfterRun(ws, dl)
<1>1. CASE Lsp!Ends(c, below)
  BY <1>1, Ending
<1>2. CASE w10' = Append(below, Lsp!Wait("answer", c)) /\ w1' = [w1 EXCEPT ![c] = "running"] /\ w2' = w2
  BY <1>2, Pausing
<1> QED BY <1>1, <1>2 DEF Lsp!Ask

LEMMA Starting ==
    ASSUME NEW c \in LspCalls, NEW below, NEW ws, NEW dl, About(c, ws, below, dl), Lsp!Start(c, below)
    PROVE  AfterRun(ws, dl)
<1>1. CASE Lsp!Ends(c, below)
  BY <1>1, Ending
<1>2. CASE w10' = Append(below, Lsp!Wait("init", c)) /\ w1' = [w1 EXCEPT ![c] = "running"] /\ w2' = w2
  BY <1>2, Pausing
<1>3. CASE Lsp!Ask(c, below)
  BY <1>3, Asking
<1> QED BY <1>1, <1>2, <1>3 DEF Lsp!Start

\* The call of the loop that returns, and the next waiter of a notification.
LEMMA LoopTaken ==
    ASSUME NEW ws, NEW dl, LspSoundNow(ws, w10, dl), w10 # <<>>, Lsp!Top.at # "notify"
    PROVE  Lsp!Top.call \in LspCalls /\ About(Lsp!Top.call, ws, Lsp!Front(w10), dl)
<1> DEFINE f == Lsp!Last(w10)
           c == f.call
           k == Len(w10)
<1>1. LspTypes(w1, w2, ws, w10) /\ LspFrames(w10) /\ \A d \in LspCalls : CallSound(d, w1, w2, ws, w10, dl)
  BY DEF LspSoundNow, LspTypes
<1>2. /\ LspFrames(Lsp!Front(w10)) /\ k \in DOMAIN w10 /\ DOMAIN Lsp!Front(w10) = DOMAIN w10 \ {k}
      /\ f = w10[k] /\ f \in Lsp!Loops \cup Lsp!Notices
      /\ \A i \in DOMAIN Lsp!Front(w10) : Lsp!Front(w10)[i] = w10[i]
  BY <1>1, LspFront
<1>3. f.at # "notify" /\ c \in LspCalls
  BY <1>2 DEF Lsp!Top, Lsp!Loops, Lsp!Notices
<1> HIDE DEF k
<1>4. Lsp!Holds(w10[k], c) /\ Lsp!HeldBy(w10[k]) = "running"
  BY <1>2, <1>3 DEF Lsp!Holds, Lsp!HeldBy
<1>5. /\ w1[c] = "running" /\ c \notin Lsp!ToSet(ws) /\ w2[c] = 0
      /\ \A j \in DOMAIN w10 : Lsp!Holds(w10[j], c) => j = k
  <2> HIDE DEF c, f
  <2>1. CallSound(c, w1, w2, ws, w10, dl)
    BY <1>1, <1>3
  <2> QED BY <1>2, <1>4, <2>1 DEF CallSound
<1>6. CallFree(c, w1, w2, ws, Lsp!Front(w10))
  <2> HIDE DEF c, f
  <2> QED BY <1>2, <1>5 DEF CallFree
<1>7. ASSUME NEW d \in LspCalls \ {c} PROVE CallSound(d, w1, w2, ws, Lsp!Front(w10), dl)
  <2>1. ~Lsp!Holds(Lsp!Last(w10), d)
    BY <1>3 DEF Lsp!Holds
  <2> QED BY <1>1, <2>1, TakenBeside
<1>8. LspTypes(w1, w2, ws, Lsp!Front(w10))
  BY <1>1, <1>2 DEF LspTypes
<1>9. About(c, ws, Lsp!Front(w10), dl)
  <2> HIDE DEF c, f
  <2> QED BY <1>6, <1>7, <1>8 DEF About
<1> QED BY <1>3, <1>9 DEF Lsp!Top

LEMMA WaiterTaken ==
    ASSUME NEW ws, NEW dl, LspSoundNow(ws, w10, dl), w10 # <<>>, Lsp!Top.at = "notify", Lsp!Top.rest # <<>>
    PROVE  /\ Head(Lsp!Top.rest) \in LspCalls
           /\ About(Head(Lsp!Top.rest), ws,
                    Append(Lsp!Front(w10), [Lsp!Top EXCEPT !.rest = Tail(@)]), dl)
<1> DEFINE f == Lsp!Last(w10)
           c == Head(f.rest)
           g == [f EXCEPT !.rest = Tail(@)]
           k == Len(w10)
           fr == Lsp!Front(w10)
<1>1. LspTypes(w1, w2, ws, w10) /\ LspFrames(w10) /\ \A d \in LspCalls : CallSound(d, w1, w2, ws, w10, dl)
  BY DEF LspSoundNow, LspTypes
<1>2. /\ LspFrames(fr) /\ k \in DOMAIN w10 /\ DOMAIN fr = DOMAIN w10 \ {k}
      /\ f = w10[k] /\ f \in Lsp!Loops \cup Lsp!Notices
      /\ \A i \in DOMAIN fr : fr[i] = w10[i]
  BY <1>1, LspFront
<1>3. f.at = "notify" /\ f.rest # <<>> /\ f \in Lsp!Notices /\ f.rest \in Seq(LspCalls)
  BY <1>2 DEF Lsp!Top, Lsp!Loops, Lsp!Notices
<1>4. Lsp!IsInjective(f.rest)
  BY <1>1, <1>2, <1>3 DEF LspFrames
<1>5. /\ c \in LspCalls /\ c \notin Lsp!ToSet(Tail(f.rest))
      /\ Tail(f.rest) \in Seq(LspCalls) /\ Lsp!IsInjective(Tail(f.rest))
      /\ Lsp!ToSet(f.rest) = Lsp!ToSet(Tail(f.rest)) \cup {c}
  <2> HIDE DEF f
  <2> QED BY <1>3, <1>4, CallsSplit
<1>6. g \in Lsp!Notices /\ g.at = "notify" /\ g.rest = Tail(f.rest)
  <2> HIDE DEF f
  <2> QED BY <1>3, <1>5 DEF Lsp!Notices
<1> HIDE DEF k, fr, g, f, c
<1>7. /\ ~Lsp!Holds(g, c) /\ Lsp!Holds(f, c) /\ Lsp!HeldBy(f) = "deferred" /\ Lsp!HeldBy(g) = "deferred"
      /\ \A d : d # c => (Lsp!Holds(g, d) <=> Lsp!Holds(f, d))
  BY <1>3, <1>5, <1>6 DEF Lsp!Holds, Lsp!HeldBy
<1>8. CallFree(c, w1, w2, ws, Append(fr, g))
  <2>1. CallSound(c, w1, w2, ws, w10, dl)
    BY <1>1, <1>5
  <2>2. /\ w2[c] = 0 /\ c \notin Lsp!ToSet(ws) /\ \A j \in DOMAIN w10 : Lsp!Holds(w10[j], c) => j = k
    BY <1>2, <1>7, <2>1 DEF CallSound
  <2>3. \A i \in DOMAIN fr : ~Lsp!Holds(fr[i], c)
    BY <1>2, <2>2
  <2>4. \A i \in DOMAIN Append(fr, g) : i = Len(fr) + 1 \/ i \in DOMAIN fr
    BY <1>2, <1>6, LspAppend
  <2>5. \A i \in DOMAIN Append(fr, g) : ~Lsp!Holds(Append(fr, g)[i], c)
    BY <1>2, <1>6, <1>7, <2>3, <2>4, LspAppend
  <2> QED BY <2>2, <2>5 DEF CallFree
<1>9. ASSUME NEW d \in LspCalls \ {c} PROVE CallSound(d, w1, w2, ws, Append(fr, g), dl)
  <2>1. CallSound(d, w1, w2, ws, w10, dl)
    BY <1>1
  <2>2. CASE ~Lsp!Holds(f, d)
    <3>1. CallSound(d, w1, w2, ws, fr, dl)
      <4>1. ~Lsp!Holds(Lsp!Last(w10), d)
        BY <2>2 DEF f
      <4> QED BY <1>1, <2>1, <4>1, TakenBeside DEF fr
    <3> QED BY <1>2, <1>6, <1>7, <2>2, <3>1, PutBeside
  <2>3. CASE Lsp!Holds(f, d)
    <3>1. /\ w1[d] = "deferred" /\ d \notin Lsp!ToSet(ws) /\ \A j \in DOMAIN w10 : Lsp!Holds(w10[j], d) => j = k
      BY <1>2, <1>7, <2>1, <2>3 DEF CallSound
    <3>2. w2[d] = 0
      BY <2>1, <3>1 DEF CallSound
    <3>3. CallFree(d, w1, w2, ws, fr)
      BY <1>2, <3>1, <3>2 DEF CallFree
    <3> QED BY <1>2, <1>6, <1>7, <2>3, <3>1, <3>3, PutOn
  <2> QED BY <2>2, <2>3
<1>10. LspTypes(w1, w2, ws, Append(fr, g))
  <2>1. LspFrames(Append(fr, g))
    BY <1>2, <1>5, <1>6, LspFramesAppend
  <2> QED BY <1>1, <2>1 DEF LspTypes
<1> QED BY <1>5, <1>8, <1>9, <1>10 DEF About, Lsp!Top, f, g, c, fr

-----------------------------------------------------------------------------
(* The actions.                                                            *)

LEMMA LspInit == Lsp!Init => Lsp!LspSound
<1> SUFFICES ASSUME Lsp!Init PROVE Lsp!LspSound
  OBVIOUS
<1>1. /\ w1 = [c \in LspCalls |-> "new"] /\ w2 = [c \in LspCalls |-> 0] /\ w5 = <<>> /\ w10 = <<>>
  BY DEF Lsp!Init
<1>2. DOMAIN <<>> = {} /\ <<>> \in Seq(LspCalls) /\ <<>> \in Seq(Lsp!Loops \cup Lsp!Notices)
  OBVIOUS
<1>3. Lsp!ToSet(<<>>) = {} /\ Lsp!IsInjective(<<>>)
  BY <1>2 DEF Lsp!ToSet, Lsp!IsInjective
<1>4. LspTypes(w1, w2, w5, w10)
  BY <1>1, <1>2, <1>3 DEF LspTypes, LspStates, LspFrames
<1>5. ASSUME NEW c \in LspCalls PROVE CallSound(c, w1, w2, w5, w10, w4)
  BY <1>1, <1>2, <1>3 DEF CallSound
<1> QED BY <1>4, <1>5, LspExpanded

\* Loops that are told to quit hold what they held.
SameHolds(fs, gs) ==
    /\ LspFrames(gs) /\ DOMAIN gs = DOMAIN fs
    /\ \A i \in DOMAIN fs : gs[i].at = fs[i].at
    /\ \A i \in DOMAIN fs : \A c : Lsp!Holds(gs[i], c) <=> Lsp!Holds(fs[i], c)

QuitLoops(fs, Q) == [i \in DOMAIN fs |-> IF i \in Q THEN [fs[i] EXCEPT !.over = TRUE] ELSE fs[i]]

LEMMA OverSame ==
    ASSUME NEW fs, LspFrames(fs), NEW Q, \A i \in Q : fs[i].at # "notify"
    PROVE  SameHolds(fs, QuitLoops(fs, Q))
<1> DEFINE T == Lsp!Loops \cup Lsp!Notices
           gs == QuitLoops(fs, Q)
<1>1. fs \in Seq(T) /\ DOMAIN gs = DOMAIN fs
  BY DEF LspFrames, QuitLoops
<1>2. ASSUME NEW i \in DOMAIN fs
      PROVE  /\ gs[i] \in T /\ gs[i].at = fs[i].at
             /\ fs[i].at = "notify" => gs[i] = fs[i]
             /\ fs[i].at # "notify" => gs[i].call = fs[i].call
  <2>1. fs[i] \in T /\ fs # <<>>
    <3> HIDE DEF T
    <3> QED BY <1>1
  <2>2. CASE i \in Q
    <3>1. fs[i] \in Lsp!Loops /\ fs[i].at # "notify"
      BY <2>1, <2>2 DEF Lsp!Loops, Lsp!Notices
    <3>2. gs[i] = [fs[i] EXCEPT !.over = TRUE]
      BY <2>2 DEF QuitLoops
    <3>3. gs[i] \in Lsp!Loops /\ gs[i].at = fs[i].at /\ gs[i].call = fs[i].call
      BY <3>1, <3>2 DEF Lsp!Loops
    <3> QED BY <3>1, <3>3
  <2>3. CASE i \notin Q
    BY <2>1, <2>3 DEF QuitLoops
  <2> QED BY <2>2, <2>3
<1>3. \A i \in DOMAIN fs : \A c : Lsp!Holds(gs[i], c) <=> Lsp!Holds(fs[i], c)
  BY <1>2 DEF Lsp!Holds
<1>4. gs \in Seq(T)
  <2> HIDE DEF T
  <2>1. Len(fs) \in Nat /\ DOMAIN gs = 1..Len(fs)
    BY <1>1
  <2>2. gs \in [1..Len(fs) -> T]
    BY <1>1, <1>2, <2>1 DEF QuitLoops
  <2> QED BY <2>1, <2>2, SeqDef
<1>5. \A i \in DOMAIN gs : gs[i].at = "notify" => Lsp!IsInjective(gs[i].rest)
  BY <1>1, <1>2 DEF LspFrames
<1> QED BY <1>1, <1>2, <1>3, <1>4, <1>5 DEF LspFrames, SameHolds

LEMMA QuitSame ==
    ASSUME LspFrames(w10), NEW cs
    PROVE  SameHolds(w10, Lsp!Quit(cs))
<1> DEFINE Q == {i \in DOMAIN w10 : w10[i].at = "init" /\ w10[i].call \in cs}
<1>1. Lsp!Quit(cs) = QuitLoops(w10, Q)
  BY DEF Lsp!Quit, QuitLoops
<1>2. \A i \in Q : w10[i].at # "notify"
  OBVIOUS
<1> HIDE DEF Q
<1> QED BY <1>1, <1>2, OverSame

LEMMA LspStep ==
    ASSUME Lsp!LspSound, Lsp!Next
    PROVE  Lsp!LspSound'
<1>1. /\ LspTypes(w1, w2, w5, w10) /\ LspFrames(w10) /\ LspSoundNow(w5, w10, w4)
      /\ \A c \in LspCalls : CallSound(c, w1, w2, w5, w10, w4)
  BY LspExpanded DEF LspTypes, LspSoundNow
<1>2. ASSUME LspTypes(w1', w2', w5', w10'), \A c \in LspCalls : CallSound(c, w1', w2', w5', w10', w4')
      PROVE  Lsp!LspSound'
  <2>1. (Lsp!LspSound <=>
           LspTypes(w1, w2, w5, w10) /\ \A c \in LspCalls : CallSound(c, w1, w2, w5, w10, w4))'
    BY LspExpanded, PTL
  <2> QED BY <1>2, <2>1
<1>3. ASSUME AfterRun(w5, w4), w5' = w5, w4' = w4 PROVE Lsp!LspSound'
  BY <1>2, <1>3 DEF AfterRun
<1>4. ASSUME UNCHANGED <<w1, w2, w4, w5>>, NEW gs, w10' = gs, SameHolds(w10, gs)
      PROVE  Lsp!LspSound'
  <2>1. LspTypes(w1', w2', w5', w10')
    BY <1>1, <1>4 DEF LspTypes, SameHolds
  <2>2. ASSUME NEW c \in LspCalls PROVE CallSound(c, w1', w2', w5', w10', w4')
    <3>1. CallSound(c, w1, w2, w5, gs, w4)
      BY <1>1, <1>4, SameFrames DEF SameHolds
    <3> QED BY <1>4, <3>1
  <2> QED BY <1>2, <2>1, <2>2
<1>5. ASSUME UNCHANGED <<w1, w2, w4, w5, w10>> PROVE Lsp!LspSound'
  BY <1>1, <1>2, <1>5
<1>6. ASSUME UNCHANGED <<w1, w2, w4, w5>>, NEW cs, w10' = Lsp!Quit(cs) PROVE Lsp!LspSound'
  BY <1>1, <1>4, <1>6, QuitSame
<1>7. ASSUME NEW c \in LspCalls, Lsp!Execute(c) PROVE Lsp!LspSound'
  <2>1. CallFree(c, w1, w2, w5, w10) /\ w1[c] = "new"
    <3>1. w1[c] = "new" /\ CallSound(c, w1, w2, w5, w10, w4)
      BY <1>1, <1>7 DEF Lsp!Execute
    <3> QED BY <3>1 DEF CallSound, CallFree, Lsp!HeldBy
  <2>2. CASE Lsp!Start(c, w10) /\ UNCHANGED <<w4, w5>>
    <3>1. About(c, w5, w10, w4)
      BY <1>1, <2>1 DEF About
    <3> QED BY <1>3, <2>2, <3>1, Starting
  <2>3. CASE /\ w1' = [w1 EXCEPT ![c] = "deferred"] /\ w5' = Append(w5, c)
             /\ w4' = (IF w4 = "no" THEN "loading" ELSE w4) /\ UNCHANGED <<w2, w10>>
    <3>1. w5 \in Seq(LspCalls) /\ Lsp!IsInjective(w5) /\ c \notin Lsp!ToSet(w5) /\ w1 \in LspStates
      BY <1>1, <2>1 DEF LspTypes, CallFree
    <3>2. w5' \in Seq(LspCalls) /\ Lsp!IsInjective(w5') /\ Lsp!ToSet(w5') = Lsp!ToSet(w5) \cup {c}
      BY <2>3, <3>1, CallsAppended
    <3>3. LspTypes(w1', w2', w5', w10')
      BY <1>1, <2>3, <3>1, <3>2 DEF LspTypes, LspStates
    <3>4. w4' # "no"
      BY <2>3
    <3>5. CallSound(c, w1', w2', w5', w10', w4')
      <4>1. w1'[c] = "deferred" /\ w2'[c] = 0
        BY <2>1, <2>3, <3>1 DEF LspStates, CallFree
      <4> QED BY <2>1, <2>3, <3>2, <3>4, <4>1 DEF CallSound, CallFree
    <3>6. ASSUME NEW d \in LspCalls \ {c} PROVE CallSound(d, w1', w2', w5', w10', w4')
      <4>1. w1'[d] = w1[d] /\ w2'[d] = w2[d] /\ (d \in Lsp!ToSet(w5') <=> d \in Lsp!ToSet(w5))
        BY <2>3, <3>1, <3>2 DEF LspStates
      <4>2. CallSound(d, w1, w2, w5, w10, w4)
        BY <1>1
      <4> QED BY <2>3, <3>4, <4>1, <4>2 DEF CallSound
    <3> QED BY <1>2, <3>3, <3>5, <3>6
  <2> QED BY <1>7, <2>2, <2>3 DEF Lsp!Execute
<1>8. ASSUME NEW i \in DOMAIN w10, Lsp!LoopTimeout(i) PROVE Lsp!LspSound'
  <2>1. w10' = QuitLoops(w10, {i})
    <3>1. w10' = [w10 EXCEPT ![i].over = TRUE]
      BY <1>8 DEF Lsp!LoopTimeout
    <3>2. w10 = [j \in DOMAIN w10 |-> w10[j]]
      BY <1>1 DEF LspFrames
    <3> QED BY <3>1, <3>2 DEF QuitLoops
  <2>2. w10[i].at # "notify" /\ UNCHANGED <<w1, w2, w4, w5>>
    BY <1>8 DEF Lsp!LoopTimeout
  <2>3. \A j \in {i} : w10[j].at # "notify"
    BY <2>2
  <2>4. SameHolds(w10, QuitLoops(w10, {i}))
    BY <1>1, <2>3, OverSame
  <2> QED BY <1>4, <2>1, <2>2, <2>4
<1>9. ASSUME Lsp!Return PROVE Lsp!LspSound'
  <2>1. w10 # <<>> /\ Lsp!Top.at # "notify" /\ UNCHANGED <<w4, w5>>
    BY <1>9 DEF Lsp!Return
  <2>2. Lsp!Top.call \in LspCalls /\ About(Lsp!Top.call, w5, Lsp!Front(w10), w4)
    BY <1>1, <2>1, LoopTaken
  <2>3. Lsp!Ask(Lsp!Top.call, Lsp!Front(w10)) \/ Lsp!Ends(Lsp!Top.call, Lsp!Front(w10))
    BY <1>9 DEF Lsp!Return
  <2>4. AfterRun(w5, w4)
    BY <2>2, <2>3, Asking, Ending
  <2> QED BY <1>3, <2>1, <2>4
<1>10. ASSUME Lsp!NextWaiter PROVE Lsp!LspSound'
  <2>1. w10 # <<>> /\ Lsp!Top.at = "notify" /\ UNCHANGED <<w4, w5>>
    BY <1>10 DEF Lsp!NextWaiter
  <2>2. CASE Lsp!Top.rest = <<>>
    <3>1. w10' = Lsp!Front(w10) /\ UNCHANGED <<w1, w2>>
      BY <1>10, <2>2 DEF Lsp!NextWaiter
    <3>2. \A c : ~Lsp!Holds(Lsp!Last(w10), c)
      BY <2>1, <2>2 DEF Lsp!Top, Lsp!Holds, Lsp!ToSet
    <3>3. \A c \in LspCalls : CallSound(c, w1, w2, w5, Lsp!Front(w10), w4)
      BY <1>1, <2>1, <3>2, TakenBeside
    <3>4. LspTypes(w1, w2, w5, Lsp!Front(w10))
      BY <1>1, <2>1, LspFront DEF LspTypes
    <3> QED BY <1>2, <2>1, <3>1, <3>3, <3>4
  <2>3. CASE Lsp!Top.rest # <<>>
    <3> DEFINE c == Head(Lsp!Top.rest)
               below == Append(Lsp!Front(w10), [Lsp!Top EXCEPT !.rest = Tail(@)])
    <3>1. c \in LspCalls /\ About(c, w5, below, w4)
      BY <1>1, <2>1, <2>3, WaiterTaken
    <3>2. Lsp!Start(c, below) \/ Lsp!Ends(c, below)
      BY <1>10, <2>3 DEF Lsp!NextWaiter
    <3> HIDE DEF c, below
    <3>3. AfterRun(w5, w4)
      BY <3>1, <3>2, Starting, Ending
    <3> QED BY <1>3, <2>1, <3>3
  <2> QED BY <2>2, <2>3
<1>11. ASSUME Lsp!Initialized PROVE Lsp!LspSound'
  <2>1. w10' = Lsp!Quit(LspCalls) /\ UNCHANGED <<w1, w2, w4, w5>>
    BY <1>11 DEF Lsp!Initialized
  <2> QED BY <1>6, <2>1
<1>12. ASSUME Lsp!Answer PROVE Lsp!LspSound'
  <2>1. UNCHANGED <<w1, w2, w4, w5>>
    BY <1>12 DEF Lsp!Answer
  <2>2. PICK r \in w8 : Lsp!Answered(r) \/ Lsp!SecondRequest(r)
    BY <1>12 DEF Lsp!Answer
  <2>3. CASE w10' = w10
    BY <1>5, <2>1, <2>3
  <2>4. CASE w10' = Lsp!Quit(LspCalls)
    BY <1>6, <2>1, <2>4
  <2>5. CASE w10' = [i \in DOMAIN w10 |->
                 IF w10[i].at = "answer" /\ w10[i].call = r.call
                 THEN [w10[i] EXCEPT !.over = TRUE] ELSE w10[i]]
    <3> DEFINE Q == {i \in DOMAIN w10 : w10[i].at = "answer" /\ w10[i].call = r.call}
    <3>1. w10' = QuitLoops(w10, Q)
      BY <2>5 DEF QuitLoops
    <3>2. \A i \in Q : w10[i].at # "notify"
      OBVIOUS
    <3> HIDE DEF Q
    <3>3. SameHolds(w10, QuitLoops(w10, Q))
      BY <1>1, <3>2, OverSame
    <3> QED BY <1>4, <2>1, <3>1, <3>3
  <2> QED BY <2>2, <2>3, <2>4, <2>5 DEF Lsp!Answered, Lsp!SecondRequest
<1>13. ASSUME Lsp!ServerExits PROVE Lsp!LspSound'
  <2>1. w10' = Lsp!Quit(LspCalls) /\ UNCHANGED <<w1, w2, w4, w5>>
    BY <1>13 DEF Lsp!ServerExits
  <2> QED BY <1>6, <2>1
<1>14. ASSUME NEW ok \in BOOLEAN, Lsp!Notify(ok), UNCHANGED <<w1, w2>> PROVE Lsp!LspSound'
  <2> DEFINE f == [at |-> "notify", rest |-> w5, success |-> ok]
  <2>1. w5' = <<>> /\ w10' = Append(w10, f)
    BY <1>14 DEF Lsp!Notify
  <2>2. f \in Lsp!Notices /\ f.at = "notify" /\ f.rest = w5 /\ Lsp!IsInjective(w5)
    BY <1>1 DEF Lsp!Notices, LspTypes
  <2> HIDE DEF f
  <2>3. Lsp!HeldBy(f) = "deferred" /\ \A c : Lsp!Holds(f, c) <=> c \in Lsp!ToSet(w5)
    BY <2>2 DEF Lsp!HeldBy, Lsp!Holds
  <2>4. Lsp!ToSet(<<>>) = {} /\ Lsp!IsInjective(<<>>) /\ <<>> \in Seq(LspCalls)
    BY DEF Lsp!ToSet, Lsp!IsInjective
  <2>5. LspTypes(w1', w2', w5', w10')
    <3>1. LspFrames(Append(w10, f))
      BY <1>1, <2>2, LspFramesAppend
    <3> QED BY <1>1, <1>14, <2>1, <2>4, <3>1 DEF LspTypes
  <2>6. ASSUME NEW c \in LspCalls PROVE CallSound(c, w1', w2', w5', w10', w4')
    <3>1. CallSound(c, w1, w2, w5, w10, w4)
      BY <1>1
    <3>2. CASE c \in Lsp!ToSet(w5)
      <4>1. w1[c] = "deferred" /\ w2[c] = 0 /\ \A i \in DOMAIN w10 : ~Lsp!Holds(w10[i], c)
        BY <3>1, <3>2 DEF CallSound
      <4>2. CallFree(c, w1, w2, <<>>, w10)
        BY <2>4, <4>1 DEF CallFree
      <4>3. CallSound(c, w1, w2, <<>>, Append(w10, f), w4')
        BY <1>1, <2>2, <2>3, <3>2, <4>1, <4>2, PutOn
      <4> QED BY <1>14, <2>1, <4>3
    <3>3. CASE c \notin Lsp!ToSet(w5)
      <4>1. CallSound(c, w1, w2, <<>>, w10, w4')
        BY <2>4, <3>1, <3>3 DEF CallSound
      <4>2. CallSound(c, w1, w2, <<>>, Append(w10, f), w4')
        BY <1>1, <2>2, <2>3, <3>3, <4>1, PutBeside
      <4> QED BY <1>14, <2>1, <4>2
    <3> QED BY <3>2, <3>3
  <2> QED BY <1>2, <2>5, <2>6
<1>15. ASSUME Lsp!DownloadFails PROVE Lsp!LspSound'
  <2>1. Lsp!Notify(FALSE) /\ UNCHANGED <<w1, w2>>
    BY <1>15 DEF Lsp!DownloadFails
  <2> QED BY <1>14, <2>1
<1>16. ASSUME Lsp!Downloaded PROVE Lsp!LspSound'
  <2>1. w4 = "loading" /\ w4' = "unpacking" /\ UNCHANGED <<w1, w2, w5, w10>>
    BY <1>16 DEF Lsp!Downloaded
  <2>2. ASSUME NEW c \in LspCalls PROVE CallSound(c, w1', w2', w5', w10', w4')
    <3>1. CallSound(c, w1, w2, w5, w10, w4)
      BY <1>1
    <3> QED BY <2>1, <3>1 DEF CallSound
  <2> QED BY <1>1, <1>2, <2>1, <2>2
<1>17. ASSUME Lsp!Installed PROVE Lsp!LspSound'
  <2>1. Lsp!Notify(TRUE) /\ UNCHANGED <<w1, w2>>
    BY <1>17 DEF Lsp!Installed
  <2> QED BY <1>14, <2>1
<1> QED BY <1>7, <1>8, <1>9, <1>10, <1>11, <1>12, <1>13, <1>15, <1>16, <1>17 DEF Lsp!Next

-----------------------------------------------------------------------------
(* Calls go where they belong and none is lost.                            *)

CallsSound ==
    /\ part = "tools" => Index!IndexSound
    /\ part = "lsp" => Lsp!LspSound

\* In every behaviour of one of these components, for any plugins, servers,
\* configurations, callers and calls, the tools of active plugins go to a plugin, those
\* of the MCP provider to a server that is configured now, and a call to a language
\* server is answered once or waits where it will be found.
THEOREM ToolCalls == PartSpec => []CallsTrue
<1>1. PartInit => CallsSound
  BY IndexInit, LspInit DEF PartInit, CallsSound
<1>2. CallsSound /\ [PartNext]_<<part, vars, Spare0>> => CallsSound'
  <2> SUFFICES ASSUME CallsSound, [PartNext]_<<part, vars, Spare0>> PROVE CallsSound'
    OBVIOUS
  <2>1. CASE part = "tools" /\ part' = part
    <3>1. Index!IndexSound
      BY <2>1 DEF CallsSound
    <3>2. CASE Index!Next
      BY <2>1, <3>1, <3>2, IndexStep DEF CallsSound
    <3>3. CASE UNCHANGED Spare0
      <4>1. UNCHANGED <<w1, w2, w3, w4, w5, w6, w7, w8, w9, w10, w11, w12>>
        BY <3>3 DEF Spare0
      <4>2. Index!IndexSound'
        <5>1. (Index!IndexSound <=>
                  /\ w1 \in Configurations /\ w2 \in 0..ToolEdits
                  /\ Known(w3, w1) /\ Owned(w8, w6 \cap w7, w1) /\ Index!GoodFrames(w9, w1, w2)
                  /\ w10 \in CallStates /\ Others(w5, w6, w7, w4, w11, w12))'
          BY IndexExpanded, PTL
        <5> QED BY <3>1, <4>1, <5>1, IndexExpanded
      <4> QED BY <2>1, <4>2 DEF CallsSound
    <3> QED BY <2>1, <3>2, <3>3 DEF PartNext
  <2>2. CASE part = "lsp" /\ part' = part
    <3>1. Lsp!LspSound
      BY <2>2 DEF CallsSound
    <3>2. CASE Lsp!Next
      BY <2>2, <3>1, <3>2, LspStep DEF CallsSound
    <3>3. CASE UNCHANGED Spare0
      <4>1. UNCHANGED <<w1, w2, w3, w4, w5, w6, w7, w8, w9, w10, w11>>
        BY <3>3 DEF Spare0
      <4>2. Lsp!LspSound'
        <5>1. (Lsp!LspSound <=>
                 LspTypes(w1, w2, w5, w10) /\ \A c \in LspCalls : CallSound(c, w1, w2, w5, w10, w4))'
          BY LspExpanded, PTL
        <5> QED BY <3>1, <4>1, <5>1, LspExpanded
      <4> QED BY <2>2, <4>2 DEF CallsSound
    <3> QED BY <2>2, <3>2, <3>3 DEF PartNext
  <2>3. part' = part
    BY DEF PartNext
  <2>4. CASE part \notin {"tools", "lsp"}
    BY <2>3, <2>4 DEF CallsSound
  <2> QED BY <2>1, <2>2, <2>3, <2>4
<1>3. CallsSound => CallsTrue
  BY DEF CallsSound, CallsTrue, Index!IndexSound, Lsp!LspSound
<1> QED BY <1>1, <1>2, <1>3, PTL DEF PartSpec

-----------------------------------------------------------------------------
(* A terminal: an approval that is shown has not been answered.             *)

TerminalSound ==
    /\ Terminal!TypeOK /\ Terminal!AnsweredOnce
    /\ w11 # NoRequest => w13[w11] = 0

LEMMA TerminalInit == Terminal!Init => TerminalSound
<1> SUFFICES ASSUME Terminal!Init PROVE TerminalSound
  OBVIOUS
<1>1. /\ w1 \in {"task", "agent", "codex"} /\ w2 \in {"starting", "menu", "repl", "ended"}
      /\ w3 = 0 /\ w4 = <<>> /\ w5 = 0 /\ w6 = FALSE /\ w7 \in Nat /\ w8 = <<>>
      /\ w9 = FALSE /\ w10 = 0 /\ w11 = NoRequest /\ w12 = {} /\ w13 = [r \in Approvals |-> 0]
  BY DEF Terminal!Init
<1>2. w13 \in [Approvals -> Nat] /\ \A r \in Approvals : w13[r] = 0
  BY <1>1
<1>3. Terminal!TypeOK
  <2>1. w5 \in 0..MaxTyped
    BY <1>1, FrontsAssumption
  <2>2. /\ <<>> \in Seq({"text", "quit", "switch"})
        /\ <<>> \in Seq({"text", "quit", "switch"} \cup {"eof"})
    OBVIOUS
  <2>3. w3 \in Nat /\ w6 \in BOOLEAN /\ w9 \in BOOLEAN /\ w10 \in Nat
    BY <1>1
  <2> QED BY <1>1, <1>2, <2>1, <2>2, <2>3 DEF Terminal!TypeOK
<1> QED BY <1>1, <1>2, <1>3 DEF TerminalSound, Terminal!AnsweredOnce

\* Steps that touch no approval.
LEMMA TerminalKeeps ==
    ASSUME TerminalSound, UNCHANGED <<w11, w13>>,
           w1' = w1, w2' \in {"starting", "menu", "repl", "ended"}, w3' \in Nat,
           w4' \in Seq({"text", "quit", "switch"}), w5' \in 0..MaxTyped, w6' \in BOOLEAN,
           w7' \in Nat, w8' \in Seq({"text", "quit", "switch"} \cup {"eof"}),
           w9' \in BOOLEAN, w10' \in Nat, w12' \subseteq Approvals
    PROVE  TerminalSound'
BY DEF TerminalSound, Terminal!TypeOK, Terminal!AnsweredOnce

LEMMA TerminalHandles ==
    ASSUME TerminalSound, Terminal!OnStdinLine PROVE TerminalSound'
<1> DEFINE T == {"text", "quit", "switch"} \cup {"eof"}
<1>1. w8 \in Seq(T) /\ w8 # <<>>
  BY DEF TerminalSound, Terminal!TypeOK, Terminal!OnStdinLine
<1> HIDE DEF T
<1>2. w8' \in Seq(T)
  BY <1>1 DEF Terminal!OnStdinLine
<1> USE DEF T
<1>3. UNCHANGED <<w1, w3, w4, w5, w6, w7>>
  BY DEF Terminal!OnStdinLine, Terminal!input
<1>4. CASE UNCHANGED <<w11, w12, w13>>
  <2>1. w2' \in {"starting", "menu", "repl", "ended"} /\ w9' \in BOOLEAN /\ w10' \in Nat
    <3>1. Terminal!Handle(Head(w8))
      BY DEF Terminal!OnStdinLine
    <3>2. CASE w2' \in {w2, "ended"} /\ UNCHANGED <<w9, w10>>
      BY <3>2 DEF TerminalSound, Terminal!TypeOK
    <3>3. CASE w11 # NoRequest /\ Terminal!Decide
      BY <3>3 DEF TerminalSound, Terminal!TypeOK, Terminal!Decide
    <3>4. CASE Terminal!Process(Head(w8))
      <4>1. w10 \in Nat /\ w9 \in BOOLEAN /\ w2 \in {"starting", "menu", "repl", "ended"}
        BY DEF TerminalSound, Terminal!TypeOK
      <4>2. CASE Terminal!Send
        <5>1. w10' = w10 + 1 \/ w10' = w10
          BY <4>2 DEF Terminal!Send
        <5> QED BY <4>1, <4>2, <5>1 DEF Terminal!Send
      <4>3. CASE w2' \in {"ended", "menu"} /\ UNCHANGED <<w9, w10>>
        BY <4>1, <4>3
      <4> QED BY <3>4, <4>2, <4>3 DEF Terminal!Process
    <3> QED BY <3>1, <3>2, <3>3, <3>4 DEF Terminal!Handle
  <2> QED BY <1>2, <1>3, <1>4, <2>1, TerminalKeeps DEF TerminalSound, Terminal!TypeOK
<1>5. CASE w11 # NoRequest /\ Terminal!Decide
  BY <1>2, <1>3, <1>5, FrontsAssumption
     DEF TerminalSound, Terminal!TypeOK, Terminal!AnsweredOnce, Terminal!Decide
<1> QED BY <1>4, <1>5 DEF Terminal!OnStdinLine, Terminal!Handle, Terminal!approvals

LEMMA TerminalStep ==
    ASSUME TerminalSound, Terminal!Next PROVE TerminalSound'
<1> DEFINE L == {"text", "quit", "switch"}
<1> DEFINE T == L \cup {"eof"}
<1>1. w4 \in Seq(L) /\ w8 \in Seq(T) /\ w5 \in 0..MaxTyped /\ w7 \in Nat /\ w10 \in Nat /\ w3 \in Nat
  BY DEF TerminalSound, Terminal!TypeOK
<1>2. /\ w1 \in {"task", "agent", "codex"} /\ w2 \in {"starting", "menu", "repl", "ended"}
      /\ w6 \in BOOLEAN /\ w9 \in BOOLEAN /\ w12 \subseteq Approvals
  BY DEF TerminalSound, Terminal!TypeOK
<1>3. w4 # <<>> => Tail(w4) \in Seq(L) /\ Head(w4) \in L
  <2> HIDE DEF L
  <2> QED BY <1>1
<1>4. \A l \in L : Append(w4, l) \in Seq(L)
  <2> HIDE DEF L
  <2> QED BY <1>1
<1>5. \A l \in T : Append(w8, l) \in Seq(T)
  <2> HIDE DEF T
  <2> QED BY <1>1
<1>6. \A l \in L : l \in T
  OBVIOUS
<1>7. "eof" \in T
  OBVIOUS
<1> USE DEF Terminal!approvals, Terminal!input
<1>8. ASSUME NEW l \in L, Terminal!Type(l) PROVE TerminalSound'
  BY <1>1, <1>2, <1>4, <1>8, FrontsAssumption, TerminalKeeps DEF Terminal!Type
<1>9. CASE Terminal!Close
  BY <1>1, <1>2, <1>9, TerminalKeeps DEF Terminal!Close
<1>10. CASE Terminal!ReaderReads
  <2>1. w4' \in Seq(L) /\ w8' \in Seq(T) /\ w7' \in Nat
    <3>1. w7 > 0 => w7 - 1 \in Nat
      BY <1>1
    <3> HIDE DEF L, T
    <3>2. w7' \in Nat
      BY <1>1, <1>10, <3>1 DEF Terminal!ReaderReads
    <3>3. w4' \in Seq(L)
      BY <1>1, <1>3, <1>10 DEF Terminal!ReaderReads
    <3>4. w8' \in Seq(T)
      BY <1>3, <1>5, <1>6, <1>7, <1>10 DEF Terminal!ReaderReads
    <3> QED BY <3>2, <3>3, <3>4
  <2> QED BY <1>1, <1>2, <1>10, <2>1, TerminalKeeps DEF Terminal!ReaderReads
<1>11. CASE Terminal!Choose
  <2>1. w4' \in Seq(L) /\ w7' \in Nat
    <3> HIDE DEF L, T
    <3> QED BY <1>1, <1>3, <1>11 DEF Terminal!Choose
  <2> QED BY <1>1, <1>2, <1>11, <2>1, TerminalKeeps DEF Terminal!Choose
<1>12. CASE Terminal!OnStdinLine
  BY <1>12, TerminalHandles
<1>13. CASE Terminal!TurnEnds
  <2>1. w10' \in Nat /\ w12' \subseteq Approvals
    BY <1>1, <1>13 DEF Terminal!TurnEnds
  <2> QED BY <1>1, <1>2, <1>13, <2>1, TerminalKeeps DEF Terminal!TurnEnds
<1>14. ASSUME NEW r \in Approvals, Terminal!AskApproval(r) PROVE TerminalSound'
  <2>1. w12' \subseteq Approvals /\ w11' = r /\ w13[r] = 0 /\ w13' = w13
    BY <1>2, <1>14 DEF Terminal!AskApproval
  <2>2. UNCHANGED <<w1, w2, w3, w4, w5, w6, w7, w8, w9, w10>>
    BY <1>14 DEF Terminal!AskApproval
  <2> QED BY <2>1, <2>2 DEF TerminalSound, Terminal!TypeOK, Terminal!AnsweredOnce
<1>15. CASE Terminal!Connect
  BY <1>1, <1>2, <1>15, TerminalKeeps DEF Terminal!Connect
<1>16. CASE Terminal!TransportError
  BY <1>1, <1>2, <1>16, TerminalKeeps DEF Terminal!TransportError
<1>17. CASE Terminal!TaskEnds
  BY <1>1, <1>2, <1>17, TerminalKeeps DEF Terminal!TaskEnds
<1> QED
  BY <1>8, <1>9, <1>10, <1>11, <1>12, <1>13, <1>14, <1>15, <1>16, <1>17 DEF Terminal!Next

-----------------------------------------------------------------------------
(* The command line: until it prints, the list of notes holds each call's   *)
(* start and end once, the end of every call that is not pending.           *)

Notes == [call : CommandCalls, status : {"started", "completed"}]

NotesSound(es, pend, ask) ==
    /\ es \in Seq(Notes)
    /\ Command!IsInjective(es)
    /\ \A k \in DOMAIN es : es[k].call \in ask
    /\ \A k \in DOMAIN es : es[k].status = "completed" => es[k].call \notin pend
    /\ \A k \in DOMAIN es : es[k].call \notin pend =>
          \E l \in DOMAIN es : es[l] = [call |-> es[k].call, status |-> "completed"]

\* What a printed result says.
ResultSound(r) ==
    /\ r.success \in BOOLEAN /\ (r.success <=> r.code = 0)
    /\ Command!IsInjective(r.entries)
    /\ \A c \in CommandCalls :
          (\E k \in DOMAIN r.entries : r.entries[k] = [call |-> c, status |-> "started"])
          => \E k \in DOMAIN r.entries : r.entries[k] = [call |-> c, status |-> "completed"]

CommandSound ==
    /\ Command!TypeOK /\ Command!ResultTrue
    /\ w2 # "over" => w7 = <<>> /\ w8 = -1 /\ NotesSound(w6, w3, w4)

LEMMA CommandInit == Command!Init => CommandSound
<1> SUFFICES ASSUME Command!Init PROVE CommandSound
  OBVIOUS
<1>1. /\ w1 \in SUBSET Command!Flags /\ w2 = "start" /\ w3 = {} /\ w4 = {} /\ w5 = FALSE
      /\ w6 = <<>> /\ w7 = <<>> /\ w8 = -1
  BY DEF Command!Init
<1>2. <<>> \in Seq(Notes) /\ DOMAIN <<>> = {}
  OBVIOUS
<1>3. Command!TypeOK
  <2>1. w6 \in Seq(Notes) /\ w8 \in -1..3 /\ w5 \in BOOLEAN /\ \A k \in DOMAIN w7 : FALSE
    <3>1. w6 \in Seq(Notes) /\ w5 \in BOOLEAN
      BY <1>1, <1>2
    <3>2. w8 \in -1..3
      BY <1>1
    <3>3. \A k \in DOMAIN w7 : FALSE
      BY <1>1, <1>2
    <3> QED BY <3>1, <3>2, <3>3
  <2> QED BY <1>1, <2>1 DEF Command!TypeOK, Notes
<1>4. Command!ResultTrue
  BY <1>1, <1>2 DEF Command!ResultTrue, Command!ExitBadArgs
<1>5. NotesSound(w6, w3, w4)
  BY <1>1, <1>2 DEF NotesSound, Command!IsInjective
<1> QED BY <1>1, <1>3, <1>4, <1>5 DEF CommandSound

\* Steps that print nothing and go on.
LEMMA CommandKeeps ==
    ASSUME CommandSound, w2 # "over", w1' = w1, w2' \in {"start", "run", "busy"}, w3' \subseteq CommandCalls,
           w4' \subseteq CommandCalls, w5' \in BOOLEAN, UNCHANGED <<w7, w8>>,
           NotesSound(w6', w3', w4')
    PROVE  CommandSound'
<1>1. w7' = <<>> /\ w8' = -1 /\ DOMAIN <<>> = {}
  BY DEF CommandSound
<1>2. w6' \in Seq(Notes)
  BY DEF NotesSound
<1>3. Command!TypeOK'
  BY <1>1, <1>2 DEF CommandSound, Command!TypeOK, Notes
<1>4. Command!ResultTrue'
  BY <1>1 DEF Command!ResultTrue, Command!ExitBadArgs
<1>5. NotesSound(w6, w3, w4)'
  BY DEF NotesSound
<1> QED BY <1>1, <1>3, <1>4, <1>5 DEF CommandSound

\* Steps that end the program, with n results.
LEMMA CommandEnds ==
    ASSUME CommandSound, w1' = w1, w2' = "over", w3' \subseteq CommandCalls, w4' \subseteq CommandCalls,
           w5' \in BOOLEAN, w6' \in Seq(Notes), NEW n \in Nat, DOMAIN w7' = 1..n, Len(w7') = n,
           w8' \in 0..3, n # 0 => w8' # 3, n = 0 => w7' = <<>>,
           \A k \in 1..n : ResultSound(w7'[k]) /\ w7'[k].code = w8'
    PROVE  CommandSound'
<1>1. Command!TypeOK'
  BY DEF CommandSound, Command!TypeOK, Notes, ResultSound
<1>2. (Command!ExitBadArgs = w8 => w7 = <<>>)'
  BY DEF Command!ExitBadArgs
<1>3. w7' # <<>> => w8' = w7'[Len(w7')].code
  <2>1. n # 0 => n \in 1..n
    OBVIOUS
  <2> QED BY <2>1
<1>4. ASSUME NEW k \in 1..n
      PROVE  /\ w7'[k].success <=> w7'[k].code = 0
             /\ Command!IsInjective(w7'[k].entries)
             /\ \A c \in CommandCalls : Command!Noted(c, "started", w7'[k].entries)
                                          => Command!Noted(c, "completed", w7'[k].entries)
  <2>1. ResultSound(w7'[k])
    OBVIOUS
  <2> QED BY <2>1 DEF ResultSound, Command!Noted, Command!Entry
<1>5. Command!ResultTrue'
  BY <1>2, <1>3, <1>4 DEF Command!ResultTrue, Command!ExitBadArgs, Command!ExitSuccess
<1> QED BY <1>1, <1>5 DEF CommandSound

\* A result made of notes to which nothing is missing.
LEMMA ResultOfNotes ==
    ASSUME NEW es, NEW ask, NotesSound(es, {}, ask), NEW ok \in BOOLEAN, NEW code,
           ok <=> code = 0
    PROVE  ResultSound([success |-> ok, code |-> code, entries |-> es])
<1> DEFINE r == [success |-> ok, code |-> code, entries |-> es]
<1>1. r.success = ok /\ r.code = code /\ r.entries = es
  OBVIOUS
<1> HIDE DEF r
<1>2. ASSUME NEW c \in CommandCalls, NEW k \in DOMAIN es, es[k] = [call |-> c, status |-> "started"]
      PROVE  \E l \in DOMAIN es : es[l] = [call |-> c, status |-> "completed"]
  <2>1. es[k].call = c
    BY <1>2
  <2> QED BY <2>1 DEF NotesSound
<1>3. ResultSound(r)
  BY <1>1, <1>2 DEF ResultSound, NotesSound
<1> QED BY <1>3 DEF r

\* One result more than none.
LEMMA FirstResult ==
    ASSUME NEW r PROVE  Append(<<>>, r) = <<r>> /\ DOMAIN <<r>> = 1..1 /\ Len(<<r>>) = 1 /\ <<r>>[1] = r
OBVIOUS

LEMMA CommandGoes ==
    ASSUME CommandSound,
           Command!Parse \/ Command!Command \/ Command!Run \/ Command!Finished
    PROVE  CommandSound'
<1>1. /\ w3 \subseteq CommandCalls /\ w4 \subseteq CommandCalls /\ w5 \in BOOLEAN /\ w6 \in Seq(Notes)
      /\ w2 \in {"start", "run", "busy", "over"}
  BY DEF CommandSound, Command!TypeOK, Notes
<1> USE DEF Command!agent
<1>2. CASE Command!Parse
  <2>1. /\ w2 # "over" /\ UNCHANGED <<w1, w3, w4, w5, w6, w7>> /\ w7 = <<>> /\ w8 = -1
        /\ NotesSound(w6, w3, w4)
    BY <1>2 DEF Command!Parse, CommandSound
  <2>2. CASE w2' = "run" /\ w8' = w8
    BY <1>1, <2>1, <2>2, CommandKeeps
  <2>3. CASE w2' = "over" /\ w8' \in {0, 3}
    <3>1. DOMAIN w7' = 1..0 /\ Len(w7') = 0 /\ w7' = <<>> /\ w8' \in 0..3 /\ 0 \in Nat
      BY <2>1, <2>3
    <3>2. w3' \subseteq CommandCalls /\ w4' \subseteq CommandCalls /\ w5' \in BOOLEAN /\ w6' \in Seq(Notes)
      BY <1>1, <2>1
    <3> QED BY <2>1, <2>3, <3>1, <3>2, CommandEnds
  <2> QED BY <1>2, <2>2, <2>3
     DEF Command!Parse, Command!Over, Command!ExitSuccess, Command!ExitBadArgs
<1>3. ASSUME NEW ok \in BOOLEAN, NEW code \in {0, 1}, ok <=> code = 0, w2 # "over",
             Command!OutputJson(ok, code, <<>>), UNCHANGED <<w1, w3, w4, w5, w6>>
      PROVE  CommandSound'
  <2> DEFINE r == [success |-> ok, code |-> code, entries |-> <<>>]
  <2>1. w7' = Append(<<>>, r) /\ w2' = "over" /\ w8' = code
    BY <1>3 DEF Command!OutputJson, Command!Over, CommandSound
  <2>2. r.code = code
    OBVIOUS
  <2>3. NotesSound(<<>>, {}, {})
    BY DEF NotesSound, Command!IsInjective
  <2>4. ResultSound(r)
    BY <1>3, <2>3, ResultOfNotes
  <2> HIDE DEF r
  <2>5. DOMAIN w7' = 1..1 /\ Len(w7') = 1 /\ w7'[1] = r
    BY <2>1, FirstResult
  <2>6. \A k \in 1..1 : ResultSound(w7'[k]) /\ w7'[k].code = w8'
    BY <2>1, <2>2, <2>4, <2>5
  <2>7. w3' \subseteq CommandCalls /\ w4' \subseteq CommandCalls /\ w5' \in BOOLEAN /\ w6' \in Seq(Notes)
    BY <1>1, <1>3
  <2> QED BY <1>3, <2>1, <2>5, <2>6, <2>7, CommandEnds
<1>4. CASE Command!Command
  <2>1. PICK ok \in BOOLEAN : Command!OutputJson(ok, IF ok THEN 0 ELSE 1, <<>>)
    BY <1>4 DEF Command!Command, Command!ExitSuccess, Command!ExitError
  <2>2. UNCHANGED <<w1, w3, w4, w5, w6>> /\ w2 # "over"
    BY <1>4 DEF Command!Command
  <2> QED BY <1>3, <2>1, <2>2
<1>5. CASE Command!Run
  <2>1. UNCHANGED <<w1, w3, w4, w6>> /\ w2 # "over"
    BY <1>5 DEF Command!Run
  <2>2. Command!Begin \/ (Command!OutputJson(FALSE, 1, <<>>) /\ UNCHANGED w5)
    BY <1>5 DEF Command!Run, Command!ExitError
  <2>3. CASE Command!Begin
    <3>1. w2' = "busy" /\ w5' = TRUE /\ UNCHANGED <<w7, w8>>
      BY <2>3 DEF Command!Begin
    <3> QED BY <1>1, <2>1, <3>1, CommandKeeps DEF CommandSound
  <2>4. CASE Command!OutputJson(FALSE, 1, <<>>) /\ UNCHANGED w5
    <3>1. FALSE \in BOOLEAN /\ 1 \in {0, 1} /\ (FALSE <=> 1 = 0)
      OBVIOUS
    <3> QED BY <1>3, <2>1, <2>4, <3>1
  <2> QED BY <2>2, <2>3, <2>4
<1>6. CASE Command!Finished
  BY <1>6 DEF Command!Finished, Command!vars, CommandSound, Command!TypeOK, Command!ResultTrue,
     NotesSound
<1> QED BY <1>2, <1>4, <1>5, <1>6

\* A note more: a call that starts while it is pending, or one that ends.
LEMMA NotesMore ==
    ASSUME NEW es, NEW pend, NEW ask, NotesSound(es, pend, ask), NEW c \in pend, c \in CommandCalls,
           NEW status \in {"started", "completed"}, status = "started" => c \notin ask
    PROVE  NotesSound(Append(es, [call |-> c, status |-> status]),
                      IF status = "started" THEN pend ELSE pend \ {c}, ask \cup {c})
<1> DEFINE e == [call |-> c, status |-> status]
<1>1. e \in Notes /\ e.call = c /\ e.status = status
  BY DEF Notes
<1>2. status = "completed" => e = [call |-> c, status |-> "completed"]
  OBVIOUS
<1> HIDE DEF e
<1> DEFINE fs == Append(es, e)
<1>3. /\ fs \in Seq(Notes) /\ DOMAIN fs = 1..(Len(es) + 1) /\ DOMAIN es = 1..Len(es) /\ Len(es) \in Nat
      /\ fs[Len(es) + 1] = e /\ \A k \in DOMAIN es : fs[k] = es[k]
  BY <1>1 DEF NotesSound
<1> HIDE DEF fs
<1>4. \A k \in DOMAIN fs : k = Len(es) + 1 \/ k \in DOMAIN es
  BY <1>3
<1>5. \A k \in DOMAIN es : k \in DOMAIN fs
  BY <1>3
<1>6. \A k \in DOMAIN es : es[k] # e
  <2> SUFFICES ASSUME NEW k \in DOMAIN es, es[k] = e PROVE FALSE
    OBVIOUS
  <2>1. es[k].call \in ask /\ (es[k].status = "completed" => es[k].call \notin pend)
    BY DEF NotesSound
  <2> QED BY <1>1, <2>1
<1>7. Command!IsInjective(fs)
  BY <1>3, <1>4, <1>6 DEF NotesSound, Command!IsInjective
<1>8. \A k \in DOMAIN fs : fs[k].call \in ask \cup {c}
  BY <1>1, <1>3, <1>4 DEF NotesSound
<1> DEFINE rest == IF status = "started" THEN pend ELSE pend \ {c}
<1>9. \A k \in DOMAIN fs : fs[k].status = "completed" => fs[k].call \notin rest
  BY <1>1, <1>3, <1>4 DEF NotesSound
<1>10. ASSUME NEW k \in DOMAIN fs, fs[k].call \notin rest
       PROVE  \E l \in DOMAIN fs : fs[l] = [call |-> fs[k].call, status |-> "completed"]
  <2>1. CASE status = "completed" /\ fs[k].call = c
    <3>1. fs[Len(es) + 1] = [call |-> fs[k].call, status |-> "completed"] /\ Len(es) + 1 \in DOMAIN fs
      BY <1>2, <1>3, <2>1
    <3> QED BY <3>1
  <2>2. CASE k \in DOMAIN es /\ fs[k].call \notin pend
    <3>1. \E l \in DOMAIN es : es[l] = [call |-> es[k].call, status |-> "completed"]
      BY <1>3, <2>2 DEF NotesSound
    <3> QED BY <1>3, <1>5, <2>2, <3>1
  <2> QED BY <1>1, <1>3, <1>4, <1>10, <2>1, <2>2
<1>11. NotesSound(fs, rest, ask \cup {c})
  BY <1>3, <1>7, <1>8, <1>9, <1>10 DEF NotesSound
<1> QED BY <1>11 DEF fs, e

\* The abort notes the end of each call that is pending, in any order.
LEMMA NotesAborted ==
    ASSUME NEW es, NEW pend \in SUBSET CommandCalls, NEW ask, NotesSound(es, pend, ask),
           NEW s \in Command!Bijection(1..Command!Cardinality(pend),
                                       {Command!Entry(c, "completed") : c \in pend})
    PROVE  NotesSound(es \o s, {}, ask \cup pend)
<1> DEFINE n == Command!Cardinality(pend)
<1>1. n \in Nat
  <2>1. IsFiniteSet(pend)
    BY FrontsAssumption, FS_Subset
  <2>2. n = Cardinality(pend)
    BY DEF Command!Cardinality, Cardinality
  <2> QED BY <2>1, <2>2, FS_CardinalityType
<1> HIDE DEF n
<1> DEFINE S == {[call |-> c, status |-> "completed"] : c \in pend}
<1>2. /\ s \in [1..n -> S] /\ \A j, k \in 1..n : s[j] = s[k] => j = k
      /\ \A c \in pend : \E k \in 1..n : s[k] = [call |-> c, status |-> "completed"]
  BY DEF n, Command!Bijection, Command!Injection, Command!Surjection, Command!IsInjective, Command!Entry
<1>3. S \subseteq Notes
  BY DEF Notes
<1>4. \A e \in S : e.status = "completed" /\ e.call \in pend
  OBVIOUS
<1> HIDE DEF S
<1>5. s \in Seq(Notes) /\ Len(s) = n /\ DOMAIN s = 1..n
  <2>1. s \in [1..n -> Notes]
    BY <1>2, <1>3
  <2>2. s \in Seq(Notes)
    BY <1>1, <2>1, SeqDef
  <2>3. DOMAIN s = 1..n /\ DOMAIN s = 1..Len(s) /\ Len(s) \in Nat
    BY <1>2, <2>2, LenProperties
  <2> QED BY <1>1, <2>2, <2>3
<1> DEFINE m == Len(es)
<1>6. es \in Seq(Notes) /\ m \in Nat /\ DOMAIN es = 1..m
  BY LenProperties DEF NotesSound
<1> DEFINE fs == es \o s
<1>7. /\ fs \in Seq(Notes) /\ DOMAIN fs = 1..(m + n)
      /\ \A i \in 1..m : fs[i] = es[i]
      /\ \A i \in 1..n : fs[m + i] = s[i]
  <2>1. /\ fs \in Seq(Notes) /\ Len(fs) = m + n
        /\ \A i \in 1..(m + n) : fs[i] = IF i <= m THEN es[i] ELSE s[i - m]
    BY <1>5, <1>6, ConcatProperties
  <2>2. DOMAIN fs = 1..(m + n)
    BY <2>1, LenProperties
  <2> QED BY <1>1, <1>6, <2>1, <2>2
<1> HIDE DEF fs, m
<1>8. \A i \in DOMAIN fs : i \in 1..m \/ \E k \in 1..n : i = m + k
  <2> SUFFICES ASSUME NEW i \in 1..(m + n), i \notin 1..m PROVE i - m \in 1..n /\ i = m + (i - m)
    BY <1>7
  <2> QED BY <1>1, <1>6
<1>9. /\ \A i \in 1..m : i \in DOMAIN fs /\ i \in DOMAIN es
      /\ \A k \in 1..n : m + k \in DOMAIN fs /\ s[k] \in S
  BY <1>1, <1>2, <1>6, <1>7
<1>10. \A i \in 1..m, k \in 1..n : es[i] # s[k]
  <2> SUFFICES ASSUME NEW i \in 1..m, NEW k \in 1..n, es[i] = s[k] PROVE FALSE
    OBVIOUS
  <2>1. s[k].status = "completed" /\ s[k].call \in pend
    BY <1>4, <1>9
  <2> QED BY <1>9, <2>1 DEF NotesSound
<1>11. Command!IsInjective(fs)
  <2> SUFFICES ASSUME NEW i \in DOMAIN fs, NEW j \in DOMAIN fs, fs[i] = fs[j] PROVE i = j
    BY DEF Command!IsInjective
  <2>1. CASE i \in 1..m /\ j \in 1..m
    BY <1>7, <1>9, <2>1 DEF NotesSound, Command!IsInjective
  <2>2. ASSUME NEW k \in 1..n, NEW l \in 1..n, i = m + k, j = m + l PROVE i = j
    BY <1>2, <1>7, <2>2
  <2>3. ASSUME NEW k \in 1..n, j = m + k, i \in 1..m PROVE FALSE
    BY <1>7, <1>10, <2>3
  <2>4. ASSUME NEW k \in 1..n, i = m + k, j \in 1..m PROVE FALSE
    BY <1>7, <1>10, <2>4
  <2> QED BY <1>8, <2>1, <2>2, <2>3, <2>4
<1>12. \A i \in DOMAIN fs : fs[i].call \in ask \cup pend
  <2>1. \A i \in 1..m : fs[i].call \in ask
    BY <1>7, <1>9 DEF NotesSound
  <2>2. \A k \in 1..n : fs[m + k].call \in pend
    BY <1>4, <1>7, <1>9
  <2> QED BY <1>8, <2>1, <2>2
<1>13. ASSUME NEW i \in DOMAIN fs
       PROVE  \E l \in DOMAIN fs : fs[l] = [call |-> fs[i].call, status |-> "completed"]
  <2>1. CASE fs[i].call \in pend
    <3>1. \E k \in 1..n : s[k] = [call |-> fs[i].call, status |-> "completed"]
      BY <1>2, <2>1
    <3> QED BY <1>7, <1>9, <3>1
  <2>2. CASE fs[i].call \notin pend
    <3>1. i \in 1..m
      BY <1>4, <1>7, <1>8, <1>9, <2>2
    <3>2. \E l \in DOMAIN es : es[l] = [call |-> es[i].call, status |-> "completed"]
      BY <1>7, <1>9, <2>2, <3>1 DEF NotesSound
    <3> QED BY <1>6, <1>7, <1>9, <3>1, <3>2
  <2> QED BY <2>1, <2>2
<1>14. NotesSound(fs, {}, ask \cup pend)
  BY <1>7, <1>11, <1>12, <1>13 DEF NotesSound
<1> QED BY <1>14 DEF fs

LEMMA CommandWorks ==
    ASSUME CommandSound, Command!Round \/ \E c \in CommandCalls : Command!ToolStarted(c) \/ Command!ToolCompleted(c)
    PROVE  CommandSound'
<1>1. /\ w3 \subseteq CommandCalls /\ w4 \subseteq CommandCalls /\ w5 \in BOOLEAN /\ w2 = "busy"
      /\ NotesSound(w6, w3, w4)
  BY DEF CommandSound, Command!TypeOK, Command!Round, Command!ToolStarted, Command!ToolCompleted
<1>2. CASE Command!Round
  <2>1. /\ w3 = {} /\ w3' \subseteq CommandCalls \ w4
        /\ UNCHANGED <<w1, w2, w4, w5, w6, w7, w8>>
    BY <1>2 DEF Command!Round
  <2>2. NotesSound(w6', w3', w4')
    BY <1>1, <2>1 DEF NotesSound
  <2>3. w3' \subseteq CommandCalls
    BY <2>1
  <2> QED BY <1>1, <2>1, <2>2, <2>3, CommandKeeps
<1>3. ASSUME NEW c \in CommandCalls, Command!ToolStarted(c) PROVE CommandSound'
  <2>1. /\ w2' = w2 /\ c \in w3 /\ c \notin w4 /\ w4' = w4 \cup {c} /\ UNCHANGED <<w1, w3, w5, w7, w8>>
        /\ w6' = Append(w6, [call |-> c, status |-> "started"])
    BY <1>3 DEF Command!ToolStarted, Command!Entry
  <2>2. NotesSound(w6', w3, w4 \cup {c})
    BY <1>1, <2>1, NotesMore
  <2> QED BY <1>1, <2>1, <2>2, CommandKeeps
<1>4. ASSUME NEW c \in CommandCalls, Command!ToolCompleted(c) PROVE CommandSound'
  <2>1. /\ w2' = w2 /\ c \in w3 /\ w3' = w3 \ {c} /\ w4' = w4 \cup {c} /\ UNCHANGED <<w1, w5, w7, w8>>
        /\ w6' = Append(w6, [call |-> c, status |-> "completed"])
    BY <1>4 DEF Command!ToolCompleted, Command!Entry
  <2>2. NotesSound(w6', w3 \ {c}, w4 \cup {c})
    BY <1>1, <2>1, NotesMore
  <2> QED BY <1>1, <2>1, <2>2, CommandKeeps
<1> QED BY <1>2, <1>3, <1>4

LEMMA CommandStops ==
    ASSUME CommandSound, Command!OnFinished \/ Command!OnError \/ Command!OnTimeout
    PROVE  CommandSound'
<1>1. /\ w3 \subseteq CommandCalls /\ w4 \subseteq CommandCalls /\ w2 = "busy"
      /\ NotesSound(w6, w3, w4) /\ w7 = <<>>
  BY DEF CommandSound, Command!TypeOK, Command!OnFinished, Command!OnError, Command!OnTimeout
<1> USE DEF Command!agent
<1>2. CASE Command!OnFinished
  <2> DEFINE r == [success |-> TRUE, code |-> 0, entries |-> w6]
  <2>1. /\ w3 = {} /\ UNCHANGED <<w1, w3, w4, w6>> /\ w5' = FALSE /\ w2' = "over" /\ w8' = 0
        /\ w7' = Append(<<>>, r)
    BY <1>1, <1>2 DEF Command!OnFinished, Command!OutputJson, Command!Over, Command!ExitSuccess
  <2>2. ResultSound(r) /\ r.code = 0
    BY <1>1, <2>1, ResultOfNotes
  <2> HIDE DEF r
  <2>3. DOMAIN w7' = 1..1 /\ Len(w7') = 1 /\ w7'[1] = r
    BY <2>1, FirstResult
  <2>4. \A k \in 1..1 : ResultSound(w7'[k]) /\ w7'[k].code = w8'
    BY <2>1, <2>2, <2>3
  <2>5. w3' \subseteq CommandCalls /\ w4' \subseteq CommandCalls /\ w5' \in BOOLEAN /\ w6' \in Seq(Notes)
    BY <1>1, <2>1 DEF NotesSound
  <2> QED BY <2>1, <2>3, <2>4, <2>5, CommandEnds
<1>3. CASE Command!OnError
  <2> DEFINE r == [success |-> FALSE, code |-> 1, entries |-> w6]
  <2>1. PICK n \in 1..2 : w7' = w7 \o Command!Failed(n)
    BY <1>3 DEF Command!OnError
  <2>2. w3 = {} /\ UNCHANGED <<w1, w3, w4, w6>> /\ w5' = FALSE /\ w2' = "over" /\ w8' = 1
    BY <1>3 DEF Command!OnError, Command!Over, Command!ExitError
  <2>3. ResultSound(r) /\ r.code = 1
    <3>1. FALSE \in BOOLEAN /\ (FALSE <=> 1 = 0)
      OBVIOUS
    <3>2. ResultSound(r)
      BY <1>1, <2>2, <3>1, ResultOfNotes
    <3> QED BY <3>2
  <2>4. Command!Failed(n) = [k \in 1..n |-> r]
    BY DEF Command!Failed, Command!ExitError
  <2> HIDE DEF r
  <2>5. n \in Nat /\ Command!Failed(n) \in Seq({r}) /\ Len(Command!Failed(n)) = n
        /\ DOMAIN Command!Failed(n) = 1..n /\ \A k \in 1..n : Command!Failed(n)[k] = r
    BY <2>4
  <2>6. w7' = Command!Failed(n)
    BY <1>1, <2>1, <2>5, ConcatEmptySeq
  <2>7. \A k \in 1..n : ResultSound(w7'[k]) /\ w7'[k].code = w8'
    BY <2>2, <2>3, <2>5, <2>6
  <2>8. w3' \subseteq CommandCalls /\ w4' \subseteq CommandCalls /\ w5' \in BOOLEAN /\ w6' \in Seq(Notes)
    BY <1>1, <2>2 DEF NotesSound
  <2> QED BY <2>2, <2>5, <2>6, <2>7, <2>8, CommandEnds
<1>4. CASE Command!OnTimeout
  <2> DEFINE r == [success |-> FALSE, code |-> 2, entries |-> w6']
  <2>1. PICK s \in Command!Aborted : w6' = w6 \o s
    BY <1>4 DEF Command!OnTimeout
  <2>2. /\ UNCHANGED <<w1, w4>> /\ w3' = {} /\ w5' = FALSE /\ w2' = "over" /\ w8' = 2
        /\ w7' = Append(<<>>, r)
    BY <1>1, <1>4 DEF Command!OnTimeout, Command!OutputJson, Command!Over, Command!ExitTimeout
  <2>3. NotesSound(w6', {}, w4 \cup w3)
    BY <1>1, <2>1, NotesAborted DEF Command!Aborted
  <2>4. ResultSound(r) /\ r.code = 2
    <3>1. FALSE \in BOOLEAN /\ (FALSE <=> 2 = 0)
      OBVIOUS
    <3>2. ResultSound(r)
      BY <2>3, <3>1, ResultOfNotes
    <3> QED BY <3>2
  <2> HIDE DEF r
  <2>5. DOMAIN w7' = 1..1 /\ Len(w7') = 1 /\ w7'[1] = r
    BY <2>2, FirstResult
  <2>6. \A k \in 1..1 : ResultSound(w7'[k]) /\ w7'[k].code = w8'
    BY <2>2, <2>4, <2>5
  <2>7. w3' \subseteq CommandCalls /\ w4' \subseteq CommandCalls /\ w5' \in BOOLEAN /\ w6' \in Seq(Notes)
    BY <1>1, <2>2, <2>3 DEF NotesSound
  <2> QED BY <2>2, <2>5, <2>6, <2>7, CommandEnds
<1> QED BY <1>2, <1>3, <1>4

LEMMA CommandStep ==
    ASSUME CommandSound, Command!Next PROVE CommandSound'
BY CommandGoes, CommandWorks, CommandStops DEF Command!Next

-----------------------------------------------------------------------------
(* The pieces of an app-server's output that end a line, by their rank.     *)

Below(S, k) == {j \in S : j < k}

LEMMA RankGrows ==
    ASSUME NEW S \in SUBSET Nat, IsFiniteSet(S), NEW k \in S, NEW l \in S, k < l
    PROVE  Cardinality(Below(S, k)) < Cardinality(Below(S, l))
<1> DEFINE a == Below(S, k)  b == Below(S, l)
<1>0. k \in Nat /\ l \in Nat /\ \A j \in S : j \in Nat
  OBVIOUS
<1>1. a \subseteq b /\ k \in b /\ k \notin a
  <2>1. \A j \in a : j \in b
    BY <1>0 DEF Below
  <2>2. k \in b /\ k \notin a
    BY <1>0 DEF Below
  <2> QED BY <2>1, <2>2
<1>2. IsFiniteSet(b)
  BY FS_Subset DEF Below
<1>3. IsFiniteSet(a) /\ Cardinality(a) <= Cardinality(b) /\ Cardinality(a) # Cardinality(b)
  BY <1>1, <1>2, FS_Subset
<1>4. Cardinality(a) \in Nat /\ Cardinality(b) \in Nat
  BY <1>2, <1>3, FS_CardinalityType
<1> QED
  BY <1>3, <1>4

LEMMA RankBound ==
    ASSUME NEW S \in SUBSET Nat, IsFiniteSet(S), NEW k \in S
    PROVE  Cardinality(Below(S, k)) \in 0 .. Cardinality(S) - 1
<1> DEFINE a == Below(S, k)
<1>1. a \subseteq S /\ k \notin a
  BY DEF Below
<1>2. IsFiniteSet(a) /\ Cardinality(a) <= Cardinality(S) /\ Cardinality(a) # Cardinality(S)
  BY <1>1, FS_Subset
<1>3. Cardinality(a) \in Nat /\ Cardinality(S) \in Nat
  BY <1>2, FS_CardinalityType
<1> QED
  BY <1>2, <1>3

LEMMA RankOnce ==
    ASSUME NEW S \in SUBSET Nat, IsFiniteSet(S), NEW k \in S, NEW l \in S,
           Cardinality(Below(S, k)) = Cardinality(Below(S, l))
    PROVE  k = l
<1>1. k < l \/ l < k \/ k = l
  OBVIOUS
<1>2. Cardinality(Below(S, k)) \in Int
  BY RankBound, FS_CardinalityType
<1> QED
  BY <1>1, <1>2, RankGrows

LEMMA ServerCardinality == \A S : Server!Cardinality(S) = Cardinality(S)
BY DEF Server!Cardinality, Cardinality

LEMMA Ranked ==
    ASSUME NEW S \in SUBSET Nat, IsFiniteSet(S), NEW r \in 1 .. Cardinality(S)
    PROVE  Server!Nth(S, r) \in S /\ Cardinality(Below(S, Server!Nth(S, r))) = r - 1
<1> DEFINE n == Cardinality(S)
           f == [k \in S |-> Cardinality(Below(S, k))]
<1>1. n \in Nat
  BY FS_CardinalityType
<1>2. f \in [S -> 0 .. n - 1]
  BY RankBound
<1>3. \A k, l \in S : f[k] = f[l] => k = l
  BY RankOnce
<1>4. IsFiniteSet(0 .. n - 1) /\ Cardinality(0 .. n - 1) = n
  <2> HIDE DEF n
  <2> QED BY <1>1, FS_Interval
<1>5. f \in Injection(S, 0 .. n - 1)
  BY <1>2, <1>3 DEF Injection, IsInjective
<1>6. f \in Surjection(S, 0 .. n - 1)
  BY <1>4, <1>5, FS_Injection
<1>7. \E k \in S : f[k] = r - 1
  <2>1. r - 1 \in 0 .. n - 1
    BY <1>1
  <2>2. \A i \in 0 .. n - 1 : \E k \in S : f[k] = i
    BY <1>6 DEF Surjection
  <2> QED BY <2>1, <2>2
<1>8. \E k \in S : Cardinality({j \in S : j < k}) = r - 1
  BY <1>7 DEF Below
<1>9. \E k \in S : Server!Cardinality({j \in S : j < k}) = r - 1
  BY <1>8, ServerCardinality
<1>10. Server!Nth(S, r) \in S /\ Server!Cardinality({j \in S : j < Server!Nth(S, r)}) = r - 1
  BY <1>9 DEF Server!Nth
<1> QED
  BY <1>10, ServerCardinality DEF Below

Shifted(S, m) == {m + k : k \in S}

LEMMA ShiftedCardinality ==
    ASSUME NEW S \in SUBSET Nat, IsFiniteSet(S), NEW m \in Nat
    PROVE  IsFiniteSet(Shifted(S, m)) /\ Cardinality(Shifted(S, m)) = Cardinality(S)
<1> DEFINE f == [k \in S |-> m + k]
<1>1. f \in [S -> Shifted(S, m)]
  BY DEF Shifted
<1>2. \A k, l \in S : f[k] = f[l] => k = l
  OBVIOUS
<1>3. \A i \in Shifted(S, m) : \E k \in S : f[k] = i
  BY DEF Shifted
<1>4. f \in Bijection(S, Shifted(S, m))
  BY <1>1, <1>2, <1>3 DEF Bijection, Injection, Surjection, IsInjective
<1> QED
  BY <1>4, FS_Bijection DEF ExistsBijection

Lines == [kind : {"response", "error", "other", "junk"}, id : 0 .. MaxStarts]
Pieces == [line : Lines, part : {"whole", "head", "tail"}]

LEMMA CompleteIn ==
    ASSUME NEW b \in Seq(Pieces)
    PROVE  /\ Server!Complete(b) \in SUBSET Nat /\ IsFiniteSet(Server!Complete(b))
           /\ Server!Complete(b) \subseteq 1 .. Len(b) /\ Len(b) \in Nat /\ DOMAIN b = 1 .. Len(b)
           /\ Cardinality(Server!Complete(b)) \in Nat
<1>1. Len(b) \in Nat /\ DOMAIN b = 1 .. Len(b)
  BY LenProperties
<1>2. Server!Complete(b) \subseteq 1 .. Len(b)
  BY <1>1 DEF Server!Complete
<1>3. IsFiniteSet(1 .. Len(b))
  BY <1>1, FS_Interval
<1> QED
  BY <1>1, <1>2, <1>3, FS_Subset, FS_CardinalityType

\* The lines that were taken off a buffer, each by the rank of its last piece.
LEMMA DrainedLines ==
    ASSUME NEW b \in Seq(Pieces)
    PROVE  /\ Server!Drained(b) \in Seq(Lines)
           /\ Len(Server!Drained(b)) = Cardinality(Server!Complete(b))
           /\ \A r \in 1 .. Cardinality(Server!Complete(b)) :
                 Server!Drained(b)[r] = b[Server!Nth(Server!Complete(b), r)].line
<1> DEFINE C == Server!Complete(b)
           n == Cardinality(C)
           d == [r \in 1 .. n |-> b[Server!Nth(C, r)].line]
<1>1. Server!Drained(b) = d
  BY ServerCardinality DEF Server!Drained
<1>2. C \in SUBSET Nat /\ IsFiniteSet(C) /\ C \subseteq DOMAIN b /\ n \in Nat
  BY CompleteIn
<1>3. \A r \in 1 .. n : Server!Nth(C, r) \in C
  BY <1>2, Ranked
<1> HIDE DEF C
<1>4. \A i \in DOMAIN b : b[i] \in Pieces
  OBVIOUS
<1>5. \A r \in 1 .. n : b[Server!Nth(C, r)].line \in Lines
  BY <1>2, <1>3, <1>4 DEF Pieces
<1>6. d \in [1 .. n -> Lines] /\ n \in Nat
  BY <1>2, <1>5
<1> HIDE DEF n
<1>7. d \in Seq(Lines)
  BY <1>6, SeqDef
<1>8. Len(d) = n
  BY <1>6, <1>7, LenProperties
<1> QED BY <1>1, <1>7, <1>8 DEF n, C

\* The pieces that end a line in two buffers one after the other.
LEMMA CompleteJoin ==
    ASSUME NEW b \in Seq(Pieces), NEW c \in Seq(Pieces)
    PROVE  LET A == Server!Complete(b)  B == Server!Complete(c)  S == Server!Complete(b \o c)
               m == Len(b)
           IN  /\ S = A \cup Shifted(B, m) /\ A \cap Shifted(B, m) = {}
               /\ Cardinality(S) = Cardinality(A) + Cardinality(B)
               /\ \A k \in A : Cardinality(Below(S, k)) = Cardinality(Below(A, k))
               /\ \A k \in B : Cardinality(Below(S, m + k)) = Cardinality(A) + Cardinality(Below(B, k))
<1> DEFINE A == Server!Complete(b)
           B == Server!Complete(c)
           S == Server!Complete(b \o c)
           m == Len(b)
<1>1. /\ A \in SUBSET Nat /\ IsFiniteSet(A) /\ A \subseteq 1 .. m /\ m \in Nat /\ DOMAIN b = 1 .. m
      /\ Cardinality(A) \in Nat
  BY CompleteIn
<1>2. /\ B \in SUBSET Nat /\ IsFiniteSet(B) /\ B \subseteq 1 .. Len(c) /\ Len(c) \in Nat
      /\ DOMAIN c = 1 .. Len(c) /\ Cardinality(B) \in Nat
  BY CompleteIn
<1>3. /\ b \o c \in Seq(Pieces) /\ Len(b \o c) = m + Len(c) /\ DOMAIN (b \o c) = 1 .. m + Len(c)
      /\ \A i \in 1 .. m + Len(c) : (b \o c)[i] = IF i <= m THEN b[i] ELSE c[i - m]
  BY ConcatProperties, LenProperties
<1>4. \A i \in 1 .. m : i \in S <=> i \in A
  BY <1>1, <1>2, <1>3 DEF Server!Complete
<1>5. \A k \in 1 .. Len(c) : m + k \in S <=> k \in B
  <2> SUFFICES ASSUME NEW k \in 1 .. Len(c) PROVE m + k \in S <=> k \in B
    OBVIOUS
  <2>1. m + k \in 1 .. m + Len(c) /\ ~(m + k <= m) /\ (m + k) - m = k
    BY <1>1, <1>2
  <2>2. (b \o c)[m + k] = c[k]
    BY <1>3, <2>1
  <2> QED BY <1>2, <1>3, <2>1, <2>2 DEF Server!Complete
<1>6. S \subseteq 1 .. m + Len(c)
  BY <1>3 DEF Server!Complete
<1> HIDE DEF A, B, S, m
<1>7. \A i \in 1 .. m + Len(c) : i \in 1 .. m \/ (i - m \in 1 .. Len(c) /\ i = m + (i - m))
  BY <1>1, <1>2
<1>8. \A k \in B : m + k \in S /\ m + k \in Nat /\ m + k > m /\ k \in Nat
  BY <1>1, <1>2, <1>5
<1>9. \A i \in A : i \in S /\ i \in Nat /\ i <= m
  BY <1>1, <1>4
<1>10. \A i \in S : i \in A \/ \E k \in B : i = m + k
  BY <1>4, <1>5, <1>6, <1>7
<1>11. S = A \cup Shifted(B, m)
  BY <1>8, <1>9, <1>10 DEF Shifted
<1>12. A \cap Shifted(B, m) = {}
  <2>1. \A k \in B : m + k \notin A
    BY <1>1, <1>8, <1>9
  <2> QED BY <2>1 DEF Shifted
<1>13. \A X, Y : IsFiniteSet(X) /\ IsFiniteSet(Y) /\ X \cap Y = {}
                  => Cardinality(X \cup Y) = Cardinality(X) + Cardinality(Y)
  <2> SUFFICES ASSUME NEW X, NEW Y, IsFiniteSet(X), IsFiniteSet(Y), X \cap Y = {}
               PROVE  Cardinality(X \cup Y) = Cardinality(X) + Cardinality(Y)
    OBVIOUS
  <2>1. Cardinality(X) \in Nat /\ Cardinality(Y) \in Nat /\ Cardinality({}) = 0
    BY FS_CardinalityType, FS_EmptySet
  <2>2. Cardinality(X \cup Y) = Cardinality(X) + Cardinality(Y) - Cardinality(X \cap Y)
    BY FS_Union
  <2>3. Cardinality(X \cap Y) = 0
    BY <2>1
  <2> QED BY <2>1, <2>2, <2>3
<1>14. IsFiniteSet(Shifted(B, m)) /\ Cardinality(Shifted(B, m)) = Cardinality(B)
  BY <1>1, <1>2, ShiftedCardinality
<1>15. Cardinality(S) = Cardinality(A) + Cardinality(B)
  BY <1>1, <1>11, <1>12, <1>13, <1>14
<1>16. ASSUME NEW k \in A PROVE Below(S, k) = Below(A, k)
  <2>1. \A i \in Below(S, k) : i \in A
    <3> SUFFICES ASSUME NEW i \in S, i < k PROVE i \in A
      BY DEF Below
    <3>1. ASSUME NEW l \in B, i = m + l PROVE FALSE
      BY <1>1, <1>8, <1>9, <3>1
    <3> QED BY <1>10, <3>1
  <2>2. \A i \in Below(S, k) : i < k
    BY DEF Below
  <2> QED BY <1>9, <2>1, <2>2 DEF Below
<1>17. ASSUME NEW k \in B PROVE Cardinality(Below(S, m + k)) = Cardinality(A) + Cardinality(Below(B, k))
  <2>1. Below(B, k) \in SUBSET Nat /\ IsFiniteSet(Below(B, k)) /\ Below(B, k) \subseteq B
    BY <1>2, FS_Subset DEF Below
  <2>2. /\ IsFiniteSet(Shifted(Below(B, k), m))
        /\ Cardinality(Shifted(Below(B, k), m)) = Cardinality(Below(B, k))
    BY <1>1, <2>1, ShiftedCardinality
  <2>3. A \cap Shifted(Below(B, k), m) = {}
    BY <1>12, <2>1 DEF Shifted
  <2>4. \A i \in A : i < m + k
    BY <1>1, <1>8, <1>9
  <2>5. \A l \in B : m + l < m + k <=> l < k
    BY <1>1, <1>8
  <2>6. Below(S, m + k) = A \cup Shifted(Below(B, k), m)
    <3>1. \A i \in Below(S, m + k) : i \in A \/ \E l \in Below(B, k) : i = m + l
      BY <1>10, <2>5 DEF Below
    <3>2. \A l \in Below(B, k) : m + l \in Below(S, m + k)
      BY <1>8, <2>5 DEF Below
    <3>3. \A i \in A : i \in Below(S, m + k)
      BY <1>9, <2>4 DEF Below
    <3> QED BY <3>1, <3>2, <3>3 DEF Shifted
  <2> QED BY <1>1, <1>13, <2>2, <2>3, <2>6
<1> QED BY <1>11, <1>12, <1>15, <1>16, <1>17 DEF A, B, S, m

\* Lines are taken off two buffers one after the other as off each of them.
LEMMA DrainedJoin ==
    ASSUME NEW b \in Seq(Pieces), NEW c \in Seq(Pieces)
    PROVE  Server!Drained(b \o c) = Server!Drained(b) \o Server!Drained(c)
<1> DEFINE A == Server!Complete(b)
           B == Server!Complete(c)
           S == Server!Complete(b \o c)
           m == Len(b)
           n == Cardinality(A)
           p == Cardinality(B)
<1>1. /\ A \in SUBSET Nat /\ IsFiniteSet(A) /\ A \subseteq 1 .. m /\ m \in Nat /\ n \in Nat
  BY CompleteIn
<1>2. /\ B \in SUBSET Nat /\ IsFiniteSet(B) /\ B \subseteq 1 .. Len(c) /\ Len(c) \in Nat /\ p \in Nat
  BY CompleteIn
<1>3. /\ b \o c \in Seq(Pieces)
      /\ \A i \in 1 .. m + Len(c) : (b \o c)[i] = IF i <= m THEN b[i] ELSE c[i - m]
  BY ConcatProperties
<1>4. S \in SUBSET Nat /\ IsFiniteSet(S)
  BY <1>3, CompleteIn
<1>5. /\ S = A \cup Shifted(B, m) /\ Cardinality(S) = n + p
      /\ \A k \in A : Cardinality(Below(S, k)) = Cardinality(Below(A, k))
      /\ \A k \in B : Cardinality(Below(S, m + k)) = n + Cardinality(Below(B, k))
  BY CompleteJoin
<1> DEFINE f == Server!Drained(b)
           g == Server!Drained(c)
           h == Server!Drained(b \o c)
<1>6. f \in Seq(Lines) /\ Len(f) = n /\ \A r \in 1 .. n : f[r] = b[Server!Nth(A, r)].line
  BY DrainedLines
<1>7. g \in Seq(Lines) /\ Len(g) = p /\ \A r \in 1 .. p : g[r] = c[Server!Nth(B, r)].line
  BY DrainedLines
<1>8. h \in Seq(Lines) /\ Len(h) = n + p /\ \A r \in 1 .. n + p : h[r] = (b \o c)[Server!Nth(S, r)].line
  BY <1>3, <1>5, DrainedLines
<1>r. \A r \in 1 .. n : Server!Nth(A, r) \in A /\ Cardinality(Below(A, Server!Nth(A, r))) = r - 1
  BY <1>1, Ranked
<1>s. \A r \in 1 .. p : Server!Nth(B, r) \in B /\ Cardinality(Below(B, Server!Nth(B, r))) = r - 1
  BY <1>2, Ranked
<1>t. \A r \in 1 .. n + p : Server!Nth(S, r) \in S /\ Cardinality(Below(S, Server!Nth(S, r))) = r - 1
  BY <1>4, <1>5, Ranked
<1>u. \A k, l \in S : Cardinality(Below(S, k)) = Cardinality(Below(S, l)) => k = l
  BY <1>4, RankOnce
<1> HIDE DEF A, B, S, m, n, p, f, g, h
<1>9. ASSUME NEW r \in 1 .. n PROVE h[r] = f[r]
  <2>1. r \in 1 .. n + p
    BY <1>1, <1>2
  <2> DEFINE k == Server!Nth(A, r)
  <2>2. k \in A /\ k \in S /\ Cardinality(Below(S, k)) = r - 1
    BY <1>5, <1>r
  <2>3. Server!Nth(S, r) = k
    BY <1>t, <1>u, <2>1, <2>2
  <2>k. Server!Nth(A, r) = k
    OBVIOUS
  <2> HIDE DEF k
  <2>4. k \in 1 .. m + Len(c) /\ k <= m
    <3>1. k \in 1 .. m
      BY <1>1, <2>2
    <3> QED BY <1>1, <1>2, <3>1
  <2>5. (b \o c)[k] = b[k]
    BY <1>3, <2>4
  <2> QED BY <1>6, <1>8, <2>1, <2>3, <2>5, <2>k
<1>10. ASSUME NEW r \in 1 .. p PROVE h[n + r] = g[r]
  <2>1. n + r \in 1 .. n + p
    BY <1>1, <1>2
  <2> DEFINE k == Server!Nth(B, r)
  <2>2. k \in B /\ m + k \in S /\ Cardinality(Below(S, m + k)) = n + (r - 1)
    BY <1>5, <1>s DEF Shifted
  <2>3. Server!Nth(S, n + r) = m + k
    <3>1. n + (r - 1) = (n + r) - 1
      BY <1>1
    <3> QED BY <1>t, <1>u, <2>1, <2>2, <3>1
  <2>k. Server!Nth(B, r) = k
    OBVIOUS
  <2> HIDE DEF k
  <2>4. m + k \in 1 .. m + Len(c) /\ ~(m + k <= m) /\ (m + k) - m = k
    <3>1. k \in 1 .. Len(c)
      BY <1>2, <2>2
    <3> QED BY <1>1, <1>2, <3>1
  <2>5. (b \o c)[m + k] = c[k]
    BY <1>3, <2>4
  <2> QED BY <1>7, <1>8, <2>1, <2>3, <2>5, <2>k
<1>11. /\ f \o g \in Seq(Lines) /\ Len(f \o g) = n + p
       /\ \A i \in 1 .. n + p : (f \o g)[i] = IF i <= n THEN f[i] ELSE g[i - n]
  BY <1>6, <1>7, ConcatProperties
<1>12. ASSUME NEW i \in 1 .. n + p PROVE h[i] = (f \o g)[i]
  <2>1. CASE i <= n
    <3>1. i \in 1 .. n
      BY <1>1, <2>1
    <3> QED BY <1>9, <1>11, <2>1, <3>1
  <2>2. CASE ~(i <= n)
    <3>1. i - n \in 1 .. p /\ n + (i - n) = i
      BY <1>1, <1>2, <2>2
    <3>2. h[n + (i - n)] = g[i - n]
      BY <1>10, <3>1
    <3> QED BY <1>11, <2>2, <3>1, <3>2
  <2> QED BY <2>1, <2>2
<1>13. h \in [1 .. n + p -> Lines] /\ f \o g \in [1 .. n + p -> Lines]
  BY <1>8, <1>11, LenProperties
<1>14. h = f \o g
  BY <1>8, <1>11, <1>12, SeqEqual
<1> QED BY <1>14 DEF f, g, h

\* Buffers of no piece and of one.
LEMMA DrainedNone ==
    ASSUME NEW b \in Seq(Pieces), Server!Complete(b) = {} PROVE Server!Drained(b) = <<>>
<1>1. Server!Drained(b) \in Seq(Lines) /\ Len(Server!Drained(b)) = 0
  BY DrainedLines, FS_EmptySet
<1> QED BY <1>1

LEMMA DrainedOne ==
    ASSUME NEW p \in Pieces
    PROVE  /\ <<p>> \in Seq(Pieces) /\ Len(<<p>>) = 1 /\ <<p>>[1] = p
           /\ p.part = "head" => Server!Drained(<<p>>) = <<>>
           /\ p.part # "head" => Server!Drained(<<p>>) = <<p.line>>
<1> DEFINE b == <<p>>
<1>1. b \in Seq(Pieces) /\ Len(b) = 1 /\ DOMAIN b = 1 .. 1 /\ b[1] = p
  OBVIOUS
<1> HIDE DEF b
<1>2. p.part = "head" => Server!Complete(b) = {}
  BY <1>1 DEF Server!Complete
<1>3. p.part = "head" => Server!Drained(b) = <<>>
  BY <1>1, <1>2, DrainedNone
<1>4. ASSUME p.part # "head" PROVE Server!Drained(b) = <<p.line>>
  <2>1. Server!Complete(b) = {1}
    BY <1>1, <1>4 DEF Server!Complete
  <2>2. Cardinality({1}) = 1 /\ IsFiniteSet({1}) /\ {1} \in SUBSET Nat
    BY FS_Singleton
  <2>3. Server!Nth({1}, 1) = 1
    BY <2>2, Ranked
  <2>4. /\ Server!Drained(b) \in Seq(Lines) /\ Len(Server!Drained(b)) = 1
        /\ Server!Drained(b)[1] = p.line
    <3>1. \A r \in 1 .. 1 : Server!Drained(b)[r] = b[Server!Nth({1}, r)].line
      BY <1>1, <2>1, <2>2, DrainedLines
    <3>2. 1 \in 1 .. 1
      OBVIOUS
    <3> QED BY <1>1, <2>1, <2>2, <2>3, <3>1, <3>2, DrainedLines
  <2>5. p.line \in Lines
    BY DEF Pieces
  <2>6. <<p.line>> \in Seq(Lines) /\ Len(<<p.line>>) = 1 /\ <<p.line>>[1] = p.line
    BY <2>5
  <2> QED BY <2>4, <2>6, SeqEqual
<1> QED BY <1>1, <1>3, <1>4 DEF b

\* The lines of a buffer, and the one of the head that ends it.
Partial(b) == IF Server!Cut(b) THEN <<b[Len(b)].line>> ELSE <<>>
Whole(b) == Server!Drained(b) \o Partial(b)

LEMMA LastPiece ==
    ASSUME NEW b \in Seq(Pieces), b # <<>>
    PROVE  Len(b) \in 1 .. Len(b) /\ b[Len(b)] \in Pieces /\ b[Len(b)].line \in Lines
<1>1. Len(b) \in Nat /\ Len(b) # 0 /\ \A i \in 1 .. Len(b) : b[i] \in Pieces
  OBVIOUS
<1>2. Len(b) \in 1 .. Len(b)
  BY <1>1
<1> QED BY <1>1, <1>2 DEF Pieces

LEMMA WholeType ==
    ASSUME NEW b \in Seq(Pieces)
    PROVE  /\ Partial(b) \in Seq(Lines) /\ Whole(b) \in Seq(Lines)
           /\ Len(Partial(b)) = IF Server!Cut(b) THEN 1 ELSE 0
           /\ Len(Whole(b)) = Cardinality(Server!Complete(b)) + Len(Partial(b))
<1>1. Partial(b) \in Seq(Lines) /\ Len(Partial(b)) = IF Server!Cut(b) THEN 1 ELSE 0
  BY LastPiece DEF Partial, Server!Cut
<1>2. Server!Drained(b) \in Seq(Lines) /\ Len(Server!Drained(b)) = Cardinality(Server!Complete(b))
  BY DrainedLines
<1> QED BY <1>1, <1>2, ConcatProperties DEF Whole

LEMMA BegunJoin ==
    ASSUME NEW b \in Seq(Pieces), NEW c \in Seq(Pieces), c # <<>>
    PROVE  Partial(b \o c) = Partial(c)
<1>1. /\ Len(b) \in Nat /\ Len(c) \in Nat /\ Len(c) # 0 /\ b \o c \in Seq(Pieces)
      /\ Len(b \o c) = Len(b) + Len(c)
      /\ \A i \in 1 .. Len(b) + Len(c) : (b \o c)[i] = IF i <= Len(b) THEN b[i] ELSE c[i - Len(b)]
  BY ConcatProperties
<1>2. /\ Len(b) + Len(c) \in 1 .. Len(b) + Len(c) /\ ~(Len(b) + Len(c) <= Len(b))
      /\ (Len(b) + Len(c)) - Len(b) = Len(c)
  BY <1>1
<1>3. (b \o c)[Len(b \o c)] = c[Len(c)]
  BY <1>1, <1>2
<1>4. b \o c # <<>>
  <2>1. Len(b \o c) # 0
    BY <1>1
  <2> QED BY <2>1
<1> QED BY <1>3, <1>4 DEF Partial, Server!Cut

LEMMA RestOfBuffer ==
    ASSUME NEW b \in Seq(Pieces)
    PROVE  /\ Server!Rest(b) \in Seq(Pieces) /\ Server!Complete(Server!Rest(b)) = {}
           /\ Server!Drained(Server!Rest(b)) = <<>> /\ Partial(Server!Rest(b)) = Partial(b)
           /\ Len(Server!Rest(b)) = Len(Partial(b))
<1>1. CASE Server!Cut(b)
  <2> DEFINE p == b[Len(b)]
  <2>1. p \in Pieces /\ p.part = "head" /\ Server!Rest(b) = <<p>> /\ Partial(b) = <<p.line>>
    BY <1>1, LastPiece DEF Server!Cut, Server!Rest, Partial
  <2> HIDE DEF p
  <2>2. <<p>> \in Seq(Pieces) /\ Len(<<p>>) = 1 /\ DOMAIN <<p>> = 1 .. 1 /\ <<p>>[1] = p /\ <<p>> # <<>>
    BY <2>1
  <2>3. Server!Complete(<<p>>) = {}
    BY <2>1, <2>2 DEF Server!Complete
  <2>4. Partial(<<p>>) = <<p.line>>
    BY <2>1, <2>2 DEF Partial, Server!Cut
  <2> QED BY <2>1, <2>2, <2>3, <2>4, DrainedNone
<1>2. CASE ~Server!Cut(b)
  <2>1. Server!Rest(b) = <<>> /\ Partial(b) = <<>>
    BY <1>2 DEF Server!Rest, Partial
  <2>2. <<>> \in Seq(Pieces) /\ DOMAIN <<>> = {} /\ Len(<<>>) = 0
    OBVIOUS
  <2>3. Server!Complete(<<>>) = {}
    BY <2>2 DEF Server!Complete
  <2>4. Partial(<<>>) = <<>>
    BY DEF Partial, Server!Cut
  <2> QED BY <2>1, <2>2, <2>3, <2>4, DrainedNone
<1> QED BY <1>1, <1>2

LEMMA JoinAssociates ==
    ASSUME NEW a \in Seq(Lines), NEW b \in Seq(Lines), NEW c \in Seq(Lines)
    PROVE  (a \o b) \o c = a \o (b \o c)
BY ConcatAssociative

\* Taking the lines off the front of the output leaves those of the rest.
LEMMA WholeRest ==
    ASSUME NEW b \in Seq(Pieces), NEW c \in Seq(Pieces)
    PROVE  /\ Server!Rest(b) \o c \in Seq(Pieces) /\ b \o c \in Seq(Pieces)
           /\ Whole(b \o c) = Server!Drained(b) \o Whole(Server!Rest(b) \o c)
<1> DEFINE r == Server!Rest(b)
<1>1. r \in Seq(Pieces) /\ Server!Drained(r) = <<>> /\ Partial(r) = Partial(b)
  BY RestOfBuffer
<1> HIDE DEF r
<1>2. r \o c \in Seq(Pieces) /\ b \o c \in Seq(Pieces)
  BY <1>1, ConcatProperties
<1>3. /\ Server!Drained(b) \in Seq(Lines) /\ Server!Drained(c) \in Seq(Lines)
      /\ Partial(b) \in Seq(Lines) /\ Partial(c) \in Seq(Lines)
  BY DrainedLines, WholeType
<1>4. CASE c = <<>>
  <2>1. r \o c = r /\ b \o c = b
    BY <1>1, <1>4, ConcatEmptySeq
  <2>2. Whole(r) = Partial(b)
    BY <1>1, <1>3, ConcatEmptySeq DEF Whole
  <2> QED BY <1>2, <2>1, <2>2 DEF Whole, r
<1>5. CASE c # <<>>
  <2>1. Partial(b \o c) = Partial(c) /\ Partial(r \o c) = Partial(c)
    BY <1>1, <1>5, BegunJoin
  <2>2. Server!Drained(r \o c) = Server!Drained(c)
    <3>1. Server!Drained(r \o c) = Server!Drained(r) \o Server!Drained(c)
      BY <1>1, DrainedJoin
    <3> QED BY <1>1, <1>3, <3>1, ConcatEmptySeq
  <2>3. Whole(r \o c) = Server!Drained(c) \o Partial(c)
    BY <2>1, <2>2 DEF Whole
  <2>4. Whole(b \o c) = (Server!Drained(b) \o Server!Drained(c)) \o Partial(c)
    BY <2>1, DrainedJoin DEF Whole
  <2>5. Whole(b \o c) = Server!Drained(b) \o Whole(r \o c)
    <3> DEFINE u == Server!Drained(b)
               v == Server!Drained(c)
               w == Partial(c)
    <3>1. u \in Seq(Lines) /\ v \in Seq(Lines) /\ w \in Seq(Lines)
      BY <1>3
    <3> HIDE DEF u, v, w
    <3>2. (u \o v) \o w = u \o (v \o w)
      BY <3>1, JoinAssociates
    <3> QED BY <2>3, <2>4, <3>2 DEF u, v, w
  <2> QED BY <1>2, <2>5 DEF r
<1> QED BY <1>4, <1>5

\* A line more, whole or begun, and the end of one that was begun.
LEMMA WholeMore ==
    ASSUME NEW b \in Seq(Pieces), NEW p \in Pieces
    PROVE  /\ Append(b, p) \in Seq(Pieces)
           /\ ~Server!Cut(b) => Whole(Append(b, p)) = Append(Whole(b), p.line)
           /\ Server!Cut(b) /\ p.part = "tail" /\ p.line = b[Len(b)].line
                 => Whole(Append(b, p)) = Whole(b)
<1> DEFINE q == <<p>>
<1>1. q \in Seq(Pieces) /\ q # <<>> /\ Append(b, p) = b \o q /\ Append(b, p) \in Seq(Pieces)
  BY AppendIsConcat
<1>2. /\ Server!Drained(q) = IF p.part = "head" THEN <<>> ELSE <<p.line>>
      /\ Partial(q) = IF p.part = "head" THEN <<p.line>> ELSE <<>>
  <2>1. Len(q) = 1 /\ q[1] = p
    OBVIOUS
  <2>2. Partial(q) = IF p.part = "head" THEN <<p.line>> ELSE <<>>
    BY <1>1, <2>1 DEF Partial, Server!Cut
  <2> QED BY <2>2, DrainedOne
<1> HIDE DEF q
<1>3. Partial(Append(b, p)) = Partial(q) /\ Server!Drained(Append(b, p)) = Server!Drained(b) \o Server!Drained(q)
  BY <1>1, BegunJoin, DrainedJoin
<1>4. Server!Drained(b) \in Seq(Lines) /\ p.line \in Lines
  BY DrainedLines DEF Pieces
<1> DEFINE l == <<p.line>>
           d == Server!Drained(b)
<1>5. l \in Seq(Lines) /\ <<>> \in Seq(Lines) /\ d \in Seq(Lines)
  BY <1>4
<1>6. Append(d, p.line) = d \o l
  BY <1>4, AppendIsConcat
<1> HIDE DEF l, d
<1>7. (d \o <<>>) \o l = d \o l /\ (d \o l) \o <<>> = d \o l /\ d \o <<>> = d
  <2>1. d \o l \in Seq(Lines)
    BY <1>5, ConcatProperties
  <2> QED BY <1>5, <2>1, ConcatEmptySeq
<1>8. Whole(Append(b, p)) = d \o l
  <2>1. CASE p.part = "head"
    BY <1>2, <1>3, <1>7, <2>1 DEF Whole, d, l
  <2>2. CASE p.part # "head"
    BY <1>2, <1>3, <1>7, <2>2 DEF Whole, d, l
  <2> QED BY <2>1, <2>2
<1>9. ~Server!Cut(b) => Whole(b) = d
  BY <1>7 DEF Whole, Partial, d
<1>10. Server!Cut(b) /\ p.line = b[Len(b)].line => Whole(b) = d \o l
  BY DEF Whole, Partial, d, l
<1> QED BY <1>1, <1>6, <1>8, <1>9, <1>10

-----------------------------------------------------------------------------
(* The client of an app-server: what was handled, what is in the buffer and  *)
(* what was not read is what the server wrote; a success has its answer.    *)

Probes == [loop : {"idle", "waiting", "left", "printed"}, id : 0 .. 1, success : BOOLEAN,
           reason : {"none", "timeout", "transport", "refused"}]

Answered(i, hs) == \E k \in DOMAIN hs : hs[k] = [kind |-> "response", id |-> i]

ProbeSound(p, hs) ==
    /\ p \in Probes
    /\ p.success => Answered(p.id, hs)
    /\ p.loop \in {"left", "printed"} => p.success \/ p.reason # "none"

ServerSound ==
    /\ w1 \in {"off", "running"} /\ w2 \in 0 .. MaxStarts
    /\ w3 \in Seq(Lines) /\ w4 \in Seq(Pieces) /\ w5 \in Seq(Pieces) /\ w6 \in Seq(Lines)
    /\ w7 \in 1 .. 2 /\ w8 \in BOOLEAN
    /\ ProbeSound(w9, w6)
    /\ w8 => w1 = "running" /\ Answered(w9.id, w6)
    /\ Server!Complete(w5) = {}
    /\ w1 = "running" => w6 \o Whole(w5 \o w4) = w3
    /\ w1 = "off" => \E rest \in Seq(Lines) : w6 \o rest = w3

LEMMA Prefix ==
    ASSUME NEW hs \in Seq(Lines), NEW rest \in Seq(Lines)
    PROVE  /\ Len(hs) <= Len(hs \o rest) /\ hs = SubSeq(hs \o rest, 1, Len(hs))
           /\ Len(hs \o rest) = Len(hs) + Len(rest) /\ Len(hs) \in Nat
<1> DEFINE n == Len(hs)
           q == hs \o rest
<1>1. /\ n \in Nat /\ Len(rest) \in Nat /\ q \in Seq(Lines) /\ Len(q) = n + Len(rest)
      /\ \A i \in 1 .. n + Len(rest) : q[i] = IF i <= n THEN hs[i] ELSE rest[i - n]
  BY ConcatProperties, LenProperties
<1> HIDE DEF n, q
<1>2. n <= Len(q) /\ n \in 0 .. Len(q) /\ 1 \in 1 .. Len(q) + 1 /\ (n - 1) + 1 = n
  BY <1>1
<1>3. \A i \in 1 .. n : i \in 1 .. n + Len(rest) /\ q[i] = hs[i]
  BY <1>1
<1>4. \A i \in 1 .. n : q[i] \in Lines
  BY <1>3 DEF n
<1>5. SubSeq(q, 1, n) \in Seq(Lines) /\ Len(SubSeq(q, 1, n)) = n /\ \A i \in 1 .. n : SubSeq(q, 1, n)[i] = q[i]
  BY <1>1, <1>2, <1>4
<1>6. hs = SubSeq(q, 1, n)
  BY <1>3, <1>5, SeqEqual DEF n
<1> QED BY <1>1, <1>2, <1>6 DEF n, q

LEMMA ServerTrue ==
    ServerSound => Server!TypeOK /\ Server!LinesInOrder /\ Server!HandshakeTrue
<1> SUFFICES ASSUME ServerSound PROVE Server!TypeOK /\ Server!LinesInOrder /\ Server!HandshakeTrue
  OBVIOUS
<1>1. w9 \in Probes /\ w3 \in Seq(Lines) /\ w6 \in Seq(Lines) /\ w4 \in Seq(Pieces) /\ w5 \in Seq(Pieces)
  BY DEF ServerSound, ProbeSound
<1>2. Lines = Server!Lines /\ Pieces = [line : Server!Lines, part : Server!Parts]
  BY DEF Lines, Pieces, Server!Lines, Server!Kinds, Server!Parts
<1>3. Server!TypeOK
  <2>1. /\ w9.loop \in {"idle", "waiting", "left", "printed"} /\ w9.id \in 0 .. 1
        /\ w9.success \in BOOLEAN /\ w9.reason \in {"none", "timeout", "transport", "refused"}
    BY <1>1 DEF Probes
  <2>2. w1 \in {"off", "running"} /\ w2 \in 0 .. MaxStarts /\ w7 \in 1 .. 2 /\ w8 \in BOOLEAN
    BY DEF ServerSound
  <2>3. w3 \in Seq(Server!Lines) /\ w6 \in Seq(Server!Lines)
    BY <1>1, <1>2
  <2>4. /\ w4 \in Seq([line : Server!Lines, part : Server!Parts])
        /\ w5 \in Seq([line : Server!Lines, part : Server!Parts])
    BY <1>1, <1>2
  <2> QED BY <2>1, <2>2, <2>3, <2>4 DEF Server!TypeOK
<1>4. Server!LinesInOrder
  <2> DEFINE all == w5 \o w4
  <2>1. all \in Seq(Pieces) /\ Whole(all) \in Seq(Lines)
    BY <1>1, ConcatProperties, WholeType
  <2>2. \E rest \in Seq(Lines) : w6 \o rest = w3
    BY <2>1 DEF ServerSound
  <2>3. Len(w6) <= Len(w3) /\ w6 = SubSeq(w3, 1, Len(w6))
    BY <1>1, <2>2, Prefix
  <2>4. ASSUME w1 = "running"
        PROVE  Len(w6) + Server!Cardinality(Server!Complete(w4)) + Len(Server!Rest(all)) = Len(w3)
    <3>1. w6 \o Whole(all) = w3
      BY <2>4 DEF ServerSound
    <3>2. Len(w3) = Len(w6) + Len(Whole(all)) /\ Len(w6) \in Nat
      BY <1>1, <2>1, <3>1, Prefix
    <3>3. /\ Len(Whole(all)) = Cardinality(Server!Complete(all)) + Len(Partial(all))
          /\ Len(Partial(all)) \in Nat
      <4>1. Partial(all) \in Seq(Lines)
        BY <2>1, WholeType
      <4>2. Len(Whole(all)) = Cardinality(Server!Complete(all)) + Len(Partial(all))
        BY <2>1, WholeType
      <4> QED BY <4>1, <4>2, LenProperties
    <3>4. Len(Server!Rest(all)) = Len(Partial(all))
      BY <2>1, RestOfBuffer
    <3>5. Cardinality(Server!Complete(all)) = Cardinality(Server!Complete(w4))
      <4>1. Cardinality(Server!Complete(w5)) = 0
        BY FS_EmptySet DEF ServerSound
      <4>2. Cardinality(Server!Complete(w4)) \in Nat
        BY <1>1, CompleteIn
      <4>3. Cardinality(Server!Complete(all)) = Cardinality(Server!Complete(w5)) + Cardinality(Server!Complete(w4))
        BY <1>1, CompleteJoin
      <4> QED BY <4>1, <4>2, <4>3
    <3>6. Server!Cardinality(Server!Complete(w4)) = Cardinality(Server!Complete(w4))
      BY ServerCardinality
    <3>7. Cardinality(Server!Complete(w4)) \in Nat
      BY <1>1, CompleteIn
    <3> QED BY <3>2, <3>3, <3>4, <3>5, <3>6, <3>7
  <2> QED BY <2>3, <2>4 DEF Server!LinesInOrder, ServerSound
<1>5. Server!HandshakeTrue
  BY DEF ServerSound, ProbeSound, Answered, Server!HandshakeTrue
<1> QED BY <1>3, <1>4, <1>5

LEMMA AnsweredMore ==
    ASSUME NEW i, NEW hs \in Seq(Lines), NEW ls \in Seq(Lines), Answered(i, hs) \/ Answered(i, ls)
    PROVE  Answered(i, hs \o ls)
<1> DEFINE n == Len(hs)
           q == hs \o ls
<1>1. /\ n \in Nat /\ Len(ls) \in Nat /\ DOMAIN hs = 1 .. n /\ DOMAIN ls = 1 .. Len(ls)
      /\ q \in Seq(Lines) /\ DOMAIN q = 1 .. n + Len(ls)
      /\ \A k \in 1 .. n + Len(ls) : q[k] = IF k <= n THEN hs[k] ELSE ls[k - n]
  BY ConcatProperties, LenProperties
<1> HIDE DEF n, q
<1>2. \A k \in DOMAIN hs : k \in DOMAIN q /\ q[k] = hs[k]
  BY <1>1
<1>3. \A k \in DOMAIN ls : n + k \in DOMAIN q /\ q[n + k] = ls[k]
  <2> SUFFICES ASSUME NEW k \in 1 .. Len(ls) PROVE n + k \in DOMAIN q /\ q[n + k] = ls[k]
    BY <1>1
  <2>1. n + k \in 1 .. n + Len(ls) /\ ~(n + k <= n) /\ (n + k) - n = k
    BY <1>1
  <2> QED BY <1>1, <2>1
<1> QED BY <1>2, <1>3 DEF Answered, q

\* What the lines of one read do to the probe.
LEMMA ToldSound ==
    ASSUME NEW p, NEW hs \in Seq(Lines), NEW ls \in Seq(Lines), ProbeSound(p, hs)
    PROVE  /\ ProbeSound(Server!Told(p, ls), hs \o ls) /\ Server!Told(p, ls).id = p.id
           /\ Server!Confirms(p, ls) => Answered(p.id, hs \o ls)
<1> DEFINE yes == Server!Heard(p, ls, "response")
           no == Server!Heard(p, ls, "error")
           q == IF \E k \in DOMAIN ls : ls[k].kind = "junk" THEN Server!TransportError(p) ELSE p
           t == Server!Told(p, ls)
<1>1. p \in Probes
  BY DEF ProbeSound
<1>2. /\ q \in Probes /\ q.id = p.id /\ q.success = p.success
      /\ q.loop \in {"left", "printed"} => q.success \/ q.reason # "none"
  BY <1>1 DEF ProbeSound, Probes, Server!TransportError, Server!Left
<1>3. yes \in BOOLEAN /\ no \in BOOLEAN
  BY DEF Server!Heard
<1>4. yes => Answered(p.id, ls)
  <2> SUFFICES ASSUME NEW k \in DOMAIN ls, ls[k].kind = "response", ls[k].id = p.id
               PROVE  Answered(p.id, ls)
    BY DEF Server!Heard, Server!Mine
  <2>1. ls[k] \in Lines
    OBVIOUS
  <2>2. ls[k] = [kind |-> "response", id |-> p.id]
    BY <2>1 DEF Lines
  <2> QED BY <2>2 DEF Answered
<1>5. t = IF yes \/ no
          THEN Server!Left([q EXCEPT !.success = @ \/ yes, !.reason = IF no THEN "refused" ELSE @])
          ELSE q
  BY DEF Server!Told
<1> HIDE DEF yes, no, q, t
<1>6. /\ t \in Probes /\ t.id = p.id /\ t.success = (p.success \/ yes)
      /\ t.loop \in {"left", "printed"} => t.success \/ t.reason # "none"
  <2>1. CASE yes \/ no
    <3> DEFINE r == [q EXCEPT !.success = @ \/ yes, !.reason = IF no THEN "refused" ELSE @]
    <3>1. /\ r \in Probes /\ r.id = p.id /\ r.success = (p.success \/ yes)
          /\ r.success \/ r.reason # "none"
      BY <1>2, <1>3, <2>1 DEF Probes
    <3>2. t = Server!Left(r)
      BY <1>5, <2>1
    <3> HIDE DEF r
    <3> QED BY <3>1, <3>2 DEF Server!Left, Probes
  <2>2. CASE ~(yes \/ no)
    BY <1>1, <1>2, <1>5, <2>2 DEF Probes
  <2> QED BY <2>1, <2>2
<1>7. t.success => Answered(p.id, hs \o ls)
  BY <1>4, <1>6, AnsweredMore DEF ProbeSound
<1>8. ProbeSound(t, hs \o ls)
  BY <1>6, <1>7 DEF ProbeSound
<1> QED BY <1>6, <1>7, <1>8 DEF t, Server!Confirms

LEMMA ServerInit == Server!Init => ServerSound
<1> SUFFICES ASSUME Server!Init PROVE ServerSound
  OBVIOUS
<1>1. /\ w1 = "off" /\ w2 = 0 /\ w3 = <<>> /\ w4 = <<>> /\ w5 = <<>> /\ w6 = <<>> /\ w7 = 1 /\ w8 = FALSE
      /\ w9 = [loop |-> "idle", id |-> 0, success |-> FALSE, reason |-> "none"]
  BY DEF Server!Init, Server!NoProbe, Server!NoId
<1>2. ProbeSound(w9, w6)
  BY <1>1 DEF ProbeSound, Probes
<1>3. <<>> \in Seq(Lines) /\ <<>> \in Seq(Pieces) /\ <<>> \o <<>> = <<>> /\ DOMAIN <<>> = {}
  OBVIOUS
<1>4. Server!Complete(w5) = {}
  BY <1>1, <1>3 DEF Server!Complete
<1>5. w2 \in 0 .. MaxStarts
  BY <1>1, FrontsAssumption
<1>6. \E rest \in Seq(Lines) : w6 \o rest = w3
  BY <1>1, <1>3
<1>7. w3 \in Seq(Lines) /\ w4 \in Seq(Pieces) /\ w5 \in Seq(Pieces) /\ w6 \in Seq(Lines)
  BY <1>1, <1>3
<1>8. w1 \in {"off", "running"} /\ w1 # "running" /\ w7 \in 1 .. 2 /\ w8 \in BOOLEAN /\ ~w8
  <2>1. w1 \in {"off", "running"} /\ w1 # "running"
    BY <1>1
  <2>2. w7 \in 1 .. 2
    BY <1>1
  <2>3. w8 \in BOOLEAN /\ ~w8
    BY <1>1, Zenon
  <2> QED BY <2>1, <2>2, <2>3
<1> QED BY <1>2, <1>4, <1>5, <1>6, <1>7, <1>8 DEF ServerSound

\* Nothing was written and nothing was read.
LEMMA WholeNone ==
    /\ <<>> \in Seq(Lines) /\ <<>> \in Seq(Pieces) /\ Server!Complete(<<>>) = {}
    /\ Whole(<<>> \o <<>>) = <<>> /\ <<>> \o Whole(<<>> \o <<>>) = <<>>
<1>1. /\ <<>> \in Seq(Lines) /\ <<>> \in Seq(Pieces) /\ <<>> \o <<>> = <<>> /\ DOMAIN <<>> = {}
  OBVIOUS
<1>2. Server!Complete(<<>>) = {}
  BY <1>1 DEF Server!Complete
<1>3. Server!Drained(<<>>) = <<>>
  BY <1>1, <1>2, DrainedNone
<1>4. Partial(<<>>) = <<>>
  BY DEF Partial, Server!Cut
<1>5. Whole(<<>>) = <<>>
  BY <1>1, <1>3, <1>4 DEF Whole
<1> QED BY <1>1, <1>2, <1>5

LEMMA ServerStarts == ASSUME ServerSound, Server!Start PROVE ServerSound'
<1>1. /\ w5' = <<>> /\ w4' = <<>> /\ w6' = <<>> /\ w3' = <<>> /\ w8' = FALSE /\ w2' = w2 + 1 /\ w2 < MaxStarts
  BY DEF Server!Start
<1>2. w2' \in 0 .. MaxStarts
  BY <1>1, FrontsAssumption DEF ServerSound
<1>3. /\ w3' \in Seq(Lines) /\ w4' \in Seq(Pieces) /\ w5' \in Seq(Pieces) /\ w6' \in Seq(Lines)
      /\ Server!Complete(w5') = {} /\ w6' \o Whole(w5' \o w4') = w3'
  BY <1>1, WholeNone
<1>4. \E rest \in Seq(Lines) : w6' \o rest = w3'
  <2>1. Whole(w5' \o w4') \in Seq(Lines)
    BY <1>1, WholeNone
  <2> QED BY <1>3, <2>1
<1> DEFINE p == [Server!NoProbe EXCEPT !.loop = "waiting"]
<1>5. p = [loop |-> "waiting", id |-> 0, success |-> FALSE, reason |-> "none"]
  <2>1. Server!NoProbe = [loop |-> "idle", id |-> 0, success |-> FALSE, reason |-> "none"]
    BY DEF Server!NoProbe, Server!NoId
  <2> DEFINE q == [loop |-> "idle", id |-> 0, success |-> FALSE, reason |-> "none"]
  <2>2. p = [q EXCEPT !.loop = "waiting"]
    BY <2>1
  <2>3. q \in Probes /\ q.id = 0 /\ q.success = FALSE /\ q.reason = "none"
    BY DEF Probes
  <2> HIDE DEF p, q
  <2>4. p \in Probes /\ p.loop = "waiting" /\ p.id = 0 /\ p.success = FALSE /\ p.reason = "none"
    BY <2>2, <2>3 DEF Probes
  <2> QED BY <2>4 DEF Probes
<1>6. /\ w1' \in {"off", "running"} /\ w7' \in 1 .. 2
      /\ w9' \in {[p EXCEPT !.id = 1], Server!TransportError(Server!TransportError(p))}
  BY DEF Server!Start
<1> HIDE DEF p
<1>7. Server!TransportError(Server!TransportError(p))
         = [loop |-> "left", id |-> 0, success |-> FALSE, reason |-> "transport"]
  <2>1. Server!TransportError(p) = [loop |-> "left", id |-> 0, success |-> FALSE, reason |-> "transport"]
    BY <1>5 DEF Server!TransportError, Server!Left
  <2> QED BY <2>1 DEF Server!TransportError, Server!Left
<1>8. ProbeSound(w9', w6')
  <2>1. CASE w9' = [loop |-> "waiting", id |-> 1, success |-> FALSE, reason |-> "none"]
    BY <2>1 DEF ProbeSound, Probes
  <2>2. CASE w9' = [loop |-> "left", id |-> 0, success |-> FALSE, reason |-> "transport"]
    BY <2>2 DEF ProbeSound, Probes
  <2> QED BY <1>5, <1>6, <1>7, <2>1, <2>2
<1>9. ProbeSound(w9, w6)'
  BY <1>8 DEF ProbeSound, Answered
<1>10. /\ (Server!Complete(w5) = {})' /\ (w6 \o Whole(w5 \o w4) = w3)'
  BY <1>3 DEF Server!Complete, Whole, Partial, Server!Drained, Server!Cut, Server!Nth
<1> QED BY <1>1, <1>2, <1>3, <1>4, <1>6, <1>9, <1>10 DEF ServerSound

LEMMA PiecesAssociate ==
    ASSUME NEW a \in Seq(Pieces), NEW b \in Seq(Pieces), NEW c \in Seq(Pieces)
    PROVE  (a \o b) \o c = a \o (b \o c)
BY ConcatAssociative

\* The first pieces of a queue and the rest.
LEMMA SplitQueue ==
    ASSUME NEW s \in Seq(Pieces), NEW n \in 1 .. Len(s)
    PROVE  /\ SubSeq(s, 1, n) \in Seq(Pieces) /\ SubSeq(s, n + 1, Len(s)) \in Seq(Pieces)
           /\ SubSeq(s, 1, n) \o SubSeq(s, n + 1, Len(s)) = s
<1> DEFINE l == Len(s)
           front == SubSeq(s, 1, n)
           back == SubSeq(s, n + 1, l)
<1>1. l \in Nat /\ DOMAIN s = 1 .. l /\ n \in 1 .. l /\ \A i \in 1 .. l : s[i] \in Pieces
  BY LenProperties
<1> HIDE DEF l
<1>2. front \in Seq(Pieces) /\ Len(front) = n /\ \A i \in 1 .. n : front[i] = s[i]
  <2>1. \A i \in 1 .. n : s[i] \in Pieces
    BY <1>1
  <2>2. n \in Int /\ 1 \in Int /\ 1 <= n /\ n - 1 + 1 = n /\ \A i \in 1 .. n : 1 + i - 1 = i
    BY <1>1
  <2>3. /\ front \in Seq(Pieces) /\ Len(front) = IF 1 <= n THEN n - 1 + 1 ELSE 0
        /\ \A i \in 1 .. n - 1 + 1 : front[i] = s[1 + i - 1]
    BY <2>1, <2>2, SubSeqProperties
  <2> QED BY <2>2, <2>3
<1>3. back \in Seq(Pieces) /\ Len(back) = l - n /\ \A i \in 1 .. l - n : back[i] = s[n + i]
  <2>1. \A i \in n + 1 .. l : s[i] \in Pieces
    BY <1>1
  <2>2. /\ n + 1 \in Int /\ l \in Int /\ l - (n + 1) + 1 = l - n /\ (~(n + 1 <= l) => l - n = 0)
        /\ \A i \in 1 .. l - n : n + 1 + i - 1 = n + i
    BY <1>1
  <2>3. /\ back \in Seq(Pieces) /\ Len(back) = IF n + 1 <= l THEN l - (n + 1) + 1 ELSE 0
        /\ \A i \in 1 .. l - (n + 1) + 1 : back[i] = s[n + 1 + i - 1]
    BY <2>1, <2>2, SubSeqProperties
  <2> QED BY <2>2, <2>3
<1> HIDE DEF front, back
<1>4. /\ front \o back \in Seq(Pieces) /\ Len(front \o back) = l
      /\ \A i \in 1 .. l : (front \o back)[i] = IF i <= n THEN front[i] ELSE back[i - n]
  <2>1. n + (l - n) = l
    BY <1>1
  <2>2. /\ front \o back \in Seq(Pieces) /\ Len(front \o back) = Len(front) + Len(back)
        /\ \A i \in 1 .. Len(front) + Len(back) :
              (front \o back)[i] = IF i <= Len(front) THEN front[i] ELSE back[i - Len(front)]
    BY <1>2, <1>3, ConcatProperties
  <2> QED BY <1>2, <1>3, <2>1, <2>2
<1>5. ASSUME NEW i \in 1 .. l PROVE (front \o back)[i] = s[i]
  <2>1. CASE i <= n
    <3>1. i \in 1 .. n
      BY <1>1, <2>1
    <3> QED BY <1>2, <1>4, <2>1, <3>1
  <2>2. CASE ~(i <= n)
    <3>1. i - n \in 1 .. l - n /\ n + (i - n) = i
      BY <1>1, <2>2
    <3> QED BY <1>3, <1>4, <2>2, <3>1
  <2> QED BY <2>1, <2>2
<1>6. front \o back = s
  <2>1. Len(s) = l
    BY DEF l
  <2> QED BY <1>4, <1>5, <2>1, SeqEqual
<1> QED BY <1>2, <1>3, <1>6 DEF front, back, l

\* Steps in which the client does nothing.
LEMMA ServerKeeps ==
    ASSUME ServerSound, w1' \in {"off", "running"}, w1' = w1, w2' = w2,
           w3' \in Seq(Lines), w4' \in Seq(Pieces), UNCHANGED <<w5, w6, w7, w8>>,
           ProbeSound(w9', w6), w9'.id = w9.id,
           w1 = "running" => w6 \o Whole(w5 \o w4') = w3',
           w1 = "off" => w3' = w3
    PROVE  ServerSound'
<1>1. ProbeSound(w9, w6)'
  BY DEF ProbeSound, Answered
<1>2. (w8 => w1 = "running" /\ Answered(w9.id, w6))'
  BY DEF ServerSound, Answered
<1>3. (Server!Complete(w5) = {})'
  BY DEF ServerSound, Server!Complete
<1>4. (w1 = "running" => w6 \o Whole(w5 \o w4) = w3)'
  <2>1. w1' = "running" => w6' \o Whole(w5' \o w4') = w3'
    OBVIOUS
  <2> QED BY <2>1 DEF Whole, Partial, Server!Drained, Server!Complete, Server!Cut, Server!Nth
<1> QED BY <1>1, <1>2, <1>3, <1>4 DEF ServerSound

LEMMA ServerWrites ==
    ASSUME ServerSound, Server!WritesTail \/ \E line \in Server!Lines : Server!Writes(line)
    PROVE  ServerSound'
<1> DEFINE all == w5 \o w4
<1>1. /\ w1 = "running" /\ w4 \in Seq(Pieces) /\ w5 \in Seq(Pieces) /\ w6 \in Seq(Lines) /\ w3 \in Seq(Lines)
      /\ ProbeSound(w9, w6) /\ w6 \o Whole(all) = w3
  BY DEF ServerSound, Server!WritesTail, Server!Writes
<1>2. all \in Seq(Pieces) /\ Whole(all) \in Seq(Lines)
  BY <1>1, ConcatProperties, WholeType
<1>3. ASSUME NEW p \in Pieces PROVE w5 \o Append(w4, p) = Append(all, p) /\ Append(w4, p) \in Seq(Pieces)
  <2>1. <<p>> \in Seq(Pieces)
    OBVIOUS
  <2>2. Append(w4, p) = w4 \o <<p>> /\ Append(all, p) = all \o <<p>>
    BY <1>1, <1>2, AppendIsConcat
  <2>3. (w5 \o w4) \o <<p>> = w5 \o (w4 \o <<p>>)
    BY <1>1, <2>1, ConcatAssociative
  <2> QED BY <1>1, <2>2, <2>3
<1> HIDE DEF all
<1>4. UNCHANGED <<w1, w2, w5, w6, w7, w8, w9>>
  BY DEF Server!WritesTail, Server!Writes, Server!server, Server!client
<1>5. ASSUME NEW line \in Server!Lines, Server!Writes(line) PROVE ServerSound'
  <2>1. ~Server!Cut(all) /\ w3' = Append(w3, line)
    BY <1>5 DEF Server!Writes, all
  <2>2. PICK half \in {"whole", "head"} : w4' = Append(w4, [line |-> line, part |-> half])
    BY <1>5 DEF Server!Writes
  <2> DEFINE p == [line |-> line, part |-> half]
  <2>3. line \in Lines
    BY DEF Lines, Server!Lines, Server!Kinds
  <2>4. p \in Pieces /\ p.line = line
    BY <2>3 DEF Pieces
  <2>5. w4' = Append(w4, p)
    BY <2>2
  <2> HIDE DEF p
  <2>6. w5 \o w4' = Append(all, p) /\ w4' \in Seq(Pieces)
    BY <1>3, <2>4, <2>5
  <2>7. Whole(Append(all, p)) = Append(Whole(all), line)
    BY <1>2, <2>1, <2>4, WholeMore
  <2>8. w6 \o Append(Whole(all), line) = Append(w3, line)
    <3> DEFINE u == Whole(all)
    <3>1. u \in Seq(Lines) /\ <<line>> \in Seq(Lines) /\ w6 \o u = w3
      BY <1>1, <1>2, <2>3
    <3> HIDE DEF u
    <3>2. Append(u, line) = u \o <<line>> /\ Append(w3, line) = w3 \o <<line>>
      BY <1>1, <2>3, <3>1, AppendIsConcat
    <3>3. (w6 \o u) \o <<line>> = w6 \o (u \o <<line>>)
      BY <1>1, <3>1, JoinAssociates
    <3>4. w6 \o Append(u, line) = Append(w3, line)
      BY <3>1, <3>2, <3>3
    <3> QED BY <3>4 DEF u
  <2>9. w3' \in Seq(Lines)
    BY <1>1, <2>1, <2>3
  <2> QED BY <1>1, <1>4, <2>1, <2>6, <2>7, <2>8, <2>9, ServerKeeps
<1>6. CASE Server!WritesTail
  <2> DEFINE p == [line |-> all[Len(all)].line, part |-> "tail"]
  <2>1. Server!Cut(all) /\ w4' = Append(w4, p) /\ w3' = w3
    BY <1>6 DEF Server!WritesTail, Server!server, all
  <2>2. p.line \in Lines /\ p.part = "tail" /\ p.line = all[Len(all)].line
    BY <1>2, <2>1, LastPiece DEF Server!Cut
  <2>3. p \in Pieces
    BY <2>2 DEF Pieces
  <2> HIDE DEF p
  <2>4. w5 \o w4' = Append(all, p) /\ w4' \in Seq(Pieces)
    BY <1>3, <2>1, <2>3
  <2>5. Whole(Append(all, p)) = Whole(all)
    BY <1>2, <2>1, <2>2, <2>3, WholeMore
  <2> QED BY <1>1, <1>4, <2>1, <2>4, <2>5, ServerKeeps
<1> QED BY <1>5, <1>6

\* The client reads n pieces of what was not read.
LEMMA ServerReads == ASSUME ServerSound, Server!Read PROVE ServerSound'
<1>1. PICK n \in 1 .. Len(w4) : Server!Take(n)
  BY DEF Server!Read
<1> DEFINE front == SubSeq(w4, 1, n)
           back == SubSeq(w4, n + 1, Len(w4))
           b == w5 \o front
           ls == Server!Drained(b)
<1>2. /\ w5' = Server!Rest(b) /\ w4' = back /\ w6' = w6 \o ls
      /\ w9' = Server!Told(w9, ls) /\ w8' = (w8 \/ Server!Confirms(w9, ls))
  BY <1>1 DEF Server!Take
<1>3. w1 = "running" /\ UNCHANGED <<w1, w2, w3, w7>>
  BY DEF Server!Read, Server!server
<1>4. /\ w3 \in Seq(Lines) /\ w4 \in Seq(Pieces) /\ w5 \in Seq(Pieces) /\ w6 \in Seq(Lines)
      /\ ProbeSound(w9, w6) /\ w6 \o Whole(w5 \o w4) = w3
  BY <1>3 DEF ServerSound
<1>5. front \in Seq(Pieces) /\ back \in Seq(Pieces) /\ front \o back = w4
  BY <1>4, SplitQueue
<1> HIDE DEF front, back
<1>6. b \in Seq(Pieces) /\ w5 \o w4 = b \o back
  <2>1. b \in Seq(Pieces)
    BY <1>4, <1>5, ConcatProperties
  <2>2. (w5 \o front) \o back = w5 \o (front \o back)
    BY <1>4, <1>5, PiecesAssociate
  <2> QED BY <1>5, <2>1, <2>2
<1> HIDE DEF b
<1>7. /\ Server!Rest(b) \o back \in Seq(Pieces) /\ w5 \o w4 \in Seq(Pieces)
      /\ Whole(w5 \o w4) = ls \o Whole(Server!Rest(b) \o back)
  BY <1>5, <1>6, WholeRest
<1>8. Server!Rest(b) \in Seq(Pieces) /\ Server!Complete(Server!Rest(b)) = {}
  BY <1>6, RestOfBuffer
<1>9. ls \in Seq(Lines) /\ Whole(Server!Rest(b) \o back) \in Seq(Lines)
  BY <1>6, <1>7, DrainedLines, WholeType
<1> HIDE DEF ls
<1>10. (w6 \o ls) \o Whole(Server!Rest(b) \o back) = w3
  <2>1. (w6 \o ls) \o Whole(Server!Rest(b) \o back) = w6 \o (ls \o Whole(Server!Rest(b) \o back))
    BY <1>4, <1>9, JoinAssociates
  <2> QED BY <1>4, <1>7, <2>1
<1>11. /\ ProbeSound(Server!Told(w9, ls), w6 \o ls) /\ Server!Told(w9, ls).id = w9.id
       /\ Server!Confirms(w9, ls) => Answered(w9.id, w6 \o ls)
  BY <1>4, <1>9, ToldSound
<1>12. w8 => Answered(w9.id, w6 \o ls)
  BY <1>4, <1>9, AnsweredMore DEF ServerSound
<1>13. w6 \o ls \in Seq(Lines)
  BY <1>4, <1>9, ConcatProperties
<1>14. /\ w8 \in BOOLEAN /\ Server!Confirms(w9, ls) \in BOOLEAN
  <2>1. Server!Told(w9, ls).success \in BOOLEAN /\ w9.success \in BOOLEAN
    BY <1>4, <1>11 DEF ProbeSound, Probes
  <2> QED BY <2>1 DEF ServerSound, Server!Confirms
<1>15. ProbeSound(w9, w6)'
  <2>1. ProbeSound(w9', w6')
    BY <1>2, <1>11
  <2> QED BY <2>1 DEF ProbeSound, Answered
<1>16. w8' \in BOOLEAN /\ (w8' => Answered(w9'.id, w6'))
  BY <1>2, <1>11, <1>12, <1>14
<1>17. (w8 => w1 = "running" /\ Answered(w9.id, w6))'
  BY <1>3, <1>16 DEF Answered
<1>18. (Server!Complete(w5) = {})'
  BY <1>2, <1>8 DEF Server!Complete
<1>19. (w6 \o Whole(w5 \o w4) = w3)'
  <2>1. w6' \o Whole(w5' \o w4') = w3'
    BY <1>2, <1>3, <1>10
  <2> QED BY <2>1 DEF Whole, Partial, Server!Drained, Server!Complete, Server!Cut, Server!Nth
<1>20. w4' \in Seq(Pieces) /\ w5' \in Seq(Pieces) /\ w6' \in Seq(Lines) /\ w3' \in Seq(Lines)
  BY <1>2, <1>3, <1>4, <1>5, <1>8, <1>13
<1>21. w1' = "running" /\ w2' \in 0 .. MaxStarts /\ w7' \in 1 .. 2
  BY <1>3 DEF ServerSound
<1> QED BY <1>15, <1>16, <1>17, <1>18, <1>19, <1>20, <1>21 DEF ServerSound

LEMMA TransportErrorSound ==
    ASSUME NEW p, NEW hs, ProbeSound(p, hs) PROVE ProbeSound(Server!TransportError(p), hs)
<1> DEFINE q == IF p.reason = "none" THEN [p EXCEPT !.reason = "transport"] ELSE p
           t == Server!TransportError(p)
<1>1. p \in Probes
  BY DEF ProbeSound
<1>2. q \in Probes /\ q.id = p.id /\ q.success = p.success /\ q.reason # "none"
  BY <1>1 DEF Probes
<1>3. t = Server!Left(q)
  BY DEF Server!TransportError
<1> HIDE DEF q, t
<1>4. t \in Probes /\ t.id = p.id /\ t.success = p.success /\ t.reason # "none"
  BY <1>2, <1>3 DEF Server!Left, Probes
<1> QED BY <1>4 DEF ProbeSound, t

\* The server ends, by itself or because it is told to: what it wrote is read first.
LEMMA ServerStops ==
    ASSUME ServerSound, w1 = "running", NEW crash \in BOOLEAN, Server!Ends(crash), UNCHANGED <<w2, w3, w7>>
    PROVE  ServerSound'
<1> DEFINE b == w5 \o w4
           ls == Server!Drained(b)
           told == Server!Told(w9, ls)
<1>1. /\ w1' = "off" /\ w4' = <<>> /\ w5' = Server!Rest(b) /\ w6' = w6 \o ls /\ w8' = FALSE
      /\ w9' = IF crash THEN Server!TransportError(told) ELSE told
  BY DEF Server!Ends, Server!Stopped
<1>2. /\ w3 \in Seq(Lines) /\ w4 \in Seq(Pieces) /\ w5 \in Seq(Pieces) /\ w6 \in Seq(Lines)
      /\ ProbeSound(w9, w6) /\ w6 \o (ls \o Partial(b)) = w3
  BY DEF ServerSound, Whole
<1>3. b \in Seq(Pieces)
  BY <1>2, ConcatProperties
<1> HIDE DEF b
<1>4. ls \in Seq(Lines) /\ Partial(b) \in Seq(Lines)
  BY <1>3, DrainedLines, WholeType
<1>5. Server!Rest(b) \in Seq(Pieces) /\ Server!Complete(Server!Rest(b)) = {}
  BY <1>3, RestOfBuffer
<1> HIDE DEF ls
<1>6. (w6 \o ls) \o Partial(b) = w3 /\ w6 \o ls \in Seq(Lines)
  BY <1>2, <1>4, JoinAssociates, ConcatProperties
<1>7. ProbeSound(told, w6 \o ls)
  BY <1>2, <1>4, ToldSound
<1> HIDE DEF told
<1>8. ProbeSound(w9', w6')
  BY <1>1, <1>7, TransportErrorSound
<1>9. ProbeSound(w9, w6)'
  BY <1>8 DEF ProbeSound, Answered
<1>10. \E rest \in Seq(Lines) : w6' \o rest = w3'
  BY <1>1, <1>4, <1>6
<1>11. (Server!Complete(w5) = {})'
  BY <1>1, <1>5 DEF Server!Complete
<1>12. /\ w3' \in Seq(Lines) /\ w4' \in Seq(Pieces) /\ w5' \in Seq(Pieces) /\ w6' \in Seq(Lines)
       /\ w2' \in 0 .. MaxStarts /\ w7' \in 1 .. 2
  BY <1>1, <1>2, <1>5, <1>6, WholeNone DEF ServerSound
<1>13. w1' \in {"off", "running"} /\ w1' # "running"
  BY <1>1
<1>14. w8' \in BOOLEAN /\ ~w8'
  BY <1>1, Zenon
<1> QED BY <1>9, <1>10, <1>11, <1>12, <1>13, <1>14 DEF ServerSound

\* The probe's own steps: its time is up, or it prints.
LEMMA ProbeSteps ==
    ASSUME ServerSound, Server!TimeUp \/ Server!PrintResult PROVE ServerSound'
<1>1. /\ UNCHANGED <<w1, w2, w3, w4, w5, w6, w7, w8>>
      /\ w9' \in {[w9 EXCEPT !.loop = "left", !.reason = "timeout"], [w9 EXCEPT !.loop = "printed"]}
      /\ w9' = [w9 EXCEPT !.loop = "printed"] => w9.loop = "left"
  <2>1. w9 \in Probes
    BY DEF ServerSound, ProbeSound
  <2>2. CASE Server!TimeUp
    <3>1. w9' = [w9 EXCEPT !.loop = "left", !.reason = "timeout"]
      BY <2>2 DEF Server!TimeUp
    <3>2. w9'.loop = "left" /\ [w9 EXCEPT !.loop = "printed"].loop = "printed"
      BY <2>1, <3>1 DEF Probes
    <3> QED BY <2>2, <3>1, <3>2 DEF Server!TimeUp, Server!server, Server!client
  <2>3. CASE Server!PrintResult
    BY <2>3 DEF Server!PrintResult, Server!server, Server!client
  <2> QED BY <2>2, <2>3
<1>2. ProbeSound(w9, w6) /\ w9 \in Probes
  BY DEF ServerSound, ProbeSound
<1>3. ProbeSound(w9', w6) /\ w9'.id = w9.id
  <2>1. CASE w9' = [w9 EXCEPT !.loop = "left", !.reason = "timeout"]
    <3>1. w9' \in Probes /\ w9'.id = w9.id /\ w9'.success = w9.success /\ w9'.reason = "timeout"
      BY <1>2, <2>1 DEF Probes
    <3> QED BY <1>2, <3>1 DEF ProbeSound
  <2>2. CASE w9' = [w9 EXCEPT !.loop = "printed"]
    <3>1. /\ w9' \in Probes /\ w9'.id = w9.id /\ w9'.success = w9.success /\ w9'.reason = w9.reason
          /\ w9.loop = "left"
      BY <1>1, <1>2, <2>2 DEF Probes
    <3> QED BY <1>2, <3>1 DEF ProbeSound
  <2> QED BY <1>1, <2>1, <2>2
<1>4. w3' \in Seq(Lines) /\ w4' \in Seq(Pieces) /\ w1' \in {"off", "running"}
  BY <1>1 DEF ServerSound
<1>5. w1 = "running" => w6 \o Whole(w5 \o w4') = w3'
  BY <1>1 DEF ServerSound
<1> QED BY <1>1, <1>3, <1>4, <1>5, ServerKeeps

LEMMA ServerStep == ASSUME ServerSound, Server!Next PROVE ServerSound'
<1>1. ASSUME NEW crash \in BOOLEAN, Server!ServerEnds(crash) PROVE ServerSound'
  BY <1>1, ServerStops DEF Server!ServerEnds
<1>2. CASE Server!Shutdown
  <2>1. PICK crash \in BOOLEAN : Server!Ends(crash)
    BY <1>2 DEF Server!Shutdown
  <2> QED BY <1>2, <2>1, ServerStops DEF Server!Shutdown
<1> QED BY <1>1, <1>2, ServerStarts, ServerReads, ServerWrites, ProbeSteps DEF Server!Next

-----------------------------------------------------------------------------
(* What each of them says is true.                                          *)

FrontsSound ==
    /\ part = "terminal" => TerminalSound
    /\ part = "command" => CommandSound
    /\ part = "server" => ServerSound

\* In every behaviour of one of these components, for any approvals, calls and bounds:
\* codex is answered once at most, the command line's results agree with its run and its exit
\* code, and an app-server's lines are handled whole, in order, its answer being the
\* only way to success.
THEOREM Fronts == PartSpec => []FrontsTrue
<1>1. PartInit => FrontsSound
  BY TerminalInit, CommandInit, ServerInit DEF PartInit, FrontsSound
<1>2. FrontsSound /\ [PartNext]_<<part, vars, Spare0>> => FrontsSound'
  <2> SUFFICES ASSUME FrontsSound, [PartNext]_<<part, vars, Spare0>> PROVE FrontsSound'
    OBVIOUS
  <2>1. part' = part
    BY DEF PartNext
  <2>2. CASE part = "terminal"
    <3>1. TerminalSound
      BY <2>2 DEF FrontsSound
    <3>2. CASE Terminal!Next
      BY <2>1, <2>2, <3>1, <3>2, TerminalStep DEF FrontsSound
    <3>3. CASE UNCHANGED Spare0
      BY <2>1, <2>2, <3>1, <3>3
         DEF FrontsSound, TerminalSound, Terminal!TypeOK, Terminal!AnsweredOnce, Spare0
    <3> QED BY <2>2, <3>2, <3>3 DEF PartNext
  <2>3. CASE part = "command"
    <3>1. CommandSound
      BY <2>3 DEF FrontsSound
    <3>2. CASE Command!Next
      BY <2>1, <2>3, <3>1, <3>2, CommandStep DEF FrontsSound
    <3>3. CASE UNCHANGED Spare0
      <4>1. UNCHANGED Command!vars
        BY <3>3 DEF Spare0, Command!vars, Command!agent
      <4> QED BY <2>1, <2>3, <3>1, <4>1 DEF FrontsSound, CommandSound, Command!TypeOK,
           Command!ResultTrue, NotesSound, Command!vars, Command!agent
    <3> QED BY <2>3, <3>2, <3>3 DEF PartNext
  <2>4. CASE part = "server"
    <3>1. ServerSound
      BY <2>4 DEF FrontsSound
    <3>2. CASE Server!Next
      BY <2>1, <2>4, <3>1, <3>2, ServerStep DEF FrontsSound
    <3>3. CASE UNCHANGED Spare0
      <4>1. UNCHANGED <<w1, w2, w3, w4, w5, w6, w7, w8, w9>>
        BY <3>3 DEF Spare0
      <4>2. ProbeSound(w9', w6) /\ w9'.id = w9.id /\ w1' \in {"off", "running"}
        BY <3>1, <4>1 DEF ServerSound
      <4>3. /\ w3' \in Seq(Lines) /\ w4' \in Seq(Pieces)
            /\ w1 = "running" => w6 \o Whole(w5 \o w4') = w3'
        BY <3>1, <4>1 DEF ServerSound
      <4>4. ServerSound'
        BY <3>1, <4>1, <4>2, <4>3, ServerKeeps
      <4> QED BY <2>1, <2>4, <4>4 DEF FrontsSound
    <3> QED BY <2>4, <3>2, <3>3 DEF PartNext
  <2>5. CASE part \notin {"terminal", "command", "server"}
    BY <2>1, <2>5 DEF FrontsSound
  <2> QED BY <2>2, <2>3, <2>4, <2>5
<1>3. FrontsSound => FrontsTrue
  BY ServerTrue DEF FrontsSound, FrontsTrue, TerminalSound, CommandSound
<1> QED BY <1>1, <1>2, <1>3, PTL DEF PartSpec

-----------------------------------------------------------------------------
(* The guards of the tool loop: lists of results, as the counters and the   *)
(* reply tell them.                                                         *)

GuardEntries == [tool : {c.tool : c \in GuardCalls}, args : {c.args : c \in GuardCalls},
                 success : BOOLEAN, ran : BOOLEAN]

GuardLimits == {"time", "total", "fetch", "noProgress", "failed"}

LEMMA GuardConstants ==
    /\ DOMAIN GuardDefaults = GuardLimits /\ Guards!Limit = GuardLimits
    /\ GuardDefaults \in [GuardLimits -> Nat] /\ GuardLowest \in [GuardLimits -> Nat]
    /\ GuardHighest \in [GuardLimits -> Nat]
    /\ \A l \in GuardLimits : GuardDefaults[l] \in GuardLowest[l] .. GuardHighest[l]
    /\ GuardLowest["total"] > 0
    /\ GuardPolicies \subseteq [schema : Int, of : [GuardLimits -> Nat \cup {-1}]]
    /\ \A o \in GuardOutcomes : o.success \in BOOLEAN
    /\ GuardRound \in Nat /\ GuardRecent \in Nat \ {0}
BY GuardsAssumption DEF GuardLimits, Guards!Limit

LEMMA GuardCardinality == \A S : Guards!Cardinality(S) = Cardinality(S)
BY DEF Guards!Cardinality, Cardinality

\* One result more.
LEMMA GuardAppend ==
    ASSUME NEW l \in Seq(GuardEntries), NEW e \in GuardEntries
    PROVE  /\ Append(l, e) \in Seq(GuardEntries) /\ Len(Append(l, e)) = Len(l) + 1 /\ Len(l) \in Nat
           /\ DOMAIN l = 1 .. Len(l) /\ DOMAIN Append(l, e) = 1 .. Len(l) + 1
           /\ Append(l, e)[Len(l) + 1] = e /\ \A k \in 1 .. Len(l) : Append(l, e)[k] = l[k]
           /\ \A k \in DOMAIN Append(l, e) : k \in DOMAIN l \/ k = Len(l) + 1
           /\ \A k \in DOMAIN l : k \in DOMAIN Append(l, e)
OBVIOUS

\* How many of a list's results are of a kind, when there is one more.
LEMMA GuardCount ==
    ASSUME NEW S, NEW T, NEW n \in Nat, S \subseteq 1 .. n, T = S \/ T = S \cup {n + 1}
    PROVE  /\ Guards!Cardinality(S) \in Nat
           /\ Guards!Cardinality(T) = IF T = S THEN Guards!Cardinality(S) ELSE Guards!Cardinality(S) + 1
<1>1. IsFiniteSet(S) /\ n + 1 \notin S
  <2>1. IsFiniteSet(1 .. n)
    BY FS_Interval
  <2>2. IsFiniteSet(S)
    BY <2>1, FS_Subset
  <2>3. n + 1 \notin 1 .. n
    OBVIOUS
  <2> QED BY <2>2, <2>3
<1>2. Cardinality(S) \in Nat /\ Cardinality(S \cup {n + 1}) = Cardinality(S) + 1
  BY <1>1, FS_CardinalityType, FS_AddElement
<1> QED BY <1>2, GuardCardinality

LEMMA FetchesCounted ==
    ASSUME NEW l \in Seq(GuardEntries), NEW e \in GuardEntries
    PROVE  /\ Guards!Cardinality(Guards!Fetched(l)) \in Nat
           /\ Guards!Cardinality(Guards!Fetched(Append(l, e)))
                 = IF e.tool = "web_fetch" THEN Guards!Cardinality(Guards!Fetched(l)) + 1
                   ELSE Guards!Cardinality(Guards!Fetched(l))
<1> DEFINE m == Append(l, e)
           n == Len(l)
           S == Guards!Fetched(l)
           T == Guards!Fetched(m)
<1>1. /\ n \in Nat /\ DOMAIN l = 1 .. n /\ DOMAIN m = 1 .. n + 1 /\ m[n + 1] = e
      /\ \A k \in 1 .. n : m[k] = l[k]
      /\ \A k \in DOMAIN m : k \in DOMAIN l \/ k = n + 1
      /\ \A k \in DOMAIN l : k \in DOMAIN m
  BY GuardAppend
<1> HIDE DEF m, n
<1>2. S \subseteq 1 .. n
  BY <1>1 DEF Guards!Fetched
<1>3. T = IF e.tool = "web_fetch" THEN S \cup {n + 1} ELSE S
  <2>1. \A k \in 1 .. n : k \in T <=> k \in S
    BY <1>1 DEF Guards!Fetched, Guards!IsFetch
  <2>2. n + 1 \in T <=> e.tool = "web_fetch"
    BY <1>1 DEF Guards!Fetched, Guards!IsFetch
  <2>3. \A k \in T : k \in 1 .. n \/ k = n + 1
    BY <1>1 DEF Guards!Fetched
  <2> HIDE DEF S, T
  <2>4. \A k \in S : k \in T
    BY <1>2, <2>1
  <2>5. CASE e.tool = "web_fetch"
    <3>1. \A k \in T : k \in S \cup {n + 1}
      BY <2>1, <2>3
    <3> QED BY <2>2, <2>4, <2>5, <3>1
  <2>6. CASE ~(e.tool = "web_fetch")
    <3>1. \A k \in T : k \in S
      BY <2>1, <2>2, <2>3, <2>6
    <3> QED BY <2>4, <2>6, <3>1
  <2> QED BY <2>5, <2>6
<1>4. n + 1 \notin S
  BY <1>1, <1>2
<1> HIDE DEF S, T
<1>5. Guards!Cardinality(S) \in Nat /\ Guards!Cardinality(T) = IF T = S THEN Guards!Cardinality(S) ELSE Guards!Cardinality(S) + 1
  BY <1>1, <1>2, <1>3, GuardCount
<1> QED BY <1>3, <1>4, <1>5 DEF S, T, m

LEMMA FailuresCounted ==
    ASSUME NEW l \in Seq(GuardEntries), NEW e \in GuardEntries
    PROVE  /\ Guards!Cardinality(Guards!Unsuccessful(l)) \in Nat
           /\ Guards!Cardinality(Guards!Unsuccessful(Append(l, e)))
                 = IF e.success THEN Guards!Cardinality(Guards!Unsuccessful(l))
                   ELSE Guards!Cardinality(Guards!Unsuccessful(l)) + 1
<1> DEFINE m == Append(l, e)
           n == Len(l)
           S == Guards!Unsuccessful(l)
           T == Guards!Unsuccessful(m)
<1>1. /\ n \in Nat /\ DOMAIN l = 1 .. n /\ DOMAIN m = 1 .. n + 1 /\ m[n + 1] = e
      /\ \A k \in 1 .. n : m[k] = l[k]
      /\ \A k \in DOMAIN m : k \in DOMAIN l \/ k = n + 1
      /\ \A k \in DOMAIN l : k \in DOMAIN m
  BY GuardAppend
<1> HIDE DEF m, n
<1>2. S \subseteq 1 .. n
  BY <1>1 DEF Guards!Unsuccessful
<1>3. T = IF e.success THEN S ELSE S \cup {n + 1}
  <2>1. \A k \in 1 .. n : k \in T <=> k \in S
    BY <1>1 DEF Guards!Unsuccessful
  <2>2. n + 1 \in T <=> ~e.success
    BY <1>1 DEF Guards!Unsuccessful
  <2>3. \A k \in T : k \in 1 .. n \/ k = n + 1
    BY <1>1 DEF Guards!Unsuccessful
  <2> HIDE DEF S, T
  <2>4. \A k \in S : k \in T
    BY <1>2, <2>1
  <2>5. CASE ~e.success
    <3>1. \A k \in T : k \in S \cup {n + 1}
      BY <2>1, <2>3
    <3> QED BY <2>2, <2>4, <2>5, <3>1
  <2>6. CASE ~(~e.success)
    <3>1. \A k \in T : k \in S
      BY <2>1, <2>2, <2>3, <2>6
    <3> QED BY <2>4, <2>6, <3>1
  <2> QED BY <2>5, <2>6
<1>4. n + 1 \notin S
  BY <1>1, <1>2
<1> HIDE DEF S, T
<1>5. Guards!Cardinality(S) \in Nat /\ Guards!Cardinality(T) = IF T = S THEN Guards!Cardinality(S) ELSE Guards!Cardinality(S) + 1
  BY <1>1, <1>2, <1>3, GuardCount
<1> QED BY <1>3, <1>4, <1>5 DEF S, T, m

\* The summaries that are kept are those of the last results.
KeptRecent(l) == IF Len(l) > GuardRecent THEN GuardRecent ELSE Len(l)
Summary(e) == <<e.success, e.tool>>

LEMMA LastOf ==
    ASSUME NEW l \in Seq(GuardEntries)
    PROVE  /\ Len(l) \in Nat /\ KeptRecent(l) \in 0 .. Len(l) /\ KeptRecent(l) <= GuardRecent
           /\ Guards!Last(l) \in [1 .. KeptRecent(l) -> {Summary(d) : d \in GuardEntries}]
           /\ \A k \in 1 .. KeptRecent(l) : Guards!Last(l)[k] = Summary(l[Len(l) - KeptRecent(l) + k])
<1> DEFINE n == Len(l)
           m == KeptRecent(l)
           first == IF n > GuardRecent THEN n - GuardRecent + 1 ELSE 1
<1>1. n \in Nat /\ GuardRecent \in Nat
  BY GuardConstants
<1>2. m \in 0 .. n /\ m <= GuardRecent /\ first = n - m + 1 /\ n - first + 1 = m /\ m = KeptRecent(l)
  BY <1>1 DEF KeptRecent
<1>3. Guards!Last(l) = [k \in 1 .. n - first + 1 |-> <<l[first + k - 1].success, l[first + k - 1].tool>>]
  BY DEF Guards!Last
<1> HIDE DEF m, first
<1>4. \A k \in 1 .. m : first + k - 1 = n - m + k
  BY <1>1, <1>2
<1>5. Guards!Last(l) = [k \in 1 .. m |-> <<l[first + k - 1].success, l[first + k - 1].tool>>]
  BY <1>2, <1>3
<1>6. \A k \in 1 .. m : n - m + k \in 1 .. n
  BY <1>1, <1>2
<1>7. \A k \in 1 .. n : l[k] \in GuardEntries
  OBVIOUS
<1> DEFINE f == Guards!Last(l)
<1>8. f = [k \in 1 .. m |-> Summary(l[first + k - 1])]
  BY <1>5 DEF Summary
<1> HIDE DEF f
<1>9. \A k \in 1 .. m : f[k] = Summary(l[n - m + k])
  BY <1>4, <1>8
<1>10. \A k \in 1 .. m : Summary(l[first + k - 1]) \in {Summary(d) : d \in GuardEntries}
  BY <1>4, <1>6, <1>7
<1>11. f \in [1 .. m -> {Summary(d) : d \in GuardEntries}]
  BY <1>8, <1>10
<1> QED BY <1>1, <1>2, <1>9, <1>11 DEF f

LEMMA LastAppend ==
    ASSUME NEW l \in Seq(GuardEntries), NEW e \in GuardEntries
    PROVE  /\ Guards!Latest(Append(Guards!Last(l), Summary(e))) = Guards!Last(Append(l, e))
           /\ Len(Guards!Last(l)) <= GuardRecent
<1> DEFINE T == {Summary(d) : d \in GuardEntries}
           n == Len(l)
           m == KeptRecent(l)
           q == Append(l, e)
           p == KeptRecent(q)
           s == Append(Guards!Last(l), Summary(e))
           t == Guards!Latest(s)
<1>1. /\ n \in Nat /\ q \in Seq(GuardEntries) /\ Len(q) = n + 1 /\ q[n + 1] = e
      /\ \A k \in 1 .. n : q[k] = l[k] /\ l[k] \in GuardEntries
  BY GuardAppend
<1>2. GuardRecent \in Nat \ {0}
  BY GuardConstants
<1>3. m = IF n > GuardRecent THEN GuardRecent ELSE n
  BY DEF KeptRecent
<1>4. p = IF n + 1 > GuardRecent THEN GuardRecent ELSE n + 1
  BY <1>1 DEF KeptRecent
<1> DEFINE f == Guards!Last(l)
           g == Guards!Last(q)
<1>5. m \in 0 .. n /\ f \in [1 .. m -> T] /\ \A k \in 1 .. m : f[k] = Summary(l[n - m + k])
  BY LastOf
<1>6. g \in [1 .. p -> T] /\ \A k \in 1 .. p : g[k] = Summary(q[n + 1 - p + k])
  <2> HIDE DEF q, p, n, g, m, s, t, f
  <2>1. p = KeptRecent(q) /\ g = Guards!Last(q)
    BY DEF p, g
  <2>2. g \in [1 .. p -> T] /\ \A k \in 1 .. p : g[k] = Summary(q[Len(q) - p + k])
    BY <1>1, <2>1, LastOf
  <2>3. p \in Nat
    BY <1>1, <1>2, <1>4
  <2>4. \A k \in 1 .. p : Len(q) - p + k = n + 1 - p + k
    BY <1>1, <2>3
  <2> HIDE DEF T
  <2> QED BY <2>2, <2>4
<1> HIDE DEF n, m, p, q, f, g
<1>7. \A k \in 1 .. m : n - m + k \in 1 .. n
  BY <1>1, <1>5
<1>9. Summary(e) \in T
  OBVIOUS
<1> HIDE DEF T
<1>10. m \in Nat
  BY <1>1, <1>5
<1>11. f \in Seq(T) /\ Len(f) = m
  <2>1. f \in Seq(T)
    BY <1>5, <1>10, SeqDef
  <2> QED BY <1>5, <1>10, <2>1, LenProperties
<1>12. /\ s \in Seq(T) /\ Len(s) = m + 1 /\ s[m + 1] = Summary(e)
       /\ \A k \in 1 .. m : s[k] = Summary(l[n - m + k])
  <2>1. s = Append(f, Summary(e))
    BY DEF f
  <2> QED BY <1>5, <1>9, <1>10, <1>11, <2>1
<1> HIDE DEF s
<1>13. \A k \in 1 .. m + 1 : s[k] = Summary(q[n - m + k])
  <2> SUFFICES ASSUME NEW k \in 1 .. m + 1 PROVE s[k] = Summary(q[n - m + k])
    OBVIOUS
  <2>1. CASE k \in 1 .. m
    BY <1>1, <1>7, <1>12, <2>1
  <2>2. CASE k = m + 1
    <3>1. n - m + k = n + 1
      BY <1>1, <1>10, <2>2
    <3> QED BY <1>1, <1>12, <2>2, <3>1
  <2> QED BY <1>10, <2>1, <2>2
<1>14. t \in Seq(T) /\ Len(t) = p /\ \A k \in 1 .. p : t[k] = s[m + 1 - p + k]
  <2>1. CASE m + 1 > GuardRecent
    <3>1. t = Tail(s) /\ s # <<>>
      BY <1>10, <1>12, <2>1 DEF Guards!Latest
    <3>2. t \in Seq(T) /\ Len(t) = m /\ \A k \in 1 .. m : t[k] = s[k + 1]
      BY <1>10, <1>12, <3>1, HeadTailProperties
    <3>3. p = m /\ \A k \in 1 .. m : m + 1 - p + k = k + 1
      BY <1>1, <1>2, <1>3, <1>4, <1>10, <2>1
    <3> QED BY <3>2, <3>3
  <2>2. CASE ~(m + 1 > GuardRecent)
    <3>1. t = s
      BY <1>12, <2>2 DEF Guards!Latest
    <3>2. p = m + 1 /\ \A k \in 1 .. p : m + 1 - p + k = k
      BY <1>1, <1>2, <1>3, <1>4, <1>10, <2>2
    <3> QED BY <1>12, <3>1, <3>2
  <2> QED BY <2>1, <2>2
<1>15. \A k \in 1 .. p : t[k] = Summary(q[n + 1 - p + k])
  <2>1. p \in Nat /\ p <= m + 1
    BY <1>1, <1>2, <1>3, <1>4
  <2>2. \A k \in 1 .. p : m + 1 - p + k \in 1 .. m + 1 /\ n - m + (m + 1 - p + k) = n + 1 - p + k
    BY <1>1, <1>10, <2>1
  <2> QED BY <1>13, <1>14, <2>2
<1> HIDE DEF t
<1>16. t \in [1 .. p -> T]
  BY <1>14, LenProperties
<1>17. t = g
  <2>1. p \in Nat
    BY <1>1, <1>2, <1>4
  <2>2. g \in Seq(T) /\ Len(g) = p
    <3>1. g \in Seq(T)
      BY <1>6, <2>1, SeqDef
    <3> QED BY <1>6, <2>1, <3>1, LenProperties
  <2>3. \A k \in 1 .. p : t[k] = g[k]
    BY <1>6, <1>15
  <2> QED BY <1>14, <2>2, <2>3, SeqEqual
<1>18. m <= GuardRecent
  BY <1>1, <1>2, <1>3
<1> QED BY <1>11, <1>17, <1>18 DEF t, s, q, f, g

-----------------------------------------------------------------------------
(* A web_fetch that ran or is deferred is remembered, and is the only one.  *)

OnceIn(l) ==
    \A j, k \in DOMAIN l : l[j].ran /\ l[k].ran /\ l[j].tool = "web_fetch" /\ l[j].tool = l[k].tool
                            /\ l[j].args = l[k].args => j = k

RanKnown(l, kn) ==
    \A k \in DOMAIN l : l[k].ran /\ l[k].tool = "web_fetch" => Guards!Sent(l[k]) \in kn

DeferredKnown(l, cs, de, kn) ==
    \A i \in de : cs[i].tool = "web_fetch" =>
        /\ Guards!Sent(cs[i]) \in kn
        /\ \A j \in de : cs[j].tool = "web_fetch" /\ Guards!Sent(cs[j]) = Guards!Sent(cs[i]) => j = i
        /\ \A k \in DOMAIN l : l[k].ran /\ l[k].tool = "web_fetch" => Guards!Sent(l[k]) # Guards!Sent(cs[i])

\* A result that is none of a fetch that was sent before.
NewFetch(e, l, cs, de, kn) ==
    e.ran /\ e.tool = "web_fetch" =>
        /\ Guards!Sent(e) \in kn
        /\ \A k \in DOMAIN l : l[k].ran /\ l[k].tool = "web_fetch" => Guards!Sent(l[k]) # Guards!Sent(e)
        /\ \A j \in de : cs[j].tool = "web_fetch" => Guards!Sent(cs[j]) # Guards!Sent(e)

LEMMA FetchMore ==
    ASSUME NEW l \in Seq(GuardEntries), NEW e \in GuardEntries, NEW cs, NEW de, NEW rest \in SUBSET de,
           NEW kn, NEW more, kn \subseteq more, OnceIn(l), RanKnown(l, kn), DeferredKnown(l, cs, de, kn),
           NewFetch(e, l, cs, rest, more)
    PROVE  /\ OnceIn(Append(l, e)) /\ RanKnown(Append(l, e), more)
           /\ DeferredKnown(Append(l, e), cs, rest, more)
<1> DEFINE q == Append(l, e)
           n == Len(l)
<1>1. /\ \A k \in DOMAIN l : q[k] = l[k] /\ k \in DOMAIN q
      /\ q[n + 1] = e /\ \A k \in DOMAIN q : k \in DOMAIN l \/ k = n + 1
  BY GuardAppend
<1> HIDE DEF q, n
<1>2. OnceIn(q)
  <2> SUFFICES ASSUME NEW j \in DOMAIN q, NEW k \in DOMAIN q, q[j].ran, q[k].ran,
                      q[j].tool = "web_fetch", q[j].tool = q[k].tool, q[j].args = q[k].args
               PROVE  j = k
    BY DEF OnceIn
  <2>1. Guards!Sent(q[j]) = Guards!Sent(q[k])
    BY DEF Guards!Sent, Guards!NoUrl, Guards!IsFetch
  <2>2. CASE j \in DOMAIN l /\ k \in DOMAIN l
    BY <1>1, <2>2 DEF OnceIn
  <2>3. CASE j = n + 1 /\ k \in DOMAIN l
    BY <1>1, <2>1, <2>3 DEF NewFetch
  <2>4. CASE k = n + 1 /\ j \in DOMAIN l
    BY <1>1, <2>1, <2>4 DEF NewFetch
  <2> QED BY <1>1, <2>2, <2>3, <2>4
<1>3. RanKnown(q, more)
  BY <1>1 DEF RanKnown, NewFetch
<1>4. DeferredKnown(q, cs, rest, more)
  BY <1>1 DEF DeferredKnown, NewFetch
<1> QED BY <1>2, <1>3, <1>4 DEF q

\* A fetch that is deferred was not sent before.
LEMMA FetchDeferred ==
    ASSUME NEW l, NEW cs, NEW de, NEW i, NEW kn, RanKnown(l, kn), DeferredKnown(l, cs, de, kn),
           cs[i].tool = "web_fetch" => Guards!Sent(cs[i]) \notin kn
    PROVE  LET more == IF cs[i].tool = "web_fetch" THEN kn \cup {Guards!Sent(cs[i])} ELSE kn
           IN  RanKnown(l, more) /\ DeferredKnown(l, cs, de \cup {i}, more)
BY DEF RanKnown, DeferredKnown

-----------------------------------------------------------------------------
(* A result of a round: submitToolResult goes on with the round, asks again *)
(* or ends the turn.                                                        *)

GuardEntry(i, o) ==
    [tool |-> w4[i].tool, args |-> w4[i].args, success |-> o.success,
     ran |-> o \notin {Guards!NotAllowed, Guards!MissingUrl, Guards!SentBefore}]
GuardResults(i, o) == [k \in DOMAIN w6 \cup {i} |-> IF k = i THEN o ELSE w6[k]]

NewCounts(i, o) ==
    [total |-> w9 + 1, fetches |-> IF w4[i].tool = "web_fetch" THEN w10 + 1 ELSE w10,
     failures |-> IF o.success THEN w11 ELSE w11 + 1,
     recent |-> Guards!Latest(Append(w18, Summary(GuardEntry(i, o))))]

Collects(i, o, next, known, filled) ==
    /\ w6' = GuardResults(i, o) /\ w8' = w8 \ {i} /\ w5' = next /\ w16' = known /\ w7' = filled
    /\ w9' = NewCounts(i, o).total /\ w10' = NewCounts(i, o).fetches
    /\ w11' = NewCounts(i, o).failures /\ w18' = NewCounts(i, o).recent
    /\ UNCHANGED <<w4, w19>>

GoesOn(i, o, next, known, filled) ==
    /\ ~(DOMAIN GuardResults(i, o) = DOMAIN w4)
    /\ Collects(i, o, next, known, filled)
    /\ UNCHANGED <<w3, w12, w13, w15, w17>>

AsksAgain(i, o, next, known, filled) ==
    /\ DOMAIN GuardResults(i, o) = DOMAIN w4
    /\ Collects(i, o, next, known, filled)
    /\ w3' = "asked" /\ w17' = TRUE /\ ~(w9 + 1 >= w2.total)
    /\ w15' = Guards!Outcome(GuardResults(i, o))
    /\ IF \E k \in DOMAIN GuardResults(i, o) : GuardResults(i, o)[k].success
       THEN w12' = 0 /\ w13' = 0
       ELSE /\ w13' = w13 + 1
            /\ w12' = 0 \/ (w12' = w12 + 1 /\ Guards!Outcome(GuardResults(i, o)) = w15)

EndsTurn(i, o) ==
    /\ DOMAIN GuardResults(i, o) = DOMAIN w4
    /\ w3' = "idle"
    /\ w19'.total = NewCounts(i, o).total /\ w19'.fetches = NewCounts(i, o).fetches
    /\ w19'.failures = NewCounts(i, o).failures /\ w19'.recent = NewCounts(i, o).recent
    /\ Guards!ResetState

LEMMA GuardSubmit ==
    ASSUME NEW i, NEW o, NEW next, NEW known, NEW filled, Guards!Submit(i, o, next, known, filled)
    PROVE  /\ w20' = Append(w20, GuardEntry(i, o))
           /\ \/ GoesOn(i, o, next, known, filled) \/ AsksAgain(i, o, next, known, filled)
              \/ EndsTurn(i, o)
<1> DEFINE res  == GuardResults(i, o)
           n    == w9 + 1
           web  == IF w4[i].tool = "web_fetch" THEN w10 + 1 ELSE w10
           bad  == IF o.success THEN w11 ELSE w11 + 1
           last == Guards!Latest(Append(w18, <<o.success, w4[i].tool>>))
           good == \E k \in DOMAIN res : res[k].success
           same == Guards!Plan = w14 /\ Guards!Outcome(res) = w15
           idle == IF good \/ ~same THEN 0 ELSE w12 + 1
           row  == IF good THEN 0 ELSE w13 + 1
           runs == Guards!MonitorRound /\ \E k \in DOMAIN res : Guards!StillRuns(res[k])
           Goes == /\ w6' = res
                   /\ w8' = w8 \ {i}
                   /\ w5' = next
                   /\ w16' = known
                   /\ w7' = filled
                   /\ w9' = n
                   /\ w10' = web
                   /\ w11' = bad
                   /\ w18' = last
                   /\ UNCHANGED <<w4, w19>>
<1>1. /\ w20' = Append(w20, GuardEntry(i, o))
      /\ \/ /\ ~(DOMAIN res = DOMAIN w4)
            /\ Goes
            /\ UNCHANGED <<w3, w12, w13, w14, w15, w17>>
         \/ /\ DOMAIN res = DOMAIN w4
            /\ \E why \in IF runs THEN {"waiting"} ELSE Guards!Reached(n, web, idle, row) :
                  \/ /\ why = "none"
                     /\ Goes
                     /\ w12' = idle
                     /\ w13' = row
                     /\ w14' = Guards!Plan
                     /\ w15' = Guards!Outcome(res)
                     /\ w17' = TRUE
                     /\ w3' = "asked"
                  \/ /\ why # "none"
                     /\ Guards!EndTurn(why, n, web, bad, last)
  BY DEF Guards!Submit, Guards!Counted, Guards!AllDone, GuardEntry, GuardResults
<1> HIDE DEF res, good, same, runs
<1>2. last = Guards!Latest(Append(w18, Summary(GuardEntry(i, o))))
  BY DEF Summary, GuardEntry
<1> HIDE DEF last
<1>3. Goes <=> Collects(i, o, next, known, filled)
  BY <1>2 DEF Collects, NewCounts, res
<1>4. \A why : Guards!EndTurn(why, n, web, bad, last) =>
          /\ w3' = "idle" /\ w19'.total = NewCounts(i, o).total /\ w19'.fetches = NewCounts(i, o).fetches
          /\ w19'.failures = NewCounts(i, o).failures /\ w19'.recent = NewCounts(i, o).recent
          /\ Guards!ResetState
  BY <1>2 DEF Guards!EndTurn, NewCounts
<1> HIDE DEF Goes
<1>5. CASE ~(DOMAIN res = DOMAIN w4) /\ Goes /\ UNCHANGED <<w3, w12, w13, w14, w15, w17>>
  BY <1>1, <1>3, <1>5 DEF GoesOn, res
<1>6. CASE /\ DOMAIN res = DOMAIN w4
           /\ \E why \in IF runs THEN {"waiting"} ELSE Guards!Reached(n, web, idle, row) :
                  why # "none" /\ Guards!EndTurn(why, n, web, bad, last)
  BY <1>1, <1>4, <1>6 DEF EndsTurn, res
<1>7. CASE /\ DOMAIN res = DOMAIN w4
           /\ "none" \in IF runs THEN {"waiting"} ELSE Guards!Reached(n, web, idle, row)
           /\ Goes
           /\ w12' = idle
           /\ w13' = row
           /\ w15' = Guards!Outcome(res)
           /\ w17' = TRUE
           /\ w3' = "asked"
  <2>1. ~(n >= w2.total)
    BY <1>7 DEF Guards!Reached
  <2>2. IF good THEN w12' = 0 /\ w13' = 0
        ELSE w13' = w13 + 1 /\ (w12' = 0 \/ (w12' = w12 + 1 /\ Guards!Outcome(res) = w15))
    BY <1>7 DEF same
  <2> QED BY <1>1, <1>3, <1>7, <2>1, <2>2 DEF AsksAgain, res, good
<1> QED BY <1>1, <1>5, <1>6, <1>7

\* What is known of a result that comes in while the tools of a round run.
LEMMA GuardRoundFacts ==
    ASSUME Guards!GuardsSound, w3 = "tools", NEW i \in DOMAIN w4, i \notin DOMAIN w6,
           NEW o, o.success \in BOOLEAN
    PROVE  /\ w20 \in Seq(GuardEntries) /\ GuardEntry(i, o) \in GuardEntries
           /\ NewCounts(i, o).total = Len(Append(w20, GuardEntry(i, o)))
           /\ NewCounts(i, o).total = w9 + 1 /\ w9 \in Nat
           /\ NewCounts(i, o).fetches = Guards!Cardinality(Guards!Fetched(Append(w20, GuardEntry(i, o))))
           /\ NewCounts(i, o).fetches \in Nat
           /\ NewCounts(i, o).failures
                 = Guards!Cardinality(Guards!Unsuccessful(Append(w20, GuardEntry(i, o))))
           /\ NewCounts(i, o).failures \in Nat
           /\ NewCounts(i, o).recent = Guards!Last(Append(w20, GuardEntry(i, o)))
           /\ Len(NewCounts(i, o).recent) <= GuardRecent
<1> DEFINE e == GuardEntry(i, o)
           l == w20
           fail == Guards!Cardinality(Guards!Unsuccessful(l))
           web == Guards!Cardinality(Guards!Fetched(l))
<1>1. l \in Seq(GuardEntries)
  BY DEF Guards!GuardsSound, Guards!Entry, GuardEntries
<1>2. w9 = Len(l) /\ w10 = web /\ w11 = fail /\ w18 = Guards!Last(l)
  BY DEF Guards!GuardsSound, Guards!CountersTrue
<1>3. e \in GuardEntries
  <2>1. w4 \in Seq(GuardCalls)
    BY DEF Guards!GuardsSound, Guards!TypeOK
  <2>2. w4[i] \in GuardCalls
    BY <2>1
  <2>3. w4[i].tool \in {c.tool : c \in GuardCalls} /\ w4[i].args \in {c.args : c \in GuardCalls}
    BY <2>2
  <2> QED BY <2>3 DEF GuardEntry, GuardEntries
<1>4. e.success = o.success /\ e.tool = w4[i].tool
  BY DEF GuardEntry
<1> HIDE DEF l, e, fail, web
<1>5. Len(l) \in Nat /\ Len(Append(l, e)) = Len(l) + 1
  BY <1>1, <1>3
<1>6. web \in Nat /\ Guards!Cardinality(Guards!Fetched(Append(l, e)))
                       = IF e.tool = "web_fetch" THEN web + 1 ELSE web
  BY <1>1, <1>3, FetchesCounted DEF web
<1>7. fail \in Nat /\ Guards!Cardinality(Guards!Unsuccessful(Append(l, e)))
                       = IF e.success THEN fail ELSE fail + 1
  BY <1>1, <1>3, FailuresCounted DEF fail
<1>8. Guards!Latest(Append(Guards!Last(l), Summary(e))) = Guards!Last(Append(l, e))
  BY <1>1, <1>3, LastAppend
<1>9. Append(l, e) \in Seq(GuardEntries)
  BY <1>1, <1>3
<1>10. Len(Guards!Last(Append(l, e))) <= GuardRecent
  <2>1. /\ Guards!Last(Append(l, e)) \in [1 .. KeptRecent(Append(l, e)) -> {Summary(d) : d \in GuardEntries}]
        /\ KeptRecent(Append(l, e)) \in 0 .. Len(Append(l, e)) /\ KeptRecent(Append(l, e)) <= GuardRecent
    BY <1>9, LastOf
  <2>2. KeptRecent(Append(l, e)) \in Nat
    BY <1>5, <2>1
  <2>3. Guards!Last(Append(l, e)) \in Seq({Summary(d) : d \in GuardEntries})
    BY <2>1, <2>2, SeqDef
  <2>4. Len(Guards!Last(Append(l, e))) = KeptRecent(Append(l, e))
    BY <2>1, <2>2, <2>3, LenProperties
  <2> QED BY <2>1, <2>4
<1>11. /\ NewCounts(i, o).total = w9 + 1
       /\ NewCounts(i, o).fetches = IF w4[i].tool = "web_fetch" THEN w10 + 1 ELSE w10
       /\ NewCounts(i, o).failures = IF o.success THEN w11 ELSE w11 + 1
       /\ NewCounts(i, o).recent = Guards!Latest(Append(w18, Summary(e)))
  BY DEF NewCounts, e
<1>12. NewCounts(i, o).total = Len(Append(l, e)) /\ w9 \in Nat
  BY <1>2, <1>5, <1>11
<1>13. /\ NewCounts(i, o).fetches = Guards!Cardinality(Guards!Fetched(Append(l, e)))
       /\ NewCounts(i, o).fetches \in Nat
  <2>1. NewCounts(i, o).fetches = IF e.tool = "web_fetch" THEN web + 1 ELSE web
    BY <1>2, <1>4, <1>11
  <2> QED BY <1>6, <2>1
<1>14. /\ NewCounts(i, o).failures = Guards!Cardinality(Guards!Unsuccessful(Append(l, e)))
       /\ NewCounts(i, o).failures \in Nat
  <2>1. NewCounts(i, o).failures = IF e.success THEN fail ELSE fail + 1
    BY <1>2, <1>4, <1>11
  <2> QED BY <1>7, <2>1
<1>15. NewCounts(i, o).recent = Guards!Last(Append(l, e))
  BY <1>2, <1>8, <1>11
<1> QED BY <1>1, <1>3, <1>10, <1>11, <1>12, <1>13, <1>14, <1>15 DEF l, e

\* Each result of a round is a success or a failure.
LEMMA GuardResultsKnown ==
    ASSUME Guards!RoundSound, NEW i, NEW o, o.success \in BOOLEAN
    PROVE  \A k \in DOMAIN GuardResults(i, o) : GuardResults(i, o)[k].success \in BOOLEAN
<1>1. \A k \in DOMAIN w6 : w6[k].success \in BOOLEAN
  BY DEF Guards!RoundSound
<1>2. \A k \in DOMAIN GuardResults(i, o) :
          (k = i \/ k \in DOMAIN w6) /\ GuardResults(i, o)[k] = IF k = i THEN o ELSE w6[k]
  BY DEF GuardResults
<1> QED BY <1>1, <1>2

LEMMA GuardResultsOf ==
    ASSUME Guards!TypeOK, NEW i \in DOMAIN w4, NEW o
    PROVE  DOMAIN GuardResults(i, o) = DOMAIN w6 \cup {i} /\ DOMAIN GuardResults(i, o) \subseteq DOMAIN w4
BY DEF GuardResults, Guards!TypeOK

\* How many results a round has.
LEMMA GuardResultsCount ==
    ASSUME Guards!TypeOK, Guards!RoundSound, NEW i \in DOMAIN w4, i \notin DOMAIN w6, NEW o,
           o.success \in BOOLEAN
    PROVE  /\ Guards!Cardinality(DOMAIN w6) \in Nat
           /\ Guards!Cardinality(DOMAIN GuardResults(i, o)) = Guards!Cardinality(DOMAIN w6) + 1
           /\ Guards!Cardinality(DOMAIN GuardResults(i, o)) <= GuardRound
<1> DEFINE R == DOMAIN w6
           S == DOMAIN GuardResults(i, o)
           n == Len(w4)
<1>1. DOMAIN w4 = 1 .. n /\ n \in 1 .. GuardRound /\ GuardRound \in Nat
  BY GuardConstants DEF Guards!TypeOK, Guards!RoundSound
<1>2. S = R \cup {i} /\ S \subseteq DOMAIN w4
  BY GuardResultsOf
<1>4. i \notin R
  OBVIOUS
<1> HIDE DEF R, S, n
<1>5. IsFiniteSet(1 .. n) /\ Cardinality(1 .. n) = n
  <2>1. IsFiniteSet(1 .. n) /\ Cardinality(1 .. n) = IF 1 > n THEN 0 ELSE n - 1 + 1
    BY <1>1, FS_Interval
  <2> QED BY <1>1, <2>1
<1>6. IsFiniteSet(S) /\ Cardinality(S) <= n
  BY <1>1, <1>2, <1>5, FS_Subset
<1>7. IsFiniteSet(R)
  BY <1>2, <1>6, FS_Subset
<1>8. Cardinality(R) \in Nat /\ Cardinality(S) = Cardinality(R) + 1
  BY <1>2, <1>4, <1>7, FS_CardinalityType, FS_AddElement
<1>9. Cardinality(S) <= GuardRound
  BY <1>1, <1>6, <1>8
<1> QED BY <1>8, <1>9, GuardCardinality DEF R, S

LEMMA GuardFetches ==
    /\ Guards!FetchSound <=> RanKnown(w20, w16) /\ DeferredKnown(w20, w4, w8, w16)
    /\ Guards!FetchedOnce <=> OnceIn(w20)
BY DEF Guards!FetchSound, Guards!FetchedOnce, RanKnown, DeferredKnown, OnceIn, Guards!IsFetch

\* A result of a round leaves the turn as it should be.
LEMMA GuardSubmitStep ==
    ASSUME Guards!GuardsSound, w3 = "tools", NEW i \in DOMAIN w4, i \notin DOMAIN w6,
           NEW o, o.success \in BOOLEAN, NEW next, NEW known, w16 \subseteq known, NEW filled \in BOOLEAN,
           (i = w5 /\ next = w5 + 1) \/ (i \in w8 /\ next = w5),
           NewFetch(GuardEntry(i, o), w20, w4, w8 \ {i}, known),
           Guards!Submit(i, o, next, known, filled), UNCHANGED <<w1, w2>>
    PROVE  Guards!GuardsSound'
<1> DEFINE e == GuardEntry(i, o)
           c == NewCounts(i, o)
           res == GuardResults(i, o)
<1>1. /\ w20 \in Seq(GuardEntries) /\ e \in GuardEntries
      /\ c.total = Len(Append(w20, e)) /\ c.total = w9 + 1 /\ w9 \in Nat
      /\ c.fetches = Guards!Cardinality(Guards!Fetched(Append(w20, e))) /\ c.fetches \in Nat
      /\ c.failures = Guards!Cardinality(Guards!Unsuccessful(Append(w20, e))) /\ c.failures \in Nat
      /\ c.recent = Guards!Last(Append(w20, e)) /\ Len(c.recent) <= GuardRecent
  BY GuardRoundFacts
<1>2. /\ w20' = Append(w20, e)
      /\ GoesOn(i, o, next, known, filled) \/ AsksAgain(i, o, next, known, filled) \/ EndsTurn(i, o)
  BY GuardSubmit
<1>3. Guards!TypeOK /\ Guards!RoundSound /\ Guards!CountersTrue /\ Guards!ProgressSound
  BY DEF Guards!GuardsSound
<1>4. /\ DOMAIN res = DOMAIN w6 \cup {i} /\ DOMAIN res \subseteq DOMAIN w4
      /\ \A k \in DOMAIN res : res[k].success \in BOOLEAN
      /\ Guards!Cardinality(DOMAIN w6) \in Nat
      /\ Guards!Cardinality(DOMAIN res) = Guards!Cardinality(DOMAIN w6) + 1
      /\ Guards!Cardinality(DOMAIN res) <= GuardRound
  <2> HIDE DEF res
  <2>1. /\ DOMAIN GuardResults(i, o) = DOMAIN w6 \cup {i}
        /\ DOMAIN GuardResults(i, o) \subseteq DOMAIN w4
    BY <1>3, GuardResultsOf
  <2>2. \A k \in DOMAIN GuardResults(i, o) : GuardResults(i, o)[k].success \in BOOLEAN
    BY <1>3, GuardResultsKnown
  <2>3. /\ Guards!Cardinality(DOMAIN w6) \in Nat
        /\ Guards!Cardinality(DOMAIN GuardResults(i, o)) = Guards!Cardinality(DOMAIN w6) + 1
        /\ Guards!Cardinality(DOMAIN GuardResults(i, o)) <= GuardRound
    BY <1>3, GuardResultsCount
  <2> QED BY <2>1, <2>2, <2>3 DEF res
<1> HIDE DEF e, c, res
<1>5. OnceIn(w20') /\ RanKnown(w20', known) /\ DeferredKnown(w20', w4, w8 \ {i}, known)
  <2>1. OnceIn(w20) /\ RanKnown(w20, w16) /\ DeferredKnown(w20, w4, w8, w16)
    BY GuardFetches DEF Guards!GuardsSound
  <2>2. w8 \ {i} \in SUBSET w8 /\ NewFetch(e, w20, w4, w8 \ {i}, known)
    BY DEF e
  <2> QED BY <1>1, <1>2, <2>1, <2>2, FetchMore
<1>6. Guards!FetchedOnce'
  <2>1. (Guards!FetchedOnce <=> OnceIn(w20))'
    BY GuardFetches, PTL
  <2> QED BY <1>5, <2>1
<1>7. /\ w1' \in [schema : Int, of : [Guards!Limit -> Nat \cup {Guards!Absent}]]
      /\ w20' \in Seq(Guards!Entry)
  <2>1. w20' \in Seq(GuardEntries) /\ Guards!Entry = GuardEntries
    BY <1>1, <1>2 DEF Guards!Entry, GuardEntries
  <2> QED BY <2>1 DEF Guards!GuardsSound
<1>8. /\ w1.of \in [Guards!Limit -> Nat \cup {Guards!Absent}] /\ w2 \in [Guards!Limit -> Nat]
      /\ \A l \in Guards!Limit : w2[l] \in GuardLowest[l] .. GuardHighest[l]
      /\ w4 \in Seq(GuardCalls) /\ w5 \in Nat /\ w8 \subseteq DOMAIN w4
      /\ w12 \in Nat /\ w13 \in Nat /\ w17 \in BOOLEAN
  BY <1>3 DEF Guards!TypeOK
<1>9. w2.total \in Nat /\ GuardRound \in Nat /\ GuardRecent \in Nat /\ Guards!Limit = GuardLimits
  BY <1>8, GuardConstants DEF GuardLimits
<1>10. w9 < w2.total + Guards!Cardinality(DOMAIN w6)
  BY <1>3 DEF Guards!CountersTrue
<1>11. Len(w20') < w2.total + GuardRound
  <2>1. Len(w20') = w9 + 1
    BY <1>1, <1>2
  <2> QED BY <1>1, <1>4, <1>9, <1>10, <2>1
<1>12. Guards!WithinLimits'
  BY <1>11 DEF Guards!WithinLimits
<1>13. CASE GoesOn(i, o, next, known, filled)
  <2>1. /\ w6' = res /\ w8' = w8 \ {i} /\ w5' = next /\ w16' = known /\ w7' = filled
        /\ w9' = c.total /\ w10' = c.fetches /\ w11' = c.failures /\ w18' = c.recent
        /\ UNCHANGED <<w4, w19, w3, w12, w13, w15, w17>>
    BY <1>13 DEF GoesOn, Collects, c, res
  <2>2. Guards!TypeOK'
    <3>1. next \in Nat
      BY <1>8
    <3>2. w8' \subseteq DOMAIN w4
      BY <1>8, <2>1
    <3>3. {w9', w10', w11', w12', w13'} \subseteq Nat
      BY <1>1, <1>8, <2>1
    <3> QED BY <1>1, <1>4, <1>8, <2>1, <3>1, <3>2, <3>3 DEF Guards!TypeOK
  <2>3. Guards!ReplyTrue'
    BY <2>1 DEF Guards!ReplyTrue
  <2>4. Guards!FirstRoundCounts' /\ Guards!ProgressSound'
    BY <2>1 DEF Guards!FirstRoundCounts, Guards!ProgressSound, Guards!GuardsSound
  <2>5. Guards!CountersTrue'
    <3>1. w9' < w2.total + Guards!Cardinality(DOMAIN res)
      BY <1>1, <1>4, <1>9, <1>10, <2>1
    <3>2. w9' = Len(w20') /\ w10' = Guards!Cardinality(Guards!Fetched(w20'))
          /\ w11' = Guards!Cardinality(Guards!Unsuccessful(w20')) /\ w18' = Guards!Last(w20')
      BY <1>1, <1>2, <2>1
    <3>3. w3' = "tools" /\ w2' = w2 /\ w6' = res
      BY <2>1
    <3> QED BY <3>1, <3>2, <3>3 DEF Guards!CountersTrue
  <2>6. Guards!FetchSound'
    <3>1. (Guards!FetchSound <=> RanKnown(w20, w16) /\ DeferredKnown(w20, w4, w8, w16))'
      BY GuardFetches, PTL
    <3> QED BY <1>5, <2>1, <3>1
  <2>7. Guards!RoundSound'
    <3>1. Len(w4) \in 1 .. GuardRound /\ DOMAIN w6 \cup w8 = 1 .. w5 - 1 /\ DOMAIN w6 \cap w8 = {}
      BY <1>3 DEF Guards!RoundSound
    <3>2. DOMAIN res \cup (w8 \ {i}) = 1 .. next - 1 /\ DOMAIN res \cap (w8 \ {i}) = {}
      <4>1. i \in 1 .. Len(w4)
        BY <1>8
      <4>2. CASE i = w5 /\ next = w5 + 1
        <5>1. 1 .. next - 1 = (1 .. w5 - 1) \cup {i} /\ i \notin 1 .. w5 - 1
          BY <1>8, <4>1, <4>2
        <5> QED BY <1>4, <3>1, <5>1
      <4>3. CASE i \in w8 /\ next = w5
        BY <1>4, <3>1, <4>3
      <4> QED BY <4>2, <4>3
    <3> QED BY <1>4, <2>1, <3>1, <3>2 DEF Guards!RoundSound
  <2> QED BY <1>6, <1>7, <1>12, <2>1, <2>2, <2>3, <2>4, <2>5, <2>6, <2>7 DEF Guards!GuardsSound
<1>14. CASE AsksAgain(i, o, next, known, filled)
  <2>1. /\ w6' = res /\ w8' = w8 \ {i} /\ w5' = next /\ w16' = known /\ w7' = filled
        /\ w9' = c.total /\ w10' = c.fetches /\ w11' = c.failures /\ w18' = c.recent
        /\ UNCHANGED <<w4, w19>> /\ w3' = "asked" /\ w17' = TRUE
        /\ DOMAIN res = DOMAIN w4 /\ ~(w9 + 1 >= w2.total) /\ w15' = Guards!Outcome(res)
        /\ IF \E k \in DOMAIN res : res[k].success
           THEN w12' = 0 /\ w13' = 0
           ELSE /\ w13' = w13 + 1
                /\ w12' = 0 \/ (w12' = w12 + 1 /\ Guards!Outcome(res) = w15)
    BY <1>14 DEF AsksAgain, Collects, c, res
  <2>2. Guards!TypeOK'
    <3>1. next \in Nat
      BY <1>8
    <3>2. w8' \subseteq DOMAIN w4
      BY <1>8, <2>1
    <3>3. {w9', w10', w11', w12', w13'} \subseteq Nat
      BY <1>1, <1>8, <2>1
    <3> QED BY <1>1, <1>4, <1>8, <2>1, <3>1, <3>2, <3>3 DEF Guards!TypeOK
  <2>3. Guards!ReplyTrue'
    BY <2>1 DEF Guards!ReplyTrue
  <2>4. Guards!FirstRoundCounts' /\ Guards!ProgressSound'
    <3>1. DOMAIN w4 # {} /\ \A k \in DOMAIN w4 : Guards!Outcome(res)[k][2] = res[k].success
      <4>1. DOMAIN w4 # {}
        BY <1>3 DEF Guards!RoundSound
      <4> QED BY <4>1 DEF Guards!Outcome
    <3>2. DOMAIN Guards!Outcome(res) = DOMAIN w4
      BY DEF Guards!Outcome
    <3>3. /\ w12 <= w13 /\ (w13 > 0 => w12 < w13)
          /\ (w13 = 0 => w15 = <<>> \/ \E k \in DOMAIN w15 : w15[k][2])
      BY DEF Guards!GuardsSound, Guards!ProgressSound, Guards!FirstRoundCounts
    <3>4. CASE \E k \in DOMAIN res : res[k].success
      <4>1. \E k \in DOMAIN w15' : w15'[k][2]
        BY <2>1, <3>1, <3>2, <3>4
      <4>2. w12' = 0 /\ w13' = 0
        BY <2>1, <3>4
      <4> QED BY <4>1, <4>2 DEF Guards!FirstRoundCounts, Guards!ProgressSound
    <3>5. CASE ~(\E k \in DOMAIN res : res[k].success)
      <4>1. w13' = w13 + 1 /\ (w12' = 0 \/ (w12' = w12 + 1 /\ Guards!Outcome(res) = w15))
        BY <2>1, <3>5
      <4>2. Guards!Outcome(res) = w15 => w13 # 0
        <5> SUFFICES ASSUME Guards!Outcome(res) = w15, w13 = 0 PROVE FALSE
          OBVIOUS
        <5>1. w15 # <<>>
          BY <3>1, <3>2
        <5>2. PICK k \in DOMAIN w15 : w15[k][2]
          BY <3>3, <5>1
        <5>3. k \in DOMAIN w4
          BY <3>2
        <5>4. Guards!Outcome(res)[k][2]
          BY <5>2
        <5>5. res[k].success
          BY <3>1, <5>3, <5>4
        <5> QED BY <2>1, <3>5, <5>3, <5>5
      <4>3. w12' < w13'
        BY <1>8, <3>3, <4>1, <4>2
      <4>4. w12' <= w13' /\ w13' # 0 /\ w13' > 0
        BY <1>8, <4>1, <4>3
      <4> QED BY <4>3, <4>4 DEF Guards!FirstRoundCounts, Guards!ProgressSound
    <3> QED BY <3>4, <3>5
  <2>5. Guards!CountersTrue'
    <3>1. w9' < w2.total
      BY <1>1, <1>9, <2>1
    <3>2. w9' = Len(w20') /\ w10' = Guards!Cardinality(Guards!Fetched(w20'))
          /\ w11' = Guards!Cardinality(Guards!Unsuccessful(w20')) /\ w18' = Guards!Last(w20')
      BY <1>1, <1>2, <2>1
    <3>3. w3' = "asked" /\ w2' = w2
      BY <2>1
    <3> QED BY <3>1, <3>2, <3>3 DEF Guards!CountersTrue
  <2>6. Guards!FetchSound'
    <3>1. (Guards!FetchSound <=> RanKnown(w20, w16) /\ DeferredKnown(w20, w4, w8, w16))'
      BY GuardFetches, PTL
    <3> QED BY <1>5, <2>1, <3>1
  <2>7. w8' = {}
    <3>1. DOMAIN w6 \cap w8 = {}
      BY <1>3 DEF Guards!RoundSound
    <3> QED BY <1>4, <1>8, <2>1, <3>1
  <2> QED BY <1>6, <1>7, <1>12, <2>1, <2>2, <2>3, <2>4, <2>5, <2>6, <2>7 DEF Guards!GuardsSound
<1>15. CASE EndsTurn(i, o)
  <2>1. /\ w3' = "idle" /\ w4' = <<>> /\ w5' = 1 /\ w6' = <<>> /\ w7' = FALSE /\ w8' = {}
        /\ w9' = 0 /\ w10' = 0 /\ w11' = 0 /\ w12' = 0 /\ w13' = 0 /\ w15' = <<>> /\ w17' = FALSE /\ w18' = <<>>
        /\ w19'.total = c.total /\ w19'.fetches = c.fetches
        /\ w19'.failures = c.failures /\ w19'.recent = c.recent
    BY <1>15 DEF EndsTurn, Guards!ResetState, Guards!ResetGuards, Guards!Forgotten, c
  <2>2. Guards!TypeOK'
    <3>1. DOMAIN w6' \subseteq DOMAIN w4' /\ w4' \in Seq(GuardCalls) /\ w8' \subseteq DOMAIN w4'
      BY <2>1
    <3>2. {w9', w10', w11', w12', w13'} \subseteq Nat /\ w5' \in Nat
      BY <2>1
    <3>3. Len(w18') <= GuardRecent
      BY <1>9, <2>1
    <3> QED BY <1>8, <2>1, <3>1, <3>2, <3>3 DEF Guards!TypeOK
  <2>3. Guards!ReplyTrue'
    BY <1>1, <1>2, <2>1 DEF Guards!ReplyTrue
  <2>4. Guards!FirstRoundCounts' /\ Guards!ProgressSound'
    BY <2>1 DEF Guards!FirstRoundCounts, Guards!ProgressSound
  <2> QED BY <1>6, <1>7, <1>12, <2>1, <2>2, <2>3, <2>4 DEF Guards!GuardsSound
<1> QED BY <1>2, <1>13, <1>14, <1>15

-----------------------------------------------------------------------------
(* The steps of a turn.                                                     *)

\* The call that executeToolCalls runs has no result and is not deferred.
LEMMA GuardRuns ==
    ASSUME Guards!GuardsSound, NEW i, Guards!Running(i)
    PROVE  w3 = "tools" /\ i = w5 /\ i \in DOMAIN w4 /\ i \notin DOMAIN w6 /\ i \notin w8
<1>1. w3 = "tools" /\ i = w5 /\ i \in DOMAIN w4
  BY DEF Guards!Running
<1>2. DOMAIN w6 \cup w8 = 1 .. w5 - 1 /\ w5 \in Nat
  BY <1>1 DEF Guards!GuardsSound, Guards!RoundSound, Guards!TypeOK
<1>3. w5 \notin 1 .. w5 - 1
  BY <1>2
<1> QED BY <1>1, <1>2, <1>3

LEMMA GuardRefusals ==
    ASSUME NEW i, NEW o \in {Guards!NotAllowed, Guards!MissingUrl, Guards!SentBefore}
    PROVE  o.success = FALSE /\ ~GuardEntry(i, o).ran
<1>1. GuardEntry(i, o).ran = FALSE
  BY DEF GuardEntry
<1>2. o.success = FALSE
  <2>1. \A why : Guards!Refusal(why).success = FALSE
    BY DEF Guards!Refusal
  <2>2. \E why : o = Guards!Refusal(why)
    BY DEF Guards!NotAllowed, Guards!MissingUrl, Guards!SentBefore
  <2> QED BY <2>1, <2>2
<1> QED BY <1>1, <1>2

LEMMA GuardRefuseStep ==
    ASSUME Guards!GuardsSound, NEW i, Guards!Refuse(i)
    PROVE  Guards!GuardsSound'
<1>1. w3 = "tools" /\ i = w5 /\ i \in DOMAIN w4 /\ i \notin DOMAIN w6
  BY GuardRuns DEF Guards!Refuse
<1>2. w7 \in BOOLEAN /\ UNCHANGED <<w1, w2>>
  BY DEF Guards!GuardsSound, Guards!TypeOK, Guards!Refuse
<1>3. PICK o \in {Guards!NotAllowed, Guards!MissingUrl, Guards!SentBefore}, filled \in BOOLEAN :
          Guards!Submit(i, o, i + 1, w16, filled)
  <2>1. (w7 \/ Guards!NoUrl(w4[i])) \in BOOLEAN
    OBVIOUS
  <2> QED BY <1>2, <2>1 DEF Guards!Refuse
<1>4. o.success \in BOOLEAN /\ NewFetch(GuardEntry(i, o), w20, w4, w8 \ {i}, w16)
  BY GuardRefusals DEF NewFetch
<1>5. i = w5 /\ i + 1 = w5 + 1
  BY <1>1
<1> QED BY <1>1, <1>2, <1>3, <1>4, <1>5, GuardSubmitStep

LEMMA GuardDeferStep ==
    ASSUME Guards!GuardsSound, NEW i, Guards!Running(i),
           w4[i].tool = "web_fetch" => Guards!Sent(w4[i]) \notin w16,
           w8' = w8 \cup {i}, w5' = i + 1,
           w16' = IF w4[i].tool = "web_fetch" THEN w16 \cup {Guards!Sent(w4[i])} ELSE w16,
           w7' \in BOOLEAN,
           UNCHANGED <<w1, w2, w3, w4, w6, w9, w10, w11, w12, w13, w14, w15, w17, w18, w19, w20>>
    PROVE  Guards!GuardsSound'
<1>1. w3 = "tools" /\ i = w5 /\ i \in DOMAIN w4 /\ i \notin DOMAIN w6 /\ i \notin w8
  BY GuardRuns
<1>2. Guards!TypeOK /\ Guards!RoundSound /\ Guards!CountersTrue /\ Guards!ProgressSound
  BY <1>1 DEF Guards!GuardsSound
<1>3. Guards!TypeOK'
  <2>1. w5 \in Nat /\ w8 \subseteq DOMAIN w4
    BY <1>2 DEF Guards!TypeOK
  <2>2. w5' \in Nat /\ w8' \subseteq DOMAIN w4
    BY <1>1, <2>1
  <2> QED BY <1>2, <2>2 DEF Guards!TypeOK
<1>4. Guards!FetchSound'
  <2>1. RanKnown(w20, w16) /\ DeferredKnown(w20, w4, w8, w16)
    BY <1>1, GuardFetches DEF Guards!GuardsSound
  <2>2. RanKnown(w20, w16') /\ DeferredKnown(w20, w4, w8 \cup {i}, w16')
    BY <2>1, FetchDeferred
  <2>3. (Guards!FetchSound <=> RanKnown(w20, w16) /\ DeferredKnown(w20, w4, w8, w16))'
    BY GuardFetches, PTL
  <2> QED BY <2>2, <2>3
<1>5. Guards!RoundSound'
  <2>1. Len(w4) \in 1 .. GuardRound /\ DOMAIN w6 \cup w8 = 1 .. w5 - 1 /\ DOMAIN w6 \cap w8 = {} /\ w5 \in Nat
    BY <1>2 DEF Guards!RoundSound, Guards!TypeOK
  <2>2. i \in 1 .. Len(w4)
    BY <1>1, <1>2 DEF Guards!TypeOK
  <2>3. 1 .. w5' - 1 = (1 .. w5 - 1) \cup {i}
    BY <1>1, <2>1, <2>2
  <2>4. DOMAIN w6 \cup w8' = 1 .. w5' - 1 /\ DOMAIN w6 \cap w8' = {}
    BY <1>1, <2>1, <2>3
  <2> QED BY <1>2, <2>1, <2>4 DEF Guards!RoundSound
<1>6. Guards!CountersTrue'
  BY <1>1, <1>2 DEF Guards!CountersTrue
<1>7. Guards!ProgressSound'
  BY <1>2 DEF Guards!ProgressSound
<1>8. Guards!ReplyTrue' /\ Guards!FetchedOnce' /\ Guards!WithinLimits' /\ Guards!FirstRoundCounts'
  BY DEF Guards!GuardsSound, Guards!ReplyTrue, Guards!FetchedOnce, Guards!WithinLimits, Guards!FirstRoundCounts
<1> QED BY <1>1, <1>3, <1>4, <1>5, <1>6, <1>7, <1>8 DEF Guards!GuardsSound

LEMMA GuardRunStep ==
    ASSUME Guards!GuardsSound, NEW i, Guards!Run(i)
    PROVE  Guards!GuardsSound'
<1>1. w3 = "tools" /\ i = w5 /\ i \in DOMAIN w4 /\ i \notin DOMAIN w6 /\ i \notin w8
  BY GuardRuns DEF Guards!Run
<1> DEFINE known  == IF w4[i].tool = "web_fetch" THEN w16 \cup {Guards!Sent(w4[i])} ELSE w16
           filled == w7 \/ Guards!NoUrl(w4[i])
<1>2. /\ w4[i].tool = "web_fetch" => Guards!Sent(w4[i]) \notin w16
      /\ UNCHANGED <<w1, w2>>
      /\ \/ \E o \in GuardOutcomes : Guards!Submit(i, o, i + 1, known, filled)
         \/ /\ w8' = w8 \cup {i} /\ w5' = i + 1 /\ w16' = known /\ w7' = filled
            /\ UNCHANGED <<w3, w4, w6, w9, w10, w11, w12, w13, w14, w15, w17, w18, w19, w20>>
  BY DEF Guards!Run, Guards!IsFetch, Guards!Remembered
<1>3. filled \in BOOLEAN
  OBVIOUS
<1> HIDE DEF filled
<1>4. CASE \E o \in GuardOutcomes : Guards!Submit(i, o, i + 1, known, filled)
  <2>1. PICK o \in GuardOutcomes : Guards!Submit(i, o, i + 1, known, filled)
    BY <1>4
  <2>2. o.success \in BOOLEAN
    BY GuardConstants
  <2>3. NewFetch(GuardEntry(i, o), w20, w4, w8 \ {i}, known)
    <3>1. /\ GuardEntry(i, o).tool = w4[i].tool
          /\ Guards!Sent(GuardEntry(i, o)) = Guards!Sent(w4[i])
      BY DEF GuardEntry, Guards!Sent, Guards!NoUrl, Guards!IsFetch
    <3>2. RanKnown(w20, w16) /\ DeferredKnown(w20, w4, w8, w16)
      BY <1>1, GuardFetches DEF Guards!GuardsSound
    <3> QED BY <1>2, <3>1, <3>2 DEF NewFetch, RanKnown, DeferredKnown
  <2>4. w16 \subseteq known
    OBVIOUS
  <2> HIDE DEF known
  <2> QED BY <1>1, <1>2, <1>3, <2>1, <2>2, <2>3, <2>4, GuardSubmitStep
<1>5. CASE /\ w8' = w8 \cup {i} /\ w5' = i + 1 /\ w16' = known /\ w7' = filled
           /\ UNCHANGED <<w3, w4, w6, w9, w10, w11, w12, w13, w14, w15, w17, w18, w19, w20>>
  <2>1. Guards!Running(i)
    BY DEF Guards!Run
  <2> QED BY <1>2, <1>3, <1>5, <2>1, GuardDeferStep
<1> QED BY <1>2, <1>4, <1>5

LEMMA GuardDeferredStep ==
    ASSUME Guards!GuardsSound, NEW i, Guards!DeferredResult(i)
    PROVE  Guards!GuardsSound'
<1>1. w3 = "tools" /\ i \in w8 /\ UNCHANGED <<w1, w2>>
  BY DEF Guards!DeferredResult
<1>2. PICK o \in GuardOutcomes : Guards!Submit(i, o, w5, w16, w7)
  BY DEF Guards!DeferredResult
<1>3. o.success \in BOOLEAN /\ w7 \in BOOLEAN
  BY GuardConstants DEF Guards!GuardsSound, Guards!TypeOK
<1>4. i \in DOMAIN w4 /\ i \notin DOMAIN w6
  BY <1>1 DEF Guards!GuardsSound, Guards!TypeOK, Guards!RoundSound
<1>5. NewFetch(GuardEntry(i, o), w20, w4, w8 \ {i}, w16)
  <2>1. /\ GuardEntry(i, o).tool = w4[i].tool
        /\ Guards!Sent(GuardEntry(i, o)) = Guards!Sent(w4[i])
    BY DEF GuardEntry, Guards!Sent, Guards!NoUrl, Guards!IsFetch
  <2>2. RanKnown(w20, w16) /\ DeferredKnown(w20, w4, w8, w16)
    BY <1>1, GuardFetches DEF Guards!GuardsSound
  <2> QED BY <1>1, <2>1, <2>2 DEF NewFetch, RanKnown, DeferredKnown
<1> QED BY <1>1, <1>2, <1>3, <1>4, <1>5, GuardSubmitStep

-----------------------------------------------------------------------------
(* The policy, and the turns around the rounds.                             *)

\* A limit that is saved or read is within its bounds.
LEMMA GuardBounded ==
    ASSUME NEW of, \A l \in GuardLimits : of[l] \in Int
    PROVE  /\ Guards!BoundedPolicy(of) \in [GuardLimits -> Nat]
           /\ \A l \in GuardLimits : Guards!BoundedPolicy(of)[l] \in GuardLowest[l] .. GuardHighest[l]
<1>1. /\ GuardLowest \in [GuardLimits -> Nat] /\ GuardHighest \in [GuardLimits -> Nat]
      /\ \A l \in GuardLimits : GuardDefaults[l] \in GuardLowest[l] .. GuardHighest[l]
      /\ GuardDefaults \in [GuardLimits -> Nat] /\ Guards!Limit = GuardLimits
  BY GuardConstants
<1> HIDE DEF GuardLimits
<1>2. \A l \in GuardLimits : GuardLowest[l] \in Nat /\ GuardHighest[l] \in Nat /\ GuardLowest[l] <= GuardHighest[l]
  BY <1>1
<1>3. \A n, low, high : n \in Int /\ low \in Nat /\ high \in Nat /\ low <= high
          => Guards!Bounded(n, low, high) \in low .. high
  BY DEF Guards!Bounded
<1>4. Guards!BoundedPolicy(of) = [l \in GuardLimits |-> Guards!Bounded(of[l], GuardLowest[l], GuardHighest[l])]
  BY <1>1 DEF Guards!BoundedPolicy
<1>5. \A l \in GuardLimits : Guards!Bounded(of[l], GuardLowest[l], GuardHighest[l]) \in GuardLowest[l] .. GuardHighest[l]
  BY <1>2, <1>3
<1>6. \A l \in GuardLimits : Guards!Bounded(of[l], GuardLowest[l], GuardHighest[l]) \in Nat
  <2>1. \A n, low, high : low \in Nat /\ high \in Nat /\ n \in low .. high => n \in Nat
    OBVIOUS
  <2> QED BY <1>2, <1>5, <2>1
<1> QED BY <1>4, <1>5, <1>6

\* The file keeps its type, and so do the limits that are read from it.
GuardFile == w1 \in [schema : Int, of : [GuardLimits -> Nat \cup {-1}]]

LEMMA GuardLoaded ==
    ASSUME GuardFile
    PROVE  /\ Guards!LoadedPolicy \in [schema : Int, of : [GuardLimits -> Nat \cup {-1}]]
           /\ \A l \in GuardLimits : Guards!LoadedPolicy.of[l] \in Int
           /\ \A l \in GuardLimits : (IF w1.of[l] # Guards!Absent THEN w1.of[l]
                                      ELSE IF l = "time" THEN 0 ELSE GuardDefaults[l]) \in Int
<1>1. /\ GuardDefaults \in [GuardLimits -> Nat] /\ Guards!Limit = GuardLimits /\ Guards!Absent = -1
      /\ w1.schema \in Int /\ w1.of \in [GuardLimits -> Nat \cup {-1}]
  BY GuardConstants DEF Guards!Absent, GuardFile
<1> HIDE DEF GuardLimits
<1>2. Guards!LoadedPolicy \in [schema : Int, of : [GuardLimits -> Nat \cup {-1}]]
  <2>1. CASE w1.schema # Guards!Schema
    <3>1. Guards!LoadedPolicy = [schema |-> 5, of |-> GuardDefaults]
      BY <2>1 DEF Guards!LoadedPolicy, Guards!Schema
    <3>2. GuardDefaults \in [GuardLimits -> Nat \cup {-1}]
      BY <1>1
    <3> QED BY <3>1, <3>2
  <2>2. CASE w1.schema = Guards!Schema
    <3> DEFINE g == [l \in GuardLimits |-> IF w1.of[l] = -1 THEN GuardDefaults[l] ELSE w1.of[l]]
    <3>1. Guards!LoadedPolicy = [w1 EXCEPT !.of = g]
      BY <1>1, <2>2 DEF Guards!LoadedPolicy
    <3>2. g \in [GuardLimits -> Nat \cup {-1}]
      BY <1>1
    <3> HIDE DEF g
    <3> QED BY <3>1, <3>2 DEF GuardFile
  <2> QED BY <2>1, <2>2
<1>3. \A l \in GuardLimits : Guards!LoadedPolicy.of[l] \in Int
  BY <1>2
<1>4. \A l \in GuardLimits : w1.of[l] \in Int /\ GuardDefaults[l] \in Int
  BY <1>1
<1> QED BY <1>2, <1>3, <1>4

\* A policy that is saved.
LEMMA GuardSaveStep ==
    ASSUME Guards!GuardsSound, NEW of, \A l \in GuardLimits : of[l] \in Int, Guards!SavePolicy(of)
    PROVE  Guards!GuardsSound'
<1>1. /\ w3 = "idle" /\ w1' = [schema |-> 5, of |-> Guards!BoundedPolicy(of)]
      /\ UNCHANGED <<w2, w3, w4, w5, w6, w7, w8, w9, w10, w11, w12, w13, w14, w15, w16, w17, w18, w19, w20>>
  BY DEF Guards!SavePolicy, Guards!round, Guards!guards, Guards!Schema
<1>2. Guards!BoundedPolicy(of) \in [GuardLimits -> Nat]
  BY GuardBounded
<1>3. Guards!Limit = GuardLimits /\ Guards!Absent = -1
  BY GuardConstants DEF Guards!Absent
<1>4. /\ w1' \in [schema : Int, of : [Guards!Limit -> Nat \cup {Guards!Absent}]]
      /\ w1'.of \in [Guards!Limit -> Nat \cup {Guards!Absent}]
  BY <1>1, <1>2, <1>3
<1>5. Guards!TypeOK'
  BY <1>1, <1>4 DEF Guards!TypeOK, Guards!GuardsSound
<1>6. Guards!ReplyTrue' /\ Guards!FetchedOnce' /\ Guards!WithinLimits' /\ Guards!FirstRoundCounts'
      /\ Guards!ProgressSound'
  BY <1>1 DEF Guards!GuardsSound, Guards!ReplyTrue, Guards!FetchedOnce, Guards!WithinLimits,
              Guards!FirstRoundCounts, Guards!ProgressSound
<1> QED BY <1>1, <1>4, <1>5, <1>6 DEF Guards!GuardsSound

\* A turn without results: it is about to begin, or it is over.
LEMMA GuardEmpty ==
    /\ Guards!Cardinality(Guards!Fetched(<<>>)) = 0 /\ Guards!Cardinality(Guards!Unsuccessful(<<>>)) = 0
    /\ Guards!Last(<<>>) = <<>> /\ <<>> \in Seq(GuardEntries) /\ Guards!Cardinality({}) = 0
    /\ \A kn, cs : OnceIn(<<>>) /\ RanKnown(<<>>, kn) /\ DeferredKnown(<<>>, cs, {}, kn)
<1>1. Guards!Fetched(<<>>) = {} /\ Guards!Unsuccessful(<<>>) = {}
  BY DEF Guards!Fetched, Guards!Unsuccessful
<1>2. Cardinality({}) = 0
  BY FS_EmptySet
<1>3. Guards!Last(<<>>) = <<>>
  <2>1. <<>> \in Seq(GuardEntries) /\ Len(<<>>) = 0
    OBVIOUS
  <2>2. KeptRecent(<<>>) = 0
    BY <2>1, GuardConstants DEF KeptRecent
  <2>3. Guards!Last(<<>>) \in [1 .. 0 -> {Summary(d) : d \in GuardEntries}]
    BY <2>1, <2>2, LastOf
  <2>4. Guards!Last(<<>>) \in Seq({Summary(d) : d \in GuardEntries})
    BY <2>3, SeqDef
  <2>5. Len(Guards!Last(<<>>)) = 0
    BY <2>3, <2>4, LenProperties
  <2> QED BY <2>4, <2>5, EmptySeq
<1>4. \A kn, cs : OnceIn(<<>>) /\ RanKnown(<<>>, kn) /\ DeferredKnown(<<>>, cs, {}, kn)
  BY DEF OnceIn, RanKnown, DeferredKnown
<1> QED BY <1>1, <1>2, <1>3, <1>4, GuardCardinality

\* There is room in a turn that begins.
LEMMA GuardRoom ==
    ASSUME NEW of \in [GuardLimits -> Nat], \A l \in GuardLimits : of[l] \in GuardLowest[l] .. GuardHighest[l]
    PROVE  of.total \in Nat /\ 0 < of.total /\ 0 < of.total + GuardRound
<1>1. "total" \in GuardLimits
  BY DEF GuardLimits
<1>2. GuardLowest.total \in Nat /\ GuardHighest.total \in Nat /\ GuardLowest.total > 0 /\ GuardRound \in Nat
  BY <1>1, GuardConstants
<1>3. of["total"] \in Nat /\ of["total"] \in GuardLowest["total"] .. GuardHighest["total"]
  BY <1>1
<1> QED BY <1>2, <1>3

LEMMA GuardSendStep ==
    ASSUME Guards!GuardsSound, Guards!Send
    PROVE  Guards!GuardsSound'
<1>1. /\ w3 = "idle" /\ w3' = "asked" /\ UNCHANGED <<w4, w5, w6, w7, w8>>
      /\ w1' = Guards!LoadedPolicy /\ w2' = Guards!BoundedPolicy(Guards!LoadedPolicy.of)
      /\ w9' = 0 /\ w10' = 0 /\ w11' = 0 /\ w12' = 0 /\ w13' = 0 /\ w15' = <<>> /\ w16' = {} /\ w17' = FALSE
      /\ w18' = <<>> /\ w20' = <<>>
  BY DEF Guards!Send, Guards!RefreshPolicy, Guards!ResetGuards, Guards!Forgotten, Guards!round
<1>2. Guards!Limit = GuardLimits /\ Guards!Absent = -1 /\ GuardRecent \in Nat
  BY GuardConstants DEF Guards!Absent
<1>3. GuardFile /\ Guards!TypeOK /\ w8 = {}
  BY <1>1, <1>2 DEF Guards!GuardsSound, GuardFile
<1>4. w1' \in [schema : Int, of : [GuardLimits -> Nat \cup {-1}]]
  BY <1>1, <1>3, GuardLoaded
<1>5. w2' \in [GuardLimits -> Nat] /\ \A l \in GuardLimits : w2'[l] \in GuardLowest[l] .. GuardHighest[l]
  <2>1. \A l \in GuardLimits : Guards!LoadedPolicy.of[l] \in Int
    BY <1>3, GuardLoaded
  <2> QED BY <1>1, <2>1, GuardBounded
<1>6. w2'.total \in Nat /\ 0 < w2'.total /\ 0 < w2'.total + GuardRound
  BY <1>5, GuardRoom
<1>7. Guards!TypeOK'
  <2>1. /\ w4' \in Seq(GuardCalls) /\ w5' \in Nat /\ DOMAIN w6' \subseteq DOMAIN w4' /\ w7' \in BOOLEAN
        /\ w8' \subseteq DOMAIN w4'
    BY <1>1, <1>3 DEF Guards!TypeOK
  <2>2. {w9', w10', w11', w12', w13'} \subseteq Nat
    BY <1>1
  <2>6. w17' \in BOOLEAN
    BY <1>1
  <2>7. w3' \in {"idle", "asked", "tools"}
    BY <1>1
  <2>3. Len(w18') <= GuardRecent
    BY <1>1, <1>2
  <2>4. w1'.of \in [Guards!Limit -> Nat \cup {Guards!Absent}]
    BY <1>2, <1>4
  <2>5. w2' \in [Guards!Limit -> Nat] /\ \A l \in Guards!Limit : w2'[l] \in GuardLowest[l] .. GuardHighest[l]
    BY <1>2, <1>5
  <2> QED BY <2>1, <2>2, <2>3, <2>4, <2>5, <2>6, <2>7 DEF Guards!TypeOK
<1>8. Guards!CountersTrue'
  <2>1. w9' = Len(w20') /\ w9' < w2'.total
    BY <1>1, <1>6
  <2>2. w10' = Guards!Cardinality(Guards!Fetched(w20')) /\ w11' = Guards!Cardinality(Guards!Unsuccessful(w20'))
        /\ w18' = Guards!Last(w20')
    BY <1>1, GuardEmpty
  <2> QED BY <1>1, <2>1, <2>2 DEF Guards!CountersTrue
<1>9. Guards!FetchSound' /\ Guards!FetchedOnce'
  <2>1. /\ (Guards!FetchSound <=> RanKnown(w20, w16) /\ DeferredKnown(w20, w4, w8, w16))'
        /\ (Guards!FetchedOnce <=> OnceIn(w20))'
    BY GuardFetches, PTL
  <2>2. OnceIn(w20') /\ RanKnown(w20', w16') /\ DeferredKnown(w20', w4', w8', w16')
    BY <1>1, <1>3, GuardEmpty
  <2> QED BY <2>1, <2>2
<1>10. Guards!ReplyTrue' /\ Guards!FirstRoundCounts' /\ Guards!ProgressSound'
  BY <1>1 DEF Guards!ReplyTrue, Guards!FirstRoundCounts, Guards!ProgressSound
<1>11. Guards!WithinLimits'
  BY <1>1, <1>6 DEF Guards!WithinLimits
<1>12. w20' \in Seq(Guards!Entry)
  BY <1>1
<1> QED BY <1>1, <1>2, <1>3, <1>4, <1>7, <1>8, <1>9, <1>10, <1>11, <1>12 DEF Guards!GuardsSound

LEMMA GuardToolReplyStep ==
    ASSUME Guards!GuardsSound, Guards!ToolReply
    PROVE  Guards!GuardsSound'
<1>1. PICK n \in 1 .. GuardRound : w4' \in [1 .. n -> GuardCalls]
  BY DEF Guards!ToolReply
<1>2. /\ w3 = "asked" /\ w3' = "tools" /\ w5' = 1 /\ w6' = <<>> /\ w7' = FALSE
      /\ UNCHANGED <<w1, w2, w8, w9, w10, w11, w12, w13, w14, w15, w16, w17, w18, w19, w20>>
  BY DEF Guards!ToolReply, Guards!guards
<1>3. Guards!TypeOK /\ w8 = {} /\ Guards!CountersTrue /\ Guards!FetchSound /\ Guards!ProgressSound
  BY <1>2 DEF Guards!GuardsSound
<1>4. GuardRound \in Nat /\ Guards!Limit = GuardLimits
  BY GuardConstants
<1>5. w4' \in Seq(GuardCalls) /\ Len(w4') = n
  <2>1. w4' \in Seq(GuardCalls)
    BY <1>1, <1>4, SeqDef
  <2> QED BY <1>1, <1>4, <2>1, LenProperties
<1>6. DOMAIN w6' = {} /\ w8' = {}
  BY <1>2, <1>3
<1>7. Guards!TypeOK'
  <2>1. w5' \in Nat /\ DOMAIN w6' \subseteq DOMAIN w4' /\ w8' \subseteq DOMAIN w4'
    BY <1>2, <1>6
  <2> QED BY <1>2, <1>3, <1>5, <2>1 DEF Guards!TypeOK
<1>8. Guards!RoundSound'
  <2>1. Len(w4') \in 1 .. GuardRound
    BY <1>5
  <2>2. 1 .. w5' - 1 = {}
    BY <1>2
  <2> QED BY <1>6, <2>1, <2>2 DEF Guards!RoundSound
<1>9. Guards!CountersTrue'
  <2>1. w9 < w2.total /\ w9 \in Nat /\ w2.total \in Nat
    BY <1>2, <1>3, <1>4 DEF Guards!CountersTrue, Guards!TypeOK, GuardLimits
  <2>2. w9' < w2'.total + Guards!Cardinality(DOMAIN w6')
    BY <1>2, <1>6, <2>1, GuardEmpty
  <2> QED BY <1>2, <1>3, <2>2 DEF Guards!CountersTrue
<1>10. Guards!FetchSound'
  <2>1. (Guards!FetchSound <=> RanKnown(w20, w16) /\ DeferredKnown(w20, w4, w8, w16))'
    BY GuardFetches, PTL
  <2>2. RanKnown(w20, w16)
    BY <1>3, GuardFetches
  <2>3. DeferredKnown(w20, w4', {}, w16)
    BY DEF DeferredKnown
  <2> QED BY <1>2, <1>6, <2>1, <2>2, <2>3
<1>11. Guards!ProgressSound' /\ Guards!ReplyTrue' /\ Guards!FetchedOnce' /\ Guards!WithinLimits'
       /\ Guards!FirstRoundCounts'
  BY <1>2 DEF Guards!GuardsSound, Guards!ReplyTrue, Guards!FetchedOnce, Guards!WithinLimits,
              Guards!FirstRoundCounts, Guards!ProgressSound
<1> QED BY <1>2, <1>7, <1>8, <1>9, <1>10, <1>11 DEF Guards!GuardsSound

\* A turn that ends without a reply of the guards.
LEMMA GuardOverStep ==
    ASSUME Guards!GuardsSound, w3' = "idle", w8' = {}, w9' = 0, w10' = 0, w11' = 0, w12' = 0, w13' = 0,
           w15' = <<>>, w17' = FALSE, w18' = <<>>, w20' = <<>>, w19'.why \notin Guards!Guard,
           w4' \in Seq(GuardCalls), w5' \in Nat, DOMAIN w6' \subseteq DOMAIN w4', w7' \in BOOLEAN,
           UNCHANGED <<w1, w2>>
    PROVE  Guards!GuardsSound'
<1>1. Guards!Limit = GuardLimits /\ GuardRecent \in Nat
  BY GuardConstants
<1>2. /\ w2 \in [GuardLimits -> Nat]
      /\ \A l \in GuardLimits : w2[l] \in GuardLowest[l] .. GuardHighest[l]
      /\ w1.of \in [Guards!Limit -> Nat \cup {Guards!Absent}]
  BY <1>1 DEF Guards!GuardsSound, Guards!TypeOK
<1>3. Guards!TypeOK'
  <2>1. {w9', w10', w11', w12', w13'} \subseteq Nat
    OBVIOUS
  <2>2. Len(w18') <= GuardRecent
    BY <1>1
  <2> QED BY <1>1, <1>2, <2>1, <2>2 DEF Guards!TypeOK
<1>4. Guards!WithinLimits'
  <2>1. 0 < w2.total + GuardRound
    BY <1>2, GuardRoom
  <2> QED BY <2>1 DEF Guards!WithinLimits
<1>5. Guards!FetchedOnce'
  BY DEF Guards!FetchedOnce
<1>6. Guards!ReplyTrue' /\ Guards!FirstRoundCounts' /\ Guards!ProgressSound'
  BY DEF Guards!ReplyTrue, Guards!FirstRoundCounts, Guards!ProgressSound
<1>7. w1' \in [schema : Int, of : [Guards!Limit -> Nat \cup {Guards!Absent}]] /\ w20' \in Seq(Guards!Entry)
  BY DEF Guards!GuardsSound
<1> QED BY <1>3, <1>4, <1>5, <1>6, <1>7 DEF Guards!GuardsSound

LEMMA GuardEndStep ==
    ASSUME Guards!GuardsSound, Guards!LastReply \/ Guards!Abort
    PROVE  Guards!GuardsSound'
<1>1. CASE Guards!LastReply
  <2>1. /\ w3 = "asked" /\ w3' = "idle" /\ w19' = Guards!Ended("model")
        /\ w9' = 0 /\ w10' = 0 /\ w11' = 0 /\ w12' = 0 /\ w13' = 0 /\ w15' = <<>> /\ w17' = FALSE
        /\ w18' = <<>> /\ w20' = <<>> /\ UNCHANGED <<w1, w2, w4, w5, w6, w7, w8>>
    BY <1>1 DEF Guards!LastReply, Guards!ResetGuards, Guards!Forgotten, Guards!round
  <2>2. w19'.why \notin Guards!Guard
    BY <2>1 DEF Guards!Ended, Guards!Guard
  <2>3. w8' = {} /\ w4' \in Seq(GuardCalls) /\ w5' \in Nat /\ DOMAIN w6' \subseteq DOMAIN w4' /\ w7' \in BOOLEAN
    BY <2>1 DEF Guards!GuardsSound, Guards!TypeOK
  <2> QED BY <2>1, <2>2, <2>3, GuardOverStep
<1>2. CASE Guards!Abort
  <2>1. /\ w3' = "idle" /\ w19' = Guards!Ended("stopped") /\ w4' = <<>> /\ w5' = 1 /\ w6' = <<>>
        /\ w7' = FALSE /\ w8' = {}
        /\ w9' = 0 /\ w10' = 0 /\ w11' = 0 /\ w12' = 0 /\ w13' = 0 /\ w15' = <<>> /\ w17' = FALSE
        /\ w18' = <<>> /\ w20' = <<>> /\ UNCHANGED <<w1, w2>>
    BY <1>2 DEF Guards!Abort, Guards!ResetState, Guards!ResetGuards, Guards!Forgotten
  <2>2. w19'.why \notin Guards!Guard
    BY <2>1 DEF Guards!Ended, Guards!Guard
  <2>3. w4' \in Seq(GuardCalls) /\ w5' \in Nat /\ DOMAIN w6' \subseteq DOMAIN w4'
    BY <2>1
  <2>4. w7' \in BOOLEAN
    BY <2>1
  <2> QED BY <2>1, <2>2, <2>3, <2>4, GuardOverStep
<1> QED BY <1>1, <1>2

LEMMA GuardsInit == Guards!Init => Guards!GuardsSound
<1> SUFFICES ASSUME Guards!Init PROVE Guards!GuardsSound
  OBVIOUS
<1>1. /\ w1 \in GuardPolicies /\ w2 = GuardDefaults /\ w3 = "idle" /\ w4 = <<>> /\ w5 = 1 /\ w6 = <<>>
      /\ w7 = FALSE /\ w8 = {} /\ w9 = 0 /\ w10 = 0 /\ w11 = 0 /\ w12 = 0 /\ w13 = 0
      /\ w15 = <<>> /\ w17 = FALSE /\ w18 = <<>> /\ w19 = Guards!Ended("none") /\ w20 = <<>>
  BY DEF Guards!Init
<1>2. /\ Guards!Limit = GuardLimits /\ Guards!Absent = -1 /\ GuardRecent \in Nat
      /\ w1 \in [schema : Int, of : [GuardLimits -> Nat \cup {-1}]]
      /\ w2 \in [GuardLimits -> Nat] /\ \A l \in GuardLimits : w2[l] \in GuardLowest[l] .. GuardHighest[l]
  BY <1>1, GuardConstants DEF Guards!Absent
<1>3. Guards!TypeOK
  <2>1. {w9, w10, w11, w12, w13} \subseteq Nat /\ w5 \in Nat
    BY <1>1
  <2>2. Len(w18) <= GuardRecent
    BY <1>1, <1>2
  <2>3. w4 \in Seq(GuardCalls) /\ DOMAIN w6 \subseteq DOMAIN w4 /\ w8 \subseteq DOMAIN w4
    BY <1>1
  <2>4. w1.of \in [Guards!Limit -> Nat \cup {Guards!Absent}]
    BY <1>2
  <2> QED BY <1>1, <1>2, <2>1, <2>2, <2>3, <2>4 DEF Guards!TypeOK
<1>4. Guards!WithinLimits
  <2>1. 0 < w2.total + GuardRound
    BY <1>2, GuardRoom
  <2> QED BY <1>1, <2>1 DEF Guards!WithinLimits
<1>5. w19.why \notin Guards!Guard
  BY <1>1 DEF Guards!Ended, Guards!Guard
<1>6. Guards!ReplyTrue /\ Guards!FirstRoundCounts /\ Guards!ProgressSound /\ Guards!FetchedOnce
  BY <1>1, <1>5 DEF Guards!ReplyTrue, Guards!FirstRoundCounts, Guards!ProgressSound, Guards!FetchedOnce
<1>7. w20 \in Seq(Guards!Entry)
  BY <1>1
<1> QED BY <1>1, <1>2, <1>3, <1>4, <1>6, <1>7 DEF Guards!GuardsSound

LEMMA GuardsStep ==
    ASSUME Guards!GuardsSound, Guards!Next
    PROVE  Guards!GuardsSound'
<1>1. CASE Guards!SavePolicy(Guards!ShownPolicy) \/ Guards!SavePolicy(GuardLowest)
  <2>1. GuardFile /\ Guards!Limit = GuardLimits
    BY GuardConstants DEF Guards!GuardsSound, GuardFile, Guards!Absent
  <2>2. \A l \in GuardLimits : Guards!ShownPolicy[l] \in Int
    <3> DEFINE of == [l \in GuardLimits |-> IF w1.of[l] # Guards!Absent THEN w1.of[l]
                                            ELSE IF l = "time" THEN 0 ELSE GuardDefaults[l]]
    <3>1. \A l \in GuardLimits : of[l] \in Int
      BY <2>1, GuardLoaded
    <3>2. Guards!ShownPolicy = Guards!BoundedPolicy(of)
      BY <2>1 DEF Guards!ShownPolicy
    <3> HIDE DEF of
    <3>3. Guards!BoundedPolicy(of) \in [GuardLimits -> Nat]
      BY <3>1, GuardBounded
    <3> HIDE DEF GuardLimits
    <3> QED BY <3>2, <3>3
  <2>3. \A l \in GuardLimits : GuardLowest[l] \in Int
    <3> HIDE DEF GuardLimits
    <3> QED BY GuardConstants
  <2> QED BY <1>1, <2>2, <2>3, GuardSaveStep
<1>2. CASE Guards!Send
  BY <1>2, GuardSendStep
<1>3. CASE Guards!ToolReply
  BY <1>3, GuardToolReplyStep
<1>4. CASE Guards!LastReply \/ Guards!Abort
  BY <1>4, GuardEndStep
<1>5. CASE Guards!RunTools
  BY <1>5, GuardRefuseStep, GuardRunStep DEF Guards!RunTools
<1>6. CASE \E i \in 1 .. GuardRound : Guards!DeferredResult(i)
  BY <1>6, GuardDeferredStep
<1> QED BY <1>1, <1>2, <1>3, <1>4, <1>5, <1>6 DEF Guards!Next

\* In every behaviour of the tool loop, for any calls, results, policy files and limits,
\* the reply of a turn that the guards stop tells what the turn did, the same web_fetch
\* runs once in it, it collects no more results than its limit and the rest of a round,
\* and its first round counts as progress.
THEOREM ToolLimits == PartSpec => []GuardsTrue
<1> DEFINE LimitsSound == part = "guards" => Guards!GuardsSound
<1>1. PartInit => LimitsSound
  BY GuardsInit DEF PartInit
<1>2. LimitsSound /\ [PartNext]_<<part, vars, Spare0>> => LimitsSound'
  <2> SUFFICES ASSUME LimitsSound, [PartNext]_<<part, vars, Spare0>>, part' = "guards" PROVE Guards!GuardsSound'
    OBVIOUS
  <2>1. part' = part
    BY DEF PartNext
  <2>2. Guards!GuardsSound
    BY <2>1
  <2>3. CASE Guards!Next
    BY <2>2, <2>3, GuardsStep
  <2>4. CASE UNCHANGED Spare0
    <3>1. UNCHANGED <<w1, w2, w3, w4, w5, w6, w7, w8, w9, w10, w11, w12, w13, w14, w15, w16, w17, w18, w19, w20>>
      BY <2>4 DEF Spare0
    <3>2. Guards!TypeOK' /\ Guards!ReplyTrue' /\ Guards!FetchedOnce' /\ Guards!WithinLimits'
          /\ Guards!FirstRoundCounts' /\ Guards!ProgressSound'
      BY <2>2, <3>1 DEF Guards!GuardsSound, Guards!TypeOK, Guards!ReplyTrue, Guards!FetchedOnce,
                        Guards!WithinLimits, Guards!FirstRoundCounts, Guards!ProgressSound
    <3>3. (w3 # "idle" => Guards!CountersTrue' /\ Guards!FetchSound') /\ (w3 = "tools" => Guards!RoundSound')
      BY <2>2, <3>1 DEF Guards!GuardsSound, Guards!CountersTrue, Guards!FetchSound, Guards!RoundSound
    <3> QED BY <2>2, <3>1, <3>2, <3>3 DEF Guards!GuardsSound
  <2> QED BY <2>1, <2>3, <2>4 DEF PartNext
<1>3. LimitsSound => GuardsTrue
  BY DEF GuardsTrue, Guards!GuardsSound
<1> HIDE DEF LimitsSound
<1> QED BY <1>1, <1>2, <1>3, PTL DEF PartSpec

=============================================================================
