--------------------------- MODULE MCTurnPipeline ---------------------------
(* Instances of TurnPipeline for TLC.                                      *)
EXTENDS TurnPipeline, TLC

CONSTANTS a1, a2, s1, s2, s3

\* One agent with all the sessions.
OneAgent == [s \in Sessions |-> a1]

\* With one agent the sessions are interchangeable (safety runs only).
SessionSymmetry == Permutations(Sessions)

\* Two agents; the first has two sessions.
TwoAgents == [s \in Sessions |-> IF s = s3 THEN a2 ELSE a1]
=============================================================================
