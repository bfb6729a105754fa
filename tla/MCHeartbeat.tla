----------------------------- MODULE MCHeartbeat -----------------------------
(* Instances of Heartbeat for TLC.                                         *)
EXTENDS Heartbeat, TLC

CONSTANTS sum1, sum2
=============================================================================
