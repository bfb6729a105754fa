---------------------------- MODULE MCTeammates -----------------------------
(* The instance of Teammates for TLC.                                      *)
EXTENDS Teammates

CONSTANTS c1, c2, t1

\* Bound: beside the codex mate c1 there is either another one, so that their
\* creations nest, or a tmagent mate, whose states would only multiply.
OneBeside == phase[c2] = "new" \/ phase[t1] = "new"
=============================================================================
