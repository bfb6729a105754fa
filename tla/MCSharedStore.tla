--------------------------- MODULE MCSharedStore ---------------------------
(* Instances of SharedStore for TLC: a desktop and a command line.         *)
EXTENDS SharedStore

CONSTANTS gui, cli, s1, s2
=============================================================================
