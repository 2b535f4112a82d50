--------------------------- MODULE MCServerRegistry ---------------------------
(* Instances of ServerRegistry for TLC: two runs of servers, one job.         *)
EXTENDS ServerRegistry

CONSTANTS s1, s2, j1
==============================================================================
