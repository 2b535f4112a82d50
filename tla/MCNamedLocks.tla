---------------------------- MODULE MCNamedLocks ------------------------------
(* Instances of NamedLocks for TLC: two or three owners, one resource.      *)
EXTENDS NamedLocks

CONSTANTS o1, o2, o3, r1
==============================================================================
