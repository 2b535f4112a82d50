----------------------------- MODULE MCRecurring ------------------------------
(* Instances of Recurring for TLC: two pollers, one or two templates.        *)
EXTENDS Recurring

CONSTANTS p1, p2, t1, t2
==============================================================================
