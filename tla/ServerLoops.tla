----------------------------- MODULE ServerLoops ------------------------------
(***************************************************************************)
(* What the loops that every BackgroundJobServer runs beside its workers   *)
(* have in common: the storage they share with the loops of other servers, *)
(* calls that take time, and calls that fail.  ServerRegistry has the      *)
(* heartbeat worker, Recurring the poller of cron templates.               *)
(***************************************************************************)
EXTENDS Integers

CONSTANTS Backends,   \* those looked at, of "atomic" (MemoryStorage, Postgres) and "redis"
          MaxLag,     \* bound: how late, or how long, one tick of a loop may be
          MaxFaults   \* bound: calls that fail, loops that are aborted or crash

ASSUME LoopsAssumption ==
    /\ Backends \subseteq {"atomic", "redis"}
    /\ MaxLag \in Nat /\ MaxFaults \in Nat

VARIABLES backend,    \* the storage the application was built with
          faults      \* how many there were

==============================================================================
