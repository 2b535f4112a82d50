----------------------------- MODULE NamedLocks ------------------------------
(***************************************************************************)
(* The generic named locks of the three backends (the NamedLocks impls of  *)
(* storage/memory.rs, storage/postgres.rs and storage/redis.rs) as their   *)
(* callers see them.                                                       *)
(*                                                                         *)
(* Each operation is one atomic storage step (a write-locked section, one  *)
(* SQL statement, one Lua script).  What is not atomic is its notion of    *)
(* now: MemoryStorage reads the clock before it waits for the write lock,  *)
(* Postgres' NOW() is the start of the statement, before it waits for the  *)
(* row.  A caller counts its ttl from the moment it makes the call.        *)
(***************************************************************************)
EXTENDS Integers

CONSTANTS Resources, Owners, NoOwner,
          Backends,    \* the backends looked at, of "memory", "postgres" and "redis"
          Ttls,        \* ttls callers ask for, in ticks
          MaxWait,     \* bound: ticks a call may wait between clock and effect
          Skew         \* how far the sweeping server's clock is ahead of the database's

ASSUME LockAssumption ==
    /\ NoOwner \notin Owners
    /\ Backends \subseteq {"memory", "postgres", "redis"}
    /\ Ttls \subseteq Nat
    /\ MaxWait \in Nat
    /\ Skew \in Int

VARIABLES
    backend, \* the storage the application was built with
    lock,    \* [Resources -> entry]: the lock table; left is expires_at - now
    call,    \* [Owners -> the try_acquire_lock in flight and its age]
    lease    \* [Owners -> [Resources -> Int]]: what is left of the ttl the owner was granted

vars == <<backend, lock, call, lease>>

NoEntry == [owner |-> NoOwner, left |-> 0]
NoCall == [open |-> FALSE, res |-> NoOwner, ttl |-> 0, age |-> 0]

Held(o, r) == lease[o][r] > 0

TypeOK ==
    /\ backend \in Backends
    /\ lock \in [Resources -> [owner: Owners \cup {NoOwner}, left: Int]]
    /\ call \in [Owners -> [open: BOOLEAN, res: Resources \cup {NoOwner}, ttl: Nat, age: Nat]]
    /\ \A o \in Owners : call[o].open => call[o].res \in Resources
    /\ lease \in [Owners -> [Resources -> Int]]

Init ==
    /\ backend \in Backends
    /\ lock = [r \in Resources |-> NoEntry]
    /\ call = [o \in Owners |-> NoCall]
    /\ lease = [o \in Owners |-> [r \in Resources |-> 0]]

(***************************************************************************)
(* Whether a call that read the clock `age` ticks ago takes the entry for  *)
(* one that blocks another owner.  Redis has no entry left once PX is over.*)
(***************************************************************************)
MemoryLive(entry, age) == entry.left + age > 0         \* expires_at > now
PostgresLive(entry, age) == ~(entry.left + age < 0)    \* NOT expires_at < NOW()
RedisLive(entry) == entry.left > 0                     \* GET finds the key

\* Mutant: somebody else's entry is refreshed like one's own.
LiveForgets(entry, age) == FALSE

Live(entry, age) ==
    /\ entry.owner # NoOwner
    /\ CASE backend = "memory"   -> MemoryLive(entry, age)
         [] backend = "postgres" -> PostgresLive(entry, age)
         [] backend = "redis"    -> RedisLive(entry)

\* expires_at is computed from the clock read first; Redis counts from the SET.
Stamp(ttl, age) == IF backend = "redis" THEN ttl ELSE ttl - age

\* The caller makes the call and counts its ttl from here.
Invoke(o, r, ttl) ==
    /\ ~call[o].open
    /\ call' = [call EXCEPT ![o] = [open |-> TRUE, res |-> r, ttl |-> ttl, age |-> 0]]
    /\ UNCHANGED <<backend, lock, lease>>

\* try_acquire_lock takes effect: free, expired or the caller's own.
TryAcquireLock(o) ==
    LET c == call[o] IN
    /\ c.open
    /\ IF Live(lock[c.res], c.age) /\ lock[c.res].owner # o
       THEN UNCHANGED <<lock, lease>>
       ELSE /\ lock' = [lock EXCEPT ![c.res] = [owner |-> o, left |-> Stamp(c.ttl, c.age)]]
            /\ lease' = [lease EXCEPT ![o][c.res] = c.ttl - c.age]
    /\ call' = [call EXCEPT ![o] = NoCall]
    /\ UNCHANGED backend

\* Mutant: release_lock forgets to compare the owner.
ReleaseAny(o, r) ==
    /\ lock' = [lock EXCEPT ![r] = NoEntry]
    /\ lease' = [lease EXCEPT ![o][r] = 0]
    /\ UNCHANGED <<backend, call>>

\* release_lock: the entry goes only if it is still the caller's.  The caller
\* considers itself released in either case.
ReleaseLock(o, r) ==
    /\ lock' = IF lock[r].owner = o THEN [lock EXCEPT ![r] = NoEntry] ELSE lock
    /\ lease' = [lease EXCEPT ![o][r] = 0]
    /\ UNCHANGED <<backend, call>>

PostgresSwept(entry) == entry.left < Skew

\* Mutant: the sweep drops the live entries and keeps the expired ones.
SweptInverted(entry) == entry.left > 0

\* Which entries cleanup_expired_named_locks removes, by the clock of the
\* server that sweeps; for Redis the server's own PX expiry.
Swept(entry) ==
    /\ entry.owner # NoOwner
    /\ IF backend = "postgres" THEN PostgresSwept(entry) ELSE entry.left <= 0

CleanupExpiredNamedLocks ==
    /\ lock' = [r \in Resources |-> IF Swept(lock[r]) THEN NoEntry ELSE lock[r]]
    /\ UNCHANGED <<backend, call, lease>>

\* Expired entries and leases need no finer age than the waits compared with.
Tick ==
    /\ \A o \in Owners : call[o].open => call[o].age < MaxWait
    /\ lock' = [r \in Resources |->
                  [lock[r] EXCEPT !.left = IF lock[r].owner # NoOwner /\ @ >= -MaxWait
                                           THEN @ - 1 ELSE @]]
    /\ lease' = [o \in Owners |-> [r \in Resources |->
                  IF lease[o][r] > 0 THEN lease[o][r] - 1 ELSE lease[o][r]]]
    /\ call' = [o \in Owners |-> IF call[o].open THEN [call[o] EXCEPT !.age = @ + 1]
                                 ELSE call[o]]
    /\ UNCHANGED backend

Next ==
    \/ \E o \in Owners, r \in Resources, t \in Ttls : Invoke(o, r, t)
    \/ \E o \in Owners : TryAcquireLock(o)
    \/ \E o \in Owners, r \in Resources : ReleaseLock(o, r)
    \/ CleanupExpiredNamedLocks
    \/ Tick

Spec == Init /\ [][Next]_vars

\* The cleanup worker ticks, calls return, and time passes.
Fairness ==
    /\ WF_vars(CleanupExpiredNamedLocks)
    /\ WF_vars(Tick)
    /\ \A o \in Owners : WF_vars(TryAcquireLock(o))

FairSpec == Spec /\ Fairness

------------------------------------------------------------------------------

\* Two owners never both have something left of their ttl on one resource,
\* whatever takeovers, late releases, refreshes, waits for the write lock and
\* sweeps come in between (try_acquire_lock, release_lock,
\* cleanup_expired_named_locks).
MutualExclusion ==
    \A o, p \in Owners, r \in Resources : Held(o, r) /\ Held(p, r) => o = p

\* The condition on Postgres deployments: a sweeping server's clock is less than
\* a tick ahead of the database's (expires_at < $1 is strict).
SkewBounded == "postgres" \in Backends => Skew <= 1

\* The strengthening: what is left of an owner's ttl is backed by an entry of
\* its own that lasts at least as long.
LeaseBacked ==
    \A o \in Owners, r \in Resources :
        Held(o, r) => lock[r].owner = o /\ lock[r].left >= lease[o][r]

\* A lock that nobody renews leaves the table: no resource is lost to an owner
\* that died, and one-shot locks do not pile up (cleanup_expired_named_locks).
ExpiredRowsCollected ==
    \A r \in Resources :
        (lock[r].owner # NoOwner /\ lock[r].left <= 0) ~>
            (lock[r].owner = NoOwner \/ lock[r].left > 0)

\* The holder of a resource as the abstract lock service sees it.
HolderOf(r) == IF \E o \in Owners : Held(o, r)
               THEN CHOOSE o \in Owners : Held(o, r) ELSE NoOwner

Abstract == INSTANCE LockService WITH holder <- [r \in Resources |-> HolderOf(r)]

\* The locks implement the abstract lock service.
ImplementsLockService == Abstract!Spec
==============================================================================
