-------------------------- MODULE NamedLocks_proofs ---------------------------
(***************************************************************************)
(* Proofs about NamedLocks, for every backend, any owners, resources, ttls *)
(* and waits: mutual exclusion of the leases and the refinement of the     *)
(* abstract lock service, as long as no Postgres sweep runs ahead of the   *)
(* database's clock.                                                       *)
(***************************************************************************)
EXTENDS NamedLocks, TLAPS

\* The stamp of an acquisition is a time at least as late as the end of the
\* caller's lease.
LEMMA StampCoversLease ==
  ASSUME NEW ttl \in Nat, NEW age \in Nat
  PROVE  Stamp(ttl, age) \in Int /\ Stamp(ttl, age) >= ttl - age
  BY DEF Stamp

\* An entry with time left, read by a call of any age, is live.
LEMMA BackedIsLive ==
  ASSUME TypeOK, NEW e \in [owner: Owners \cup {NoOwner}, left: Int],
         NEW age \in Nat, e.owner # NoOwner, e.left > 0
  PROVE  Live(e, age)
  <1>1. MemoryLive(e, age) /\ PostgresLive(e, age) /\ RedisLive(e)
    BY DEF MemoryLive, PostgresLive, RedisLive
  <1>2. QED
    BY <1>1, LockAssumption DEF Live, TypeOK

\* The initial state is well typed.
LEMMA InitType == Init => TypeOK
  BY DEF Init, TypeOK, NoEntry, NoCall

\* Every call, sweep and tick keeps the state well typed.
LEMMA NextType == TypeOK /\ [Next]_vars => TypeOK'
  <1> SUFFICES ASSUME TypeOK, [Next]_vars PROVE TypeOK'
    OBVIOUS
  <1>1. ASSUME NEW o \in Owners, NEW r \in Resources, NEW t \in Ttls, Invoke(o, r, t)
        PROVE TypeOK'
    <2>1. t \in Nat
      BY LockAssumption
    <2>2. QED
      BY <1>1, <2>1 DEF Invoke, TypeOK
  <1>2. ASSUME NEW o \in Owners, TryAcquireLock(o) PROVE TypeOK'
    <2>1. /\ call[o].res \in Resources /\ call[o].ttl \in Nat /\ call[o].age \in Nat
          /\ call[o].ttl - call[o].age \in Int
      BY <1>2 DEF TryAcquireLock, TypeOK
    <2>2. Stamp(call[o].ttl, call[o].age) \in Int
      BY <2>1, StampCoversLease
    <2>3. lock' \in [Resources -> [owner: Owners \cup {NoOwner}, left: Int]]
      BY <1>2, <2>1, <2>2 DEF TryAcquireLock, TypeOK
    <2>4. lease' \in [Owners -> [Resources -> Int]]
      <3>1. \/ lease' = lease
            \/ lease' = [lease EXCEPT ![o][call[o].res] = call[o].ttl - call[o].age]
        BY <1>2 DEF TryAcquireLock
      <3>2. lease \in [Owners -> [Resources -> Int]]
        BY DEF TypeOK
      <3>3. QED
        BY <2>1, <3>1, <3>2
    <2>5. QED
      BY <1>2, <2>3, <2>4 DEF TryAcquireLock, TypeOK, NoCall
  <1>3. ASSUME NEW o \in Owners, NEW r \in Resources, ReleaseLock(o, r) PROVE TypeOK'
    BY <1>3 DEF ReleaseLock, TypeOK, NoEntry
  <1>4. ASSUME CleanupExpiredNamedLocks PROVE TypeOK'
    BY <1>4 DEF CleanupExpiredNamedLocks, TypeOK, NoEntry
  <1>5. ASSUME Tick PROVE TypeOK'
    <2>1. lock' \in [Resources -> [owner: Owners \cup {NoOwner}, left: Int]]
      <3>1. ASSUME NEW r \in Resources
            PROVE  lock'[r] \in [owner: Owners \cup {NoOwner}, left: Int]
        <4>1. lock[r] \in [owner: Owners \cup {NoOwner}, left: Int]
          BY DEF TypeOK
        <4>2. \/ lock'[r] = [lock[r] EXCEPT !.left = lock[r].left - 1]
              \/ lock'[r] = [lock[r] EXCEPT !.left = lock[r].left]
          BY <1>5 DEF Tick
        <4>3. QED
          BY <4>1, <4>2
      <3>2. lock' = [r \in Resources |-> lock'[r]]
        BY <1>5 DEF Tick
      <3>3. QED
        BY <3>1, <3>2
    <2>2. lease' \in [Owners -> [Resources -> Int]]
      BY <1>5 DEF Tick, TypeOK
    <2>3. ASSUME NEW o \in Owners
          PROVE  /\ call'[o] \in [open: BOOLEAN, res: Resources \cup {NoOwner},
                                  ttl: Nat, age: Nat]
                 /\ call'[o].open => call'[o].res \in Resources
      <3>1. /\ call[o] \in [open: BOOLEAN, res: Resources \cup {NoOwner}, ttl: Nat, age: Nat]
            /\ call[o].open => call[o].res \in Resources
        BY DEF TypeOK
      <3>2. \/ call'[o] = [call[o] EXCEPT !.age = call[o].age + 1]
            \/ call'[o] = call[o]
        BY <1>5 DEF Tick
      <3>3. QED
        BY <3>1, <3>2
    <2>4. call' = [o \in Owners |-> call'[o]]
      BY <1>5 DEF Tick
    <2>5. QED
      BY <1>5, <2>1, <2>2, <2>3, <2>4 DEF Tick, TypeOK
  <1>6. CASE UNCHANGED vars
    BY <1>6 DEF vars, TypeOK
  <1>7. QED
    BY <1>1, <1>2, <1>3, <1>4, <1>5, <1>6 DEF Next

\* The lock table, the calls in flight and the leases keep their shape.
THEOREM TypeCorrect == Spec => []TypeOK
  BY InitType, NextType, PTL DEF Spec

LockInv == TypeOK /\ LeaseBacked

\* No step takes the entry from under a lease that has time left.
LEMMA BackedNext ==
  ASSUME SkewBounded, LockInv, [Next]_vars
  PROVE  LockInv'
  <1>0. TypeOK /\ TypeOK'
    BY NextType DEF LockInv
  <1> SUFFICES ASSUME NEW p \in Owners, NEW q \in Resources, Held(p, q)'
               PROVE  lock'[q].owner = p /\ lock'[q].left >= lease'[p][q]
    BY <1>0 DEF LockInv, LeaseBacked
  <1>h. Held(p, q) => lock[q].owner = p /\ lock[q].left >= lease[p][q]
    BY DEF LockInv, LeaseBacked
  <1>t. lease[p][q] \in Int /\ lock[q] \in [owner: Owners \cup {NoOwner}, left: Int]
    BY <1>0 DEF TypeOK
  <1>1. ASSUME NEW o \in Owners, NEW r \in Resources, NEW t \in Ttls, Invoke(o, r, t)
        PROVE  lock'[q].owner = p /\ lock'[q].left >= lease'[p][q]
    BY <1>1, <1>h DEF Invoke, Held
  <1>2. ASSUME NEW o \in Owners, TryAcquireLock(o)
        PROVE  lock'[q].owner = p /\ lock'[q].left >= lease'[p][q]
    <2>1. /\ call[o].res \in Resources /\ call[o].ttl \in Nat /\ call[o].age \in Nat
      BY <1>0, <1>2 DEF TryAcquireLock, TypeOK
    <2>2. CASE Live(lock[call[o].res], call[o].age) /\ lock[call[o].res].owner # o
      BY <1>2, <1>h, <2>2 DEF TryAcquireLock, Held
    <2>3. CASE ~(Live(lock[call[o].res], call[o].age) /\ lock[call[o].res].owner # o)
      <3>1. /\ lock' = [lock EXCEPT ![call[o].res] =
                          [owner |-> o, left |-> Stamp(call[o].ttl, call[o].age)]]
            /\ lease' = [lease EXCEPT ![o][call[o].res] = call[o].ttl - call[o].age]
        BY <1>2, <2>3 DEF TryAcquireLock
      <3>2. CASE q = call[o].res /\ p = o
        BY <1>0, <2>1, <3>1, <3>2, StampCoversLease DEF TypeOK
      <3>3. CASE q = call[o].res /\ p # o
        <4>1. lease'[p][q] = lease[p][q] /\ Held(p, q)
          BY <1>0, <2>1, <3>1, <3>3 DEF TypeOK, Held
        <4>2. lock[q].owner = p /\ lock[q].left > 0 /\ p # NoOwner
          BY <1>h, <1>t, <4>1, LockAssumption DEF Held
        <4>3. Live(lock[q], call[o].age)
          BY <1>0, <1>t, <2>1, <4>2, BackedIsLive
        <4>4. QED
          BY <2>3, <3>3, <4>2, <4>3
      <3>4. CASE q # call[o].res
        BY <1>0, <1>h, <2>1, <3>1, <3>4 DEF TypeOK, Held
      <3>5. QED
        BY <3>2, <3>3, <3>4
    <2>4. QED
      BY <2>2, <2>3
  <1>3. ASSUME NEW o \in Owners, NEW r \in Resources, ReleaseLock(o, r)
        PROVE  lock'[q].owner = p /\ lock'[q].left >= lease'[p][q]
    <2>1. ~(o = p /\ r = q) /\ lease'[p][q] = lease[p][q] /\ Held(p, q)
      BY <1>0, <1>3 DEF ReleaseLock, TypeOK, Held
    <2>2. lock'[q] = lock[q]
      BY <1>0, <1>3, <1>h, <2>1 DEF ReleaseLock, TypeOK
    <2>3. QED
      BY <1>h, <2>1, <2>2
  <1>4. ASSUME CleanupExpiredNamedLocks
        PROVE  lock'[q].owner = p /\ lock'[q].left >= lease'[p][q]
    <2>1. lease' = lease /\ Held(p, q)
      BY <1>4 DEF CleanupExpiredNamedLocks, Held
    <2>2. lock[q].left > 0
      BY <1>h, <1>t, <2>1 DEF Held
    <2>3. ~Swept(lock[q])
      BY <1>0, <1>t, <2>2, LockAssumption, SkewBounded DEF TypeOK, Swept, PostgresSwept, SkewBounded
    <2>4. QED
      BY <1>4, <1>h, <2>1, <2>3 DEF CleanupExpiredNamedLocks
  <1>5. ASSUME Tick
        PROVE  lock'[q].owner = p /\ lock'[q].left >= lease'[p][q]
    <2>1. Held(p, q) /\ lease'[p][q] = lease[p][q] - 1
      BY <1>0, <1>5, <1>t DEF Tick, TypeOK, Held
    <2>2. lock'[q].owner = lock[q].owner /\ lock'[q].left >= lock[q].left - 1
      BY <1>5, <1>t, LockAssumption DEF Tick
    <2>3. lock'[q] \in [owner: Owners \cup {NoOwner}, left: Int]
      BY <1>0 DEF TypeOK
    <2>4. QED
      BY <1>h, <1>t, <2>1, <2>2, <2>3
  <1>6. CASE UNCHANGED vars
    BY <1>6, <1>h DEF vars, Held
  <1>7. QED
    BY <1>1, <1>2, <1>3, <1>4, <1>5, <1>6 DEF Next

\* Nobody holds anything at first.
LEMMA BackedInit == Init => LockInv
  BY InitType DEF Init, LockInv, LeaseBacked, Held

\* Backed leases exclude one another: an entry has one owner.
LEMMA BackedExcludes == LockInv => MutualExclusion
  BY DEF LockInv, LeaseBacked, MutualExclusion

\* As long as a caller has something left of its ttl the table names it, with
\* at least that much time left: no sweep, tick or rival call takes the entry
\* from under a holder.
THEOREM LeasesBacked ==
  ASSUME SkewBounded
  PROVE  Spec => []LeaseBacked
  <1>1. LockInv /\ [Next]_vars => LockInv'
    BY BackedNext
  <1>2. LockInv => LeaseBacked
    BY DEF LockInv
  <1>3. QED
    BY <1>1, <1>2, BackedInit, PTL DEF Spec

\* On every backend, two owners never both have something left of their ttl on
\* a resource.
THEOREM LocksExclude ==
  ASSUME SkewBounded
  PROVE  Spec => []MutualExclusion
  <1>1. LockInv /\ [Next]_vars => LockInv'
    BY BackedNext
  <1>2. QED
    BY <1>1, BackedInit, BackedExcludes, PTL DEF Spec

(***************************************************************************)
(* The locks implement the abstract lock service.                          *)
(***************************************************************************)

\* Under mutual exclusion the abstract holder is the owner with a lease left.
LEMMA HolderIsHeld ==
  ASSUME MutualExclusion, NEW r \in Resources
  PROVE  /\ \A o \in Owners : Held(o, r) => HolderOf(r) = o
         /\ (\A o \in Owners : ~Held(o, r)) => HolderOf(r) = NoOwner
         /\ HolderOf(r) \in Owners \cup {NoOwner}
         /\ HolderOf(r) # NoOwner => Held(HolderOf(r), r)
  <1>1. CASE \E o \in Owners : Held(o, r)
    <2>1. HolderOf(r) \in Owners /\ Held(HolderOf(r), r)
      BY <1>1 DEF HolderOf
    <2>2. QED
      BY <1>1, <2>1 DEF MutualExclusion
  <1>2. CASE ~\E o \in Owners : Held(o, r)
    BY <1>2 DEF HolderOf
  <1>3. QED
    BY <1>1, <1>2

\* What one step can do to the leases: they end, or one call is granted one.
LEMMA LeaseStep ==
  ASSUME LockInv, LockInv', [Next]_vars
  PROVE  \/ \A o \in Owners, r \in Resources : Held(o, r)' => Held(o, r)
         \/ \E p \in Owners, q \in Resources :
               /\ Held(p, q)'
               /\ \A o \in Owners : Held(o, q) => o = p
               /\ \A o \in Owners, r \in Resources \ {q} : Held(o, r)' <=> Held(o, r)
  <1>0. TypeOK
    BY DEF LockInv
  <1>1. ASSUME NEW o \in Owners, TryAcquireLock(o)
        PROVE  \/ \A p \in Owners, r \in Resources : Held(p, r)' => Held(p, r)
               \/ \E p \in Owners, q \in Resources :
                     /\ Held(p, q)'
                     /\ \A x \in Owners : Held(x, q) => x = p
                     /\ \A x \in Owners, r \in Resources \ {q} : Held(x, r)' <=> Held(x, r)
    <2>1. PICK q \in Resources : q = call[o].res
      BY <1>0, <1>1 DEF TryAcquireLock, TypeOK
    <2>2. \/ lease' = lease
          \/ lease' = [lease EXCEPT ![o][q] = call[o].ttl - call[o].age]
      BY <1>1, <2>1 DEF TryAcquireLock
    <2>3. \A x \in Owners, r \in Resources : ~(x = o /\ r = q) => lease'[x][r] = lease[x][r]
      BY <1>0, <2>1, <2>2 DEF TypeOK
    <2>4. CASE ~(lease'[o][q] > 0)
      <3>1. \A p \in Owners, r \in Resources : lease'[p][r] > 0 => lease[p][r] > 0
        BY <2>3, <2>4
      <3>2. QED
        BY <3>1 DEF Held
    <2>5. CASE lease'[o][q] > 0
      <3>1. ASSUME NEW x \in Owners, x # o, lease[x][q] > 0 PROVE FALSE
        <4>1. lease'[x][q] > 0
          BY <2>1, <2>3, <3>1
        <4>2. \A p \in Owners, r \in Resources : lease'[p][r] > 0 => lock'[r].owner = p
          BY DEF LockInv, LeaseBacked, Held
        <4>3. lock'[q].owner = x
          BY <2>1, <4>1, <4>2
        <4>4. lock'[q].owner = o
          BY <2>1, <2>5, <4>2
        <4>5. QED
          BY <3>1, <4>3, <4>4
      <3>2. \A x \in Owners : Held(x, q) => x = o
        BY <3>1 DEF Held
      <3>3. \A x \in Owners, r \in Resources \ {q} : lease'[x][r] = lease[x][r]
        BY <2>3
      <3>4. \A x \in Owners, r \in Resources \ {q} : Held(x, r)' <=> Held(x, r)
        BY <3>3 DEF Held
      <3>5. Held(o, q)'
        BY <2>5 DEF Held
      <3>6. QED
        BY <2>1, <3>2, <3>4, <3>5
    <2>6. QED
      BY <2>4, <2>5
  <1>2. ASSUME NEW o \in Owners, NEW r \in Resources, ReleaseLock(o, r)
        PROVE  \A p \in Owners, q \in Resources : Held(p, q)' => Held(p, q)
    BY <1>0, <1>2 DEF ReleaseLock, TypeOK, Held
  <1>3. ASSUME Tick
        PROVE  \A p \in Owners, q \in Resources : Held(p, q)' => Held(p, q)
    BY <1>0, <1>3 DEF Tick, TypeOK, Held
  <1>4. ASSUME lease' = lease
        PROVE  \A p \in Owners, q \in Resources : Held(p, q)' => Held(p, q)
    BY <1>4 DEF Held
  <1>5. QED
    BY <1>1, <1>2, <1>3, <1>4 DEF Next, Invoke, CleanupExpiredNamedLocks, vars

\* A step of the locks is a step of the abstract service or leaves it alone.
LEMMA StepRefines ==
  ASSUME LockInv, LockInv', [Next]_vars
  PROVE  [Abstract!Next]_([r \in Resources |-> HolderOf(r)])
  <1> DEFINE h == [r \in Resources |-> HolderOf(r)]
  <1>0. MutualExclusion /\ MutualExclusion'
    BY BackedExcludes DEF LockInv, LeaseBacked, MutualExclusion
  <1>1. ASSUME NEW r \in Resources
        PROVE  /\ h[r] = HolderOf(r) /\ h'[r] = HolderOf(r)'
               /\ \A o \in Owners : Held(o, r) => HolderOf(r) = o
               /\ (\A o \in Owners : ~Held(o, r)) => HolderOf(r) = NoOwner
               /\ HolderOf(r) \in Owners \cup {NoOwner}
               /\ HolderOf(r) # NoOwner => Held(HolderOf(r), r)
    BY <1>0, HolderIsHeld
  <1>2. ASSUME NEW r \in Resources
        PROVE  /\ \A o \in Owners : Held(o, r)' => HolderOf(r)' = o
               /\ (\A o \in Owners : ~Held(o, r)') => HolderOf(r)' = NoOwner
               /\ HolderOf(r)' \in Owners \cup {NoOwner}
    <2>1. CASE \E o \in Owners : Held(o, r)'
      <3>1. HolderOf(r)' \in Owners /\ \E o \in Owners : o = HolderOf(r)' /\ Held(o, r)'
        BY <2>1 DEF HolderOf
      <3>2. QED
        BY <1>0, <2>1, <3>1 DEF MutualExclusion
    <2>2. CASE ~\E o \in Owners : Held(o, r)'
      BY <2>2 DEF HolderOf
    <2>3. QED
      BY <2>1, <2>2
  <1>3. CASE \A o \in Owners, r \in Resources : Held(o, r)' => Held(o, r)
    <2>1. \A r \in Resources : h'[r] \in {h[r], NoOwner} /\ h'[r] \in Owners \cup {NoOwner}
      BY <1>1, <1>2, <1>3
    <2>2. Abstract!End
      BY <2>1 DEF Abstract!End
    <2>3. QED
      BY <2>2 DEF Abstract!Next
  <1>4. CASE \E p \in Owners, q \in Resources :
               /\ Held(p, q)'
               /\ \A o \in Owners : Held(o, q) => o = p
               /\ \A o \in Owners, r \in Resources \ {q} : Held(o, r)' <=> Held(o, r)
    <2>1. PICK p \in Owners, q \in Resources :
               /\ Held(p, q)'
               /\ \A o \in Owners : Held(o, q) => o = p
               /\ \A o \in Owners, r \in Resources \ {q} : Held(o, r)' <=> Held(o, r)
      BY <1>4
    <2>2. h[q] \in {NoOwner, p} /\ h'[q] = p
      BY <1>1, <1>2, <2>1
    <2>3. ASSUME NEW r \in Resources \ {q} PROVE h'[r] = h[r]
      <3>1. CASE \E o \in Owners : Held(o, r)
        BY <1>1, <1>2, <2>1, <3>1
      <3>2. CASE \A o \in Owners : ~Held(o, r)
        BY <1>1, <1>2, <2>1, <3>2
      <3>3. QED
        BY <3>1, <3>2
    <2>4. h' = [h EXCEPT ![q] = p]
      BY <2>2, <2>3
    <2>5. Abstract!Grant(p, q)
      BY <2>2, <2>4 DEF Abstract!Grant
    <2>6. QED
      BY <2>5 DEF Abstract!Next
  <1>5. QED
    BY <1>3, <1>4, LeaseStep

\* The lock table of every backend implements the abstract lock service.
THEOREM LocksRefine ==
  ASSUME SkewBounded
  PROVE  Spec => ImplementsLockService
  <1>1. LockInv /\ [Next]_vars => LockInv'
    BY BackedNext
  <1>2. Init => Abstract!Init
    <2> SUFFICES ASSUME Init PROVE Abstract!Init
      OBVIOUS
    <2>0. ASSUME NEW o \in Owners, NEW r \in Resources PROVE ~(lease[o][r] > 0)
      <3>1. lease = [p \in Owners |-> [q \in Resources |-> 0]]
        BY DEF Init
      <3>2. lease[o][r] = 0
        BY <3>1
      <3>3. QED
        BY <3>2
    <2>1. \A r \in Resources : HolderOf(r) = NoOwner
      BY <2>0 DEF HolderOf, Held
    <2>2. QED
      BY <2>1 DEF Abstract!Init
  <1>3. LockInv /\ LockInv' /\ [Next]_vars
          => [Abstract!Next]_([r \in Resources |-> HolderOf(r)])
    BY StepRefines
  <1>4. QED
    BY <1>1, <1>2, <1>3, BackedInit, PTL DEF Spec, ImplementsLockService, Abstract!Spec

==============================================================================
