----------------------------- MODULE LockService -----------------------------
(***************************************************************************)
(* What NamedLocks (storage/mod.rs) promises to its callers: "at most one  *)
(* instance of X".  A resource has one holder or none.  A free resource is *)
(* granted, its holder may be granted it again, and a holding ends (it is  *)
(* released or its ttl runs out) before somebody else's begins.            *)
(***************************************************************************)
CONSTANTS Resources, Owners, NoOwner

VARIABLE holder

Init == holder = [r \in Resources |-> NoOwner]

Grant(o, r) ==
    /\ holder[r] \in {NoOwner, o}
    /\ holder' = [holder EXCEPT ![r] = o]

\* Holdings end by themselves, several at a time when time passes.
End ==
    /\ holder' \in [Resources -> Owners \cup {NoOwner}]
    /\ \A r \in Resources : holder'[r] \in {holder[r], NoOwner}

Next == End \/ \E o \in Owners, r \in Resources : Grant(o, r)

Spec == Init /\ [][Next]_holder
==============================================================================
