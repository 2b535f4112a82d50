----------------------------- MODULE MCDashboard ------------------------------
(* Instances of Dashboard for TLC.                                           *)
EXTENDS Dashboard

CONSTANTS r1, shutdown

\* A guarded dashboard, one that refuses to start, and one whose host is a name.
MCConfigs ==
    {[DefaultConfig EXCEPT !.host = "public address", !.auth = "basic"],
     [DefaultConfig EXCEPT !.host = "public address"],
     [DefaultConfig EXCEPT !.host = "loopback name"]}

\* A delete with headers that are missing, wrong, right and contradict each other.
MCRequests ==
    {[route |-> "delete", authorization |-> [scheme |-> scheme, right |-> right], origin |-> origin,
      referer |-> "same"] :
        scheme \in {Absent, "basic", "bearer"}, right \in BOOLEAN, origin \in {Absent, "same", "other"}}
===============================================================================
