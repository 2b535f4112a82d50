--------------------------- MODULE MCPostgresQueue ----------------------------
(* Instances of PostgresQueue for TLC: two hosts with a worker each.         *)
EXTENDS PostgresQueue, TLC

CONSTANTS j1, j2, s1, s2, w1, w2, d1, d2, c1

MCHome == [w \in Workers |-> IF w = w1 THEN s1 ELSE s2]
MCAhead == [s \in Servers |-> IF s = s1 THEN 0 ELSE MaxSkew]
MCBefore == {<<j1, j2>>}
MCQueueOf == [j \in Jobs |-> IF j = j1 THEN "default" ELSE "bulk"]
MCQueuesServed == [s \in Servers |-> IF s = s1 THEN {} ELSE {"default"}]
MCMaxRetries == [j \in Jobs |-> IF j = j1 THEN 1 ELSE 0]

\* Dashboard requests are interchangeable.
DashboardSymmetry == Permutations(Dashboards)
==============================================================================
