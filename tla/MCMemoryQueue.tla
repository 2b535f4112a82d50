---------------------------- MODULE MCMemoryQueue -----------------------------
(* Instances of MemoryQueue for TLC.                                        *)
EXTENDS MemoryQueue, TLC

CONSTANTS j1, j2, s1, s2, w1, w2, d1, d2, c1

\* Two servers of one worker each; j1 has the higher priority.
MCHome == [w \in Workers |-> IF w = w1 THEN s1 ELSE s2]
MCBefore == {<<j1, j2>>}
MCQueueOf == [j \in Jobs |-> "default"]
MCQueuesServed == [s \in Servers |-> {"default"}]
MCMaxRetries == [j \in Jobs |-> IF j = j1 THEN 1 ELSE 0]

\* Dashboard requests are interchangeable.
DashboardSymmetry == Permutations(Dashboards)
==============================================================================
