----------------------------- MODULE MCRedisQueue -----------------------------
(* Instances of RedisQueue for TLC: two servers with a worker each, one of    *)
(* which serves one queue only.                                               *)
EXTENDS RedisQueue, TLC

CONSTANTS j1, j2, s1, s2, w1, w2, d1

MCHome == [w \in Workers |-> IF w = w1 THEN s1 ELSE s2]
MCBefore == {<<j1, j2>>}
MCAbove == {<<j2, j1>>}
MCQueueOf == [j \in Jobs |-> IF j = j1 THEN "default" ELSE "bulk"]
MCQueuesServed == [s \in Servers |-> IF s = s1 THEN {} ELSE {"default"}]
MCMaxRetries == [j \in Jobs |-> 0]
==============================================================================
