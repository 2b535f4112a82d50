--------------------------- MODULE MCJobExecution ----------------------------
(* Instances of JobExecution for TLC.                                        *)
EXTENDS JobExecution

\* j2 has no worker; j1 caps its retries below the policy.
MCMaxRetries == [j \in Jobs |-> 1]
MCStack == <<"prometheus", "guard", "tracing", "prometheus">>
MCStrategies ==
    {Fixed(7, 2), LinearBackoff(5, 4, 8, 2),
     ExponentialBackoff(4, 3, 10, 2, FALSE), ExponentialBackoff(4, 3, 10, 2, TRUE)}
=============================================================================
