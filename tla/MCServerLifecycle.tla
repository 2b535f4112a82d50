-------------------------- MODULE MCServerLifecycle ---------------------------
(* Instances of ServerLifecycle for TLC: two callers, one worker loop.        *)
EXTENDS ServerLifecycle

CONSTANTS c1, c2, w1

\* Heartbeats; a scheduler and workers with a negative interval, for which
\* the workers alone have a fallback; workers with an interval of zero.
MCConfigs ==
    {[DefaultConfig EXCEPT !.enabled = {"heartbeat"}],
     [DefaultConfig EXCEPT !.enabled = {"scheduler"},
                           !.interval["scheduler"] = "negative",
                           !.interval["worker"] = "negative"],
     [DefaultConfig EXCEPT !.enabled = {}, !.interval["worker"] = "zero"]}
==============================================================================
