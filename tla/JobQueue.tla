------------------------------- MODULE JobQueue -------------------------------
(***************************************************************************)
(* What a job storage (the JobStore, JobLocker and MonitoringApi traits of *)
(* storage/mod.rs) promises to the workers and dashboards that share it.   *)
(* A job waits until one worker claims it, and until that worker is done   *)
(* with it or lost nobody else gets it.  Only the worker that has the job  *)
(* settles it; a job that succeeded is never handed out again, one that    *)
(* failed only after a dashboard retry, and a removed one never, even if   *)
(* its worker is still busy.                                               *)
(***************************************************************************)
CONSTANTS Jobs, Workers

VARIABLES
    status,    \* [Jobs -> Statuses]
    runners    \* [Jobs -> SUBSET Workers]: who is running the job

Statuses == {"new", "waiting", "claimed", "succeeded", "failed", "gone"}

Init ==
    /\ status = [j \in Jobs |-> "new"]
    /\ runners = [j \in Jobs |-> {}]

\* The jobs of J get the status s together.
Becomes(J, s) == status' = [j \in Jobs |-> IF j \in J THEN s ELSE status[j]]

\* JobStore::enqueue.
Enqueue(j) ==
    /\ status[j] = "new"
    /\ Becomes({j}, "waiting")
    /\ UNCHANGED runners

\* JobLocker::fetch_and_lock_job: a waiting job, for a free worker.
Claim(w, j) ==
    /\ status[j] = "waiting" /\ runners[j] = {}
    /\ \A k \in Jobs : w \notin runners[k]
    /\ Becomes({j}, "claimed")
    /\ runners' = [runners EXCEPT ![j] = {w}]

\* MonitoringApi::update by the worker that has the job: a result, or a retry.
Settle(w, j) ==
    /\ status[j] = "claimed" /\ w \in runners[j]
    /\ \E s \in {"waiting", "succeeded", "failed"} : Becomes({j}, s)
    /\ runners' = [runners EXCEPT ![j] = @ \ {w}]

\* Workers die or stop without a result, or the job they had is removed.
Abandon(W) ==
    /\ runners' = [j \in Jobs |-> runners[j] \ W]
    /\ UNCHANGED status

\* JobLocker::requeue_stranded_jobs: claims that nobody is running any more.
Recover(J) ==
    /\ \A j \in J : status[j] = "claimed" /\ runners[j] = {}
    /\ Becomes(J, "waiting")
    /\ UNCHANGED runners

\* MonitoringApi::update_if_state, as the dashboard's retry uses it.
Retry(j) ==
    /\ status[j] = "failed"
    /\ Becomes({j}, "waiting")
    /\ UNCHANGED runners

\* MonitoringApi::delete, JobStore::delete_expired_jobs.  A worker that is
\* running the job is not told.
Remove(J) ==
    /\ \A j \in J : status[j] # "new"
    /\ Becomes(J, "gone")
    /\ UNCHANGED runners

Next ==
    \/ \E J \in SUBSET Jobs : Recover(J) \/ Remove(J)
    \/ \E w \in Workers, j \in Jobs : Claim(w, j) \/ Settle(w, j)
    \/ \E W \in SUBSET Workers : Abandon(W)
    \/ \E j \in Jobs : Enqueue(j) \/ Retry(j)

Spec == Init /\ [][Next]_<<status, runners>>
==============================================================================
