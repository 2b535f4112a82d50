----------------------------- MODULE MemoryQueue ------------------------------
(***************************************************************************)
(* Job processing over MemoryStorage (storage/memory.rs): clients that     *)
(* enqueue and schedule jobs, BackgroundJobServers (processing/server.rs)  *)
(* with their worker loops, scheduler and cleanup sweep, and the           *)
(* dashboard's retry and delete (dashboard/service.rs).  The servers share *)
(* one storage, as server instances of one process do.                     *)
(*                                                                         *)
(* A storage call that runs in one critical section is one step.  Calls    *)
(* that take several (enqueue's capacity check and its insert, the         *)
(* dashboard's get and update_if_state, a worker's claim and the update    *)
(* that ends the attempt) are several steps, and anything may happen       *)
(* between them.                                                           *)
(***************************************************************************)
EXTENDS JobProcessor, FiniteSets

CONSTANTS
    Servers,           \* BackgroundJobServer instances
    Workers,           \* worker slots of all servers
    Home,              \* [Workers -> Servers]
    Dashboards,        \* concurrent dashboard requests
    LockClients,       \* callers of the explicit per-job lock API
    Before,            \* SUBSET (Jobs \X Jobs): order by priority desc, created_at asc
    QueueOf,           \* [Jobs -> queue names]
    QueuesServed,      \* [Servers -> SUBSET queue names], {} = every queue
    StartDelays,       \* ticks a scheduled job may be put off
    ClaimLimit,        \* batch limit of claim_due_*_jobs
    JobTimeout,        \* ServerConfig::job_timeout
    StaleAfter,        \* ServerConfig::stale_processing_after
    LockTtl,           \* the 30 minute lock of fetch_and_lock_job
    ClientLockTtl,     \* timeout_seconds of try_acquire_job_lock
    MaxJobs,           \* MemoryConfig::max_jobs
    MaxLag,            \* bound: scheduling delay of a worker task, in ticks
    MaxDisruptions,    \* bound: stops and worker panics in a behaviour
    MaxManualRetries   \* bound: dashboard retries in a behaviour

NoId == "no job"       \* the job of an idle worker or dashboard request

ASSUME QueueAssumption ==
    /\ Home \in [Workers -> Servers]
    /\ NoWorker \notin Workers \cup LockClients
    /\ NoId \notin Jobs
    /\ StartDelays \subseteq Nat
    /\ JobTimeout \in Nat /\ StaleAfter \in Nat /\ MaxLag \in Nat
    /\ LockTtl \in Nat \ {0} /\ ClientLockTtl \in Nat
    /\ MaxJobs \in Nat /\ ClaimLimit \in Nat
    /\ MaxDisruptions \in Nat /\ MaxManualRetries \in Nat

VARIABLES
    jobs,         \* MemoryStorage::jobs
    locks,        \* MemoryStorage::locks
    created,      \* ids handed to enqueue: uuids, never used twice
    checked,      \* ids whose enqueue passed is_at_capacity and has not inserted yet
    srv,          \* server: down, up, or stopping (its shutdown token is cancelled)
    wk,           \* worker slot: what its task is doing, and its copy of the job
    dash,         \* dashboard request: the row retry_job is about to write
    disruptions,  \* stops and panics so far
    manual        \* [Jobs -> Nat]: dashboard retries that took effect

vars == <<jobs, locks, created, checked, srv, wk, dash, disruptions, manual>>

NoLock == [owner |-> NoWorker, ttl |-> 0]
Owners == Workers \cup LockClients
Locked(j) == locks[j].owner # NoWorker

\* A worker task that holds no job.  off: no task; idle: between two fetches.
Slot(pc) == [pc |-> pc, id |-> NoId, row |-> NoRow, elapsed |-> 0]
Running(w) == wk[w].pc = "run"

TypeOK ==
    /\ jobs \in [Jobs -> JobRow(Workers)]
    /\ locks \in [Jobs -> [owner: Owners \cup {NoWorker}, ttl: Nat]]
    /\ created \subseteq Jobs
    /\ checked \in [Jobs -> JobRow(Workers)]
    /\ srv \in [Servers -> {"down", "up", "stopping"}]
    /\ wk \in [Workers -> [pc: {"off", "idle", "run"}, id: Jobs \cup {NoId},
                           row: JobRow(Workers), elapsed: Nat]]
    /\ dash \in [Dashboards -> [id: Jobs \cup {NoId}, row: JobRow(Workers)]]
    /\ disruptions \in Nat
    /\ manual \in [Jobs -> Nat]

Init ==
    /\ jobs = [j \in Jobs |-> NoRow]
    /\ locks = [j \in Jobs |-> NoLock]
    /\ created = {}
    /\ checked = [j \in Jobs |-> NoRow]
    /\ srv = [s \in Servers |-> "down"]
    /\ wk = [w \in Workers |-> Slot("off")]
    /\ dash = [d \in Dashboards |-> [id |-> NoId, row |-> NoRow]]
    /\ disruptions = 0
    /\ manual = [j \in Jobs |-> 0]

------------------------------------------------------------------------------
(* Storage: the critical sections of MemoryStorage.                        *)

Stored == {j \in Jobs : Present(jobs[j])}

IsAtCapacity == Cardinality(Stored) >= MaxJobs

\* update: the write of a whole row, refused when the id is gone.
Update(j, row) ==
    jobs' = IF Present(jobs[j]) THEN [jobs EXCEPT ![j] = row] ELSE jobs

\* Mutant: the compare-and-swap does not compare.
UpdateIfStateBlind(j, row, expected) == Update(j, row)

\* update_if_state: the same under a check of the kind stored now.
UpdateIfState(j, row, expected) ==
    jobs' = IF jobs[j].kind = expected THEN [jobs EXCEPT ![j] = row] ELSE jobs

\* get_available_jobs_internal, before the sort.
Available(row) ==
    \/ row.kind = "Enqueued"
    \/ row.kind \in {"Scheduled", "AwaitingRetry"} /\ row.timer = 0

\* Mutants: locks are swept one tick early, or never.
LiveLocksEarly == [j \in Jobs |-> IF locks[j].ttl > 1 THEN locks[j] ELSE NoLock]
LiveLocksNever == locks

\* cleanup_expired_locks.
LiveLocks == [j \in Jobs |-> IF locks[j].ttl > 0 THEN locks[j] ELSE NoLock]

\* fetch_and_lock_job passes over a job of another queue or under a lock ...
Fetchable(j, s) ==
    /\ Available(jobs[j])
    /\ QueuesServed[s] = {} \/ QueueOf[j] \in QueuesServed[s]
    /\ LiveLocks[j].owner = NoWorker

\* ... and takes the first of the rest.
FirstFetchable(j, s) ==
    Fetchable(j, s) /\ \A k \in Jobs \ {j} : Fetchable(k, s) => <<k, j>> \notin Before

\* The selections claim_due_*_jobs can make: the first ClaimLimit of the due.
DueBatches(kind) ==
    LET due == {j \in Jobs : jobs[j].kind = kind /\ jobs[j].timer = 0}
    IN  {B \in SUBSET due :
            /\ Cardinality(B) <= ClaimLimit
            /\ Cardinality(B) < ClaimLimit => B = due
            /\ \A j \in B, k \in due \ B : <<k, j>> \notin Before}

\* Mutant: every Processing row is taken for stranded.
StaleAlways(row) == row.kind = "Processing"

Stale(row) == row.kind = "Processing" /\ row.timer > StaleAfter

------------------------------------------------------------------------------
(* Clients.                                                                *)

\* JobStore::enqueue, first half: the capacity check, under a read lock of
\* its own.  A refused job is not stored; its client may try again.
EnqueueCheck(j) ==
    /\ j \notin created
    /\ ~IsAtCapacity
    /\ created' = created \cup {j}
    /\ \/ checked' = [checked EXCEPT ![j] = NewJob("Enqueued", 0)]
       \/ \E t \in StartDelays :          \* JobScheduler::schedule_job
             checked' = [checked EXCEPT ![j] = NewJob("Scheduled", t)]
    /\ UNCHANGED <<jobs, locks, srv, wk, dash, disruptions, manual>>

\* JobStore::enqueue, second half: the insert, under the write lock.
EnqueueInsert(j) ==
    /\ Present(checked[j])
    /\ jobs' = [jobs EXCEPT ![j] = checked[j]]
    /\ checked' = [checked EXCEPT ![j] = NoRow]
    /\ UNCHANGED <<locks, created, srv, wk, dash, disruptions, manual>>

\* JobLocker::try_acquire_job_lock.
TryAcquireJobLock(c, j) ==
    /\ locks' = IF LiveLocks[j].owner = NoWorker
                THEN [LiveLocks EXCEPT ![j] = [owner |-> c, ttl |-> ClientLockTtl]]
                ELSE LiveLocks
    /\ UNCHANGED <<jobs, created, checked, srv, wk, dash, disruptions, manual>>

\* JobLocker::release_job_lock: only the owner's entry is removed.
ReleaseJobLock(c, j) ==
    /\ locks[j].owner = c
    /\ locks' = [locks EXCEPT ![j] = NoLock]
    /\ UNCHANGED <<jobs, created, checked, srv, wk, dash, disruptions, manual>>

------------------------------------------------------------------------------
(* The dashboard.                                                          *)

\* DashboardService::retry_job, first half: get, and the new state set on
\* the copy.  Only a Failed job is taken further.
RetryJobRead(d, j) ==
    /\ dash[d].id = NoId
    /\ manual[j] < MaxManualRetries
    /\ jobs[j].kind = "Failed"
    /\ dash' = [dash EXCEPT ![d] = [id |-> j, row |-> SetState(jobs[j], "Enqueued", 0)]]
    /\ UNCHANGED <<jobs, locks, created, checked, srv, wk, disruptions, manual>>

\* DashboardService::retry_job, second half: update_if_state(_, Failed).
RetryJobWrite(d) ==
    LET j == dash[d].id IN
    /\ j # NoId
    /\ UpdateIfState(j, dash[d].row, "Failed")
    /\ manual' = IF jobs[j].kind = "Failed" THEN [manual EXCEPT ![j] = @ + 1] ELSE manual
    /\ dash' = [dash EXCEPT ![d] = [id |-> NoId, row |-> NoRow]]
    /\ UNCHANGED <<locks, created, checked, srv, wk, disruptions>>

\* DashboardService::delete_job.  The job's lock entry is left behind.
DeleteJob(j) ==
    /\ Present(jobs[j])
    /\ jobs' = [jobs EXCEPT ![j] = NoRow]
    /\ UNCHANGED <<locks, created, checked, srv, wk, dash, disruptions, manual>>

------------------------------------------------------------------------------
(* The server: its workers, scheduler and cleanup sweep.                   *)

\* BackgroundJobServer::start: requeue_stranded_jobs, then the worker tasks.
\* Its caller awaits a stop before the next start, so no task is left over.
Start(s) ==
    /\ srv[s] = "down"
    /\ \A w \in Workers : Home[w] = s => wk[w].pc = "off"
    /\ jobs' = [j \in Jobs |-> IF Stale(jobs[j]) THEN SetState(jobs[j], "Enqueued", 0)
                               ELSE jobs[j]]
    /\ locks' = [j \in Jobs |-> IF Stale(jobs[j]) THEN NoLock ELSE locks[j]]
    /\ srv' = [srv EXCEPT ![s] = "up"]
    /\ wk' = [w \in Workers |-> IF Home[w] = s THEN Slot("idle") ELSE wk[w]]
    /\ UNCHANGED <<created, checked, dash, disruptions, manual>>

\* worker_loop: fetch_and_lock_job finds a job, and process_job counts the
\* attempt on its copy.  A tick chosen before the cancellation may still fetch
\* after it, so a stopping server's idle worker may take this step.
Fetch(w, j) ==
    /\ wk[w].pc = "idle"
    /\ FirstFetchable(j, Home[w])
    /\ LET row == [jobs[j] EXCEPT !.kind = "Processing", !.timer = 0, !.worker = w]
       IN  /\ jobs' = [jobs EXCEPT ![j] = row]
           /\ wk' = [wk EXCEPT ![w] = [pc |-> "run", id |-> j,
                                       row |-> CountAttempt(row), elapsed |-> 0]]
    /\ locks' = [LiveLocks EXCEPT ![j] = [owner |-> w, ttl |-> LockTtl]]
    /\ UNCHANGED <<created, checked, srv, dash, disruptions, manual>>

\* fetch_and_lock_job finds nothing: only the expired locks are gone.
FetchNone(w) ==
    /\ wk[w].pc = "idle"
    /\ \A j \in Jobs : ~Fetchable(j, Home[w])
    /\ locks' = LiveLocks
    /\ UNCHANGED <<jobs, created, checked, srv, wk, dash, disruptions, manual>>

\* The rest of process_job: the attempt ends, by itself or at job_timeout, and
\* its row is written with update.  Nothing shared is read in between, so the
\* two are one step.  After a cancellation the loop does not go round again.
Finish(w, outcome, delay) ==
    /\ Running(w)
    /\ outcome = "timeout" => wk[w].elapsed >= JobTimeout
    /\ Update(wk[w].id, ProcessJob(wk[w].id, wk[w].row, outcome, delay))
    /\ wk' = [wk EXCEPT ![w] = Slot(IF srv[Home[w]] = "up" THEN "idle" ELSE "off")]
    /\ UNCHANGED <<locks, created, checked, srv, dash, disruptions, manual>>

\* The worker's code panics: the task, and with it the loop, is gone.
Panic(w) ==
    /\ Running(w)
    /\ disruptions < MaxDisruptions
    /\ disruptions' = disruptions + 1
    /\ wk' = [wk EXCEPT ![w] = Slot("off")]
    /\ UNCHANGED <<jobs, locks, created, checked, srv, dash, manual>>

\* BackgroundJobServer::stop cancels the shutdown token ...
Stop(s) ==
    /\ srv[s] = "up"
    /\ disruptions < MaxDisruptions
    /\ disruptions' = disruptions + 1
    /\ srv' = [srv EXCEPT ![s] = "stopping"]
    /\ UNCHANGED <<jobs, locks, created, checked, wk, dash, manual>>

\* ... an idle worker leaves its loop ...
WorkerExit(w) ==
    /\ wk[w].pc = "idle"
    /\ srv[Home[w]] = "stopping"
    /\ wk' = [wk EXCEPT ![w] = Slot("off")]
    /\ UNCHANGED <<jobs, locks, created, checked, srv, dash, disruptions, manual>>

\* ... and stop returns: every task has ended, or shutdown_timeout is over and
\* the others are aborted.
Stopped(s) ==
    /\ srv[s] = "stopping"
    /\ srv' = [srv EXCEPT ![s] = "down"]
    /\ wk' = [w \in Workers |-> IF Home[w] = s THEN Slot("off") ELSE wk[w]]
    /\ UNCHANGED <<jobs, locks, created, checked, dash, disruptions, manual>>

SomeServerUp == \E s \in Servers : srv[s] = "up"

\* JobScheduler: claim_due_scheduled_jobs and claim_due_retry_jobs.
ClaimDue(kind) ==
    /\ SomeServerUp
    /\ \E B \in DueBatches(kind) \ {{}} :
          jobs' = [j \in Jobs |-> IF j \in B THEN SetState(jobs[j], "Enqueued", 0)
                                  ELSE jobs[j]]
    /\ UNCHANGED <<locks, created, checked, srv, wk, dash, disruptions, manual>>

\* CleanupWorker: delete_expired_jobs, whatever the state of the row.
DeleteExpiredJobs ==
    /\ SomeServerUp
    /\ jobs' = [j \in Jobs |-> IF jobs[j].expires = 0 THEN NoRow ELSE jobs[j]]
    /\ UNCHANGED <<locks, created, checked, srv, wk, dash, disruptions, manual>>

\* Time passes.  tokio's timeout ends an attempt that has run for job_timeout;
\* MaxLag bounds how late its task may be.
Tick ==
    /\ \A w \in Workers : Running(w) => wk[w].elapsed < JobTimeout + MaxLag
    /\ jobs' = [j \in Jobs |-> Aged(jobs[j], StaleAfter)]
    /\ checked' = [j \in Jobs |-> Aged(checked[j], StaleAfter)]
    /\ locks' = [j \in Jobs |-> [locks[j] EXCEPT !.ttl = Dec(@)]]
    /\ wk' = [w \in Workers |->
                 IF Running(w)
                 THEN [wk[w] EXCEPT !.elapsed = @ + 1, !.row = Aged(@, StaleAfter)]
                 ELSE wk[w]]
    /\ dash' = [d \in Dashboards |-> [dash[d] EXCEPT !.row = Aged(@, StaleAfter)]]
    /\ UNCHANGED <<created, srv, disruptions, manual>>

------------------------------------------------------------------------------

FinishSome(w) == \E o \in Outcomes, d \in RetryDelays : Finish(w, o, d)

Next ==
    \/ \E j \in Jobs : EnqueueCheck(j) \/ EnqueueInsert(j) \/ DeleteJob(j)
    \/ \E c \in LockClients, j \in Jobs : TryAcquireJobLock(c, j) \/ ReleaseJobLock(c, j)
    \/ \E d \in Dashboards : RetryJobWrite(d) \/ \E j \in Jobs : RetryJobRead(d, j)
    \/ \E s \in Servers : Start(s) \/ Stop(s) \/ Stopped(s)
    \/ \E w \in Workers :
          \/ FetchNone(w) \/ FinishSome(w) \/ Panic(w) \/ WorkerExit(w)
          \/ \E j \in Jobs : Fetch(w, j)
    \/ \E kind \in {"Scheduled", "AwaitingRetry"} : ClaimDue(kind)
    \/ DeleteExpiredJobs
    \/ Tick

Spec == Init /\ [][Next]_vars

(***************************************************************************)
(* Tokio keeps polling every task, the attempt of a running job ends (at   *)
(* job_timeout at the latest), time passes, and whoever operates a server  *)
(* starts it.  Nobody owes a dashboard request, a stop or a panic.         *)
(***************************************************************************)
Fairness ==
    /\ WF_vars(Tick)
    /\ WF_vars(DeleteExpiredJobs)
    /\ \A kind \in {"Scheduled", "AwaitingRetry"} : WF_vars(ClaimDue(kind))
    /\ \A j \in Jobs : WF_vars(EnqueueInsert(j))
    /\ \A s \in Servers : WF_vars(Start(s)) /\ WF_vars(Stopped(s))
    /\ \A w \in Workers :
          WF_vars(FinishSome(w)) /\ WF_vars(\E j \in Jobs : Fetch(w, j))

FairSpec == Spec /\ Fairness

------------------------------------------------------------------------------
(* Properties.                                                             *)

\* Two workers never run the same job at the same time, although a starting
\* server requeues Processing jobs and every worker writes its result without
\* looking at the row again (requeue_stranded_jobs, update).  It needs
\* stale_processing_after to exceed what an attempt can take.
NoDoubleExecution ==
    \A v, w \in Workers :
        v # w /\ Running(v) /\ Running(w) => wk[v].id # wk[w].id

\* While a worker runs a job that has not been deleted, the stored row is the
\* claim of that very worker, as old as the attempt is: nobody else has
\* claimed, requeued or finished the job (fetch_and_lock_job, update).
RunnerOwnsRow ==
    \A w \in Workers :
        Running(w) /\ Present(jobs[wk[w].id]) =>
            /\ jobs[wk[w].id].kind = "Processing"
            /\ jobs[wk[w].id].worker = w
            /\ jobs[wk[w].id].timer = wk[w].elapsed

\* The 30 minute lock taken with a job is still its worker's when the attempt
\* ends: no sweep of expired locks, requeue or lock client has taken it
\* (fetch_and_lock_job, cleanup_expired_locks, try_acquire_job_lock).
RunnerHoldsLock ==
    \A w \in Workers :
        Running(w) /\ Present(jobs[wk[w].id]) => locks[wk[w].id].owner = w

\* The number of attempts a job can use: max_retries and the policy's
\* max_attempts both count retries, so the first run comes on top.
RetryLimit(j) ==
    IF MaxRetries[j] > 0 /\ MaxRetries[j] < PolicyMaxAttempts
    THEN MaxRetries[j] ELSE PolicyMaxAttempts

\* A job never has more attempts on its row than its retry limit, the first
\* run and one per manual retry allow, however claims, sweeps, restarts and
\* dashboard retries interleave (should_retry_attempt, retry_job).
AttemptBounded ==
    \A j \in Jobs : jobs[j].attempt <= RetryLimit(j) + 1 + manual[j]

\* What may happen to a stored row in one step.
LifecycleStep(j) ==
    LET k == jobs[j].kind  new == jobs'[j].kind
    IN  \/ new = k /\ jobs'[j].worker = jobs[j].worker
        \/ new = "None"                                      \* deleted or swept
        \/ k = "None" /\ new \in {"Enqueued", "Scheduled"}
        \/ k # "None" /\ new # "None" /\ CanTransitionTo(k, new)
        \/ Available(jobs[j]) /\ new = "Processing"          \* claimed when due
        \/ Stale(jobs[j]) /\ new = "Enqueued"                \* recovered

\* Every change of a stored row follows can_transition_to, claims a job that
\* is due, or recovers a stale claim: a late worker or a slow dashboard never
\* moves a row back (update, update_if_state).
LifecycleFollowed == [][\A j \in Jobs : LifecycleStep(j)]_vars

Gone(j) == j \in created /\ ~Present(checked[j]) /\ ~Present(jobs[j])

\* A job that was deleted or swept never comes back, although a worker may
\* still be running it and a dashboard still be retrying it (update,
\* update_if_state, delete).
GoneForGood == [][\A j \in Jobs : Gone(j) => ~Present(jobs'[j])]_vars

\* Without stops and panics every job handed to enqueue reaches a final state
\* or is deleted: retries end, a lingering lock only delays them, and no job
\* is forgotten in Scheduled, AwaitingRetry or Processing.
EveryJobSettles ==
    \A j \in Jobs : j \in created ~> (IsFinal(jobs[j].kind) \/ Gone(j))

\* Every Succeeded or Failed row is swept, unless the dashboard retries it
\* first: the TTL stamp of the processor is always there to be found by
\* delete_expired_jobs.
FinalRowsSwept ==
    \A j \in Jobs : IsFinal(jobs[j].kind) ~> ~IsFinal(jobs[j].kind)

(***************************************************************************)
(* The inductive invariant behind NoDoubleExecution: which facts about the *)
(* workers' copies and the pending inserts keep the rows of running jobs   *)
(* out of everybody else's reach.                                          *)
(***************************************************************************)
StaleOutlastsAttempt == StaleAfter >= JobTimeout + MaxLag

RunnerInTime ==
    \A w \in Workers : Running(w) =>
        /\ wk[w].id \in created
        /\ ~Present(checked[wk[w].id])
        /\ wk[w].elapsed <= JobTimeout + MaxLag

InsertedOnce ==
    \A j \in Jobs :
        /\ Present(checked[j]) => j \in created /\ ~Present(jobs[j])
        /\ j \notin created => ~Present(jobs[j])

ClaimInv ==
    TypeOK /\ RunnerInTime /\ InsertedOnce /\ RunnerOwnsRow /\ NoDoubleExecution

------------------------------------------------------------------------------
(* What the storage promises.                                              *)

\* The status of a job, and the workers that are running it.
JobStatus(j) == StatusOf(jobs[j].kind, j \in created /\ ~Present(checked[j]))
RunnersOf(j) == {w \in Workers : Running(w) /\ wk[w].id = j}

Promise == INSTANCE JobQueue WITH
              status <- [j \in Jobs |-> JobStatus(j)],
              runners <- [j \in Jobs |-> RunnersOf(j)]

\* Every behaviour of the queue over MemoryStorage is one of the abstract job
\* queue: a job is handed to one worker at a time, settled by nobody else,
\* recovered only when its worker is lost, and not run again once it succeeded
\* or was removed (fetch_and_lock_job, update, update_if_state,
\* requeue_stranded_jobs, delete).
ImplementsJobQueue == Promise!Spec

------------------------------------------------------------------------------
(* What the documentation says and the code does not do.                   *)

\* processing/retry.rs: "Specific exception types to retry on (if
\* retry_on_all_exceptions is false)": an attempt that ends with such an
\* exception within its limits is retried.
ListedErrorsAreRetried ==
    \A w \in Workers : Running(w) =>
        \A e \in Retryable \cap ErrorTypes, d \in RetryDelays :
            ShouldRetryAttempt(wk[w].id, wk[w].row, e) =>
                ProcessJob(wk[w].id, wk[w].row, e, d).kind = "AwaitingRetry"

==============================================================================
