---------------------------- MODULE PostgresQueue -----------------------------
(***************************************************************************)
(* Job processing over PostgresStorage (storage/postgres.rs): server       *)
(* processes on different hosts share the qml_jobs table.  Every storage   *)
(* call is one SQL statement and one step; FOR UPDATE SKIP LOCKED makes    *)
(* the claims exclusive.  A process may crash between any two statements,  *)
(* and the statement that writes a result may fail.                        *)
(*                                                                         *)
(* The model's time is one clock; Ahead is how far the clock of a host is  *)
(* ahead of it.  It matters where instants of two hosts are compared over  *)
(* a short span: the started_at of one with the stale_before of another.   *)
(***************************************************************************)
EXTENDS JobProcessor, FiniteSets

CONSTANTS
    Servers, Workers,
    Home,              \* [Workers -> Servers]
    Ahead,             \* [Servers -> Int]: clock offset of the server's host
    MaxSkew,           \* bound on the difference of two hosts' clocks
    Dashboards,        \* concurrent dashboard requests
    LockClients,       \* callers of the explicit per-job lock API
    Before,            \* SUBSET (Jobs \X Jobs): ORDER BY priority DESC, created_at ASC
    QueueOf,           \* [Jobs -> queue names]
    QueuesServed,      \* [Servers -> SUBSET queue names], {} = every queue
    StartDelays, ClaimLimit, JobTimeout, StaleAfter, ClientLockTtl,
    MaxLag,            \* bound: scheduling delay of a worker task, in ticks
    MaxDisruptions,    \* bound: crashes and failed result writes
    MaxManualRetries   \* bound: dashboard retries

NoId == "no job"

ASSUME PostgresAssumption ==
    /\ Home \in [Workers -> Servers]
    /\ Ahead \in [Servers -> Int]
    /\ MaxSkew \in Nat
    /\ \A s, t \in Servers : Ahead[s] - Ahead[t] <= MaxSkew
    /\ NoWorker \notin Workers \cup LockClients
    /\ NoId \notin Jobs
    /\ StartDelays \subseteq Nat
    /\ JobTimeout \in Nat /\ StaleAfter \in Nat /\ MaxLag \in Nat
    /\ ClientLockTtl \in Nat /\ ClaimLimit \in Nat
    /\ MaxDisruptions \in Nat /\ MaxManualRetries \in Nat

VARIABLES
    jobs,      \* the qml_jobs table: state columns, attempt and expires_at
    lock,      \* locked_by and lock_expires_at of each row
    created,   \* ids handed to enqueue: uuids, never used twice
    up,        \* the servers that are running
    wk,        \* worker slot: off, idle, or running its copy of a job
    dash,      \* dashboard request: the row retry_job is about to write
    disruptions, manual

vars == <<jobs, lock, created, up, wk, dash, disruptions, manual>>

Unlocked == [owner |-> NoWorker, ttl |-> 0]
NoRequest == [id |-> NoId, row |-> NoRow]
Slot(pc) == [pc |-> pc, id |-> NoId, row |-> NoRow, elapsed |-> 0]
Running(w) == wk[w].pc = "run"

TypeOK ==
    /\ jobs \in [Jobs -> JobRow(Workers)]
    /\ lock \in [Jobs -> [owner: Workers \cup LockClients \cup {NoWorker}, ttl: Nat]]
    /\ created \subseteq Jobs
    /\ up \subseteq Servers
    /\ wk \in [Workers -> [pc: {"off", "idle", "run"}, id: Jobs \cup {NoId},
                           row: JobRow(Workers), elapsed: Nat]]
    /\ dash \in [Dashboards -> [id: Jobs \cup {NoId}, row: JobRow(Workers)]]
    /\ disruptions \in Nat
    /\ manual \in [Jobs -> Nat]

Init ==
    /\ jobs = [j \in Jobs |-> NoRow]
    /\ lock = [j \in Jobs |-> Unlocked]
    /\ created = {}
    /\ up = {}
    /\ wk = [w \in Workers |-> Slot("off")]
    /\ dash = [d \in Dashboards |-> NoRequest]
    /\ disruptions = 0
    /\ manual = [j \in Jobs |-> 0]

------------------------------------------------------------------------------
(* SQL statements.                                                         *)

\* UPDATE ... WHERE id = $1: no row, no effect.  The lock columns are kept.
Update(j, row) ==
    jobs' = IF Present(jobs[j]) THEN [jobs EXCEPT ![j] = row] ELSE jobs

\* Mutant: the state_name predicate is missing.
UpdateIfStateBlind(j, row, expected) == Update(j, row)

\* UPDATE ... WHERE id = $1 AND state_name = $2.
UpdateIfState(j, row, expected) ==
    jobs' = IF jobs[j].kind = expected THEN [jobs EXCEPT ![j] = row] ELSE jobs

\* Mutant: Failed rows count as awaiting their retry.
FetchableFailed(j, s) == jobs[j].kind \in {"Enqueued", "AwaitingRetry", "Failed"}

\* The inner SELECT of fetch_and_lock_job: neither retry_at nor the lock
\* columns are looked at; Scheduled rows wait for claim_due_scheduled_jobs.
Fetchable(j, s) ==
    /\ jobs[j].kind \in {"Enqueued", "AwaitingRetry"}
    /\ QueuesServed[s] = {} \/ QueueOf[j] \in QueuesServed[s]

FirstFetchable(j, s) ==
    Fetchable(j, s) /\ \A k \in Jobs \ {j} : Fetchable(k, s) => <<k, j>> \notin Before

\* The rows the CTE of claim_due_*_jobs may select.
DueBatches(kind) ==
    LET due == {j \in Jobs : jobs[j].kind = kind /\ jobs[j].timer = 0}
    IN  {B \in SUBSET due :
            /\ Cardinality(B) <= ClaimLimit
            /\ Cardinality(B) < ClaimLimit => B = due
            /\ \A j \in B, k \in due \ B : <<k, j>> \notin Before}

\* Mutant: the sweep takes every Processing row, as if its server had crashed.
StaleAlways(row, s) == row.kind = "Processing"

\* started_at, stamped by the host of the worker, < stale_before of host s.
Stale(row, s) ==
    /\ row.kind = "Processing"
    /\ row.timer + Ahead[s] - Ahead[Home[row.worker]] > StaleAfter

------------------------------------------------------------------------------
(* Clients and the dashboard.                                              *)

\* enqueue: one INSERT, after an optional set_state(Scheduled).
Enqueue(j) ==
    /\ j \notin created
    /\ created' = created \cup {j}
    /\ \E row \in {NewJob("Enqueued", 0)} \cup {NewJob("Scheduled", t) : t \in StartDelays} :
          jobs' = [jobs EXCEPT ![j] = row]
    /\ UNCHANGED <<lock, up, wk, dash, disruptions, manual>>

\* qml.acquire_job_lock of install.sql: lock_expires_at < NOW() is expired.
TryAcquireJobLock(c, j) ==
    /\ Present(jobs[j])
    /\ lock[j].owner = NoWorker \/ lock[j].ttl = 0
    /\ lock' = [lock EXCEPT ![j] = [owner |-> c, ttl |-> ClientLockTtl]]
    /\ UNCHANGED <<jobs, created, up, wk, dash, disruptions, manual>>

ReleaseJobLock(c, j) ==
    /\ lock[j].owner = c
    /\ lock' = [lock EXCEPT ![j] = Unlocked]
    /\ UNCHANGED <<jobs, created, up, wk, dash, disruptions, manual>>

RetryJobRead(d, j) ==
    /\ dash[d].id = NoId
    /\ manual[j] < MaxManualRetries
    /\ jobs[j].kind = "Failed"
    /\ dash' = [dash EXCEPT ![d] = [id |-> j, row |-> SetState(jobs[j], "Enqueued", 0)]]
    /\ UNCHANGED <<jobs, lock, created, up, wk, disruptions, manual>>

RetryJobWrite(d) ==
    LET j == dash[d].id IN
    /\ j # NoId
    /\ UpdateIfState(j, dash[d].row, "Failed")
    /\ manual' = IF jobs[j].kind = "Failed" THEN [manual EXCEPT ![j] = @ + 1] ELSE manual
    /\ dash' = [dash EXCEPT ![d] = NoRequest]
    /\ UNCHANGED <<lock, created, up, wk, disruptions>>

\* DELETE takes the lock columns with the row.
DeleteJob(j) ==
    /\ Present(jobs[j])
    /\ jobs' = [jobs EXCEPT ![j] = NoRow]
    /\ lock' = [lock EXCEPT ![j] = Unlocked]
    /\ UNCHANGED <<created, up, wk, dash, disruptions, manual>>

------------------------------------------------------------------------------
(* Servers.                                                                *)

\* requeue_stranded_jobs clears the lock columns too; then the workers start.
Start(s) ==
    /\ s \notin up
    /\ up' = up \cup {s}
    /\ jobs' = [j \in Jobs |-> IF Stale(jobs[j], s) THEN SetState(jobs[j], "Enqueued", 0)
                               ELSE jobs[j]]
    /\ lock' = [j \in Jobs |-> IF Stale(jobs[j], s) THEN Unlocked ELSE lock[j]]
    /\ wk' = [w \in Workers |-> IF Home[w] = s THEN Slot("idle") ELSE wk[w]]
    /\ UNCHANGED <<created, dash, disruptions, manual>>

\* The process dies with everything its workers were doing.
Crash(s) ==
    /\ s \in up
    /\ disruptions < MaxDisruptions
    /\ disruptions' = disruptions + 1
    /\ up' = up \ {s}
    /\ wk' = [w \in Workers |-> IF Home[w] = s THEN Slot("off") ELSE wk[w]]
    /\ UNCHANGED <<jobs, lock, created, dash, manual>>

Fetch(w, j) ==
    /\ wk[w].pc = "idle"
    /\ FirstFetchable(j, Home[w])
    /\ LET row == [jobs[j] EXCEPT !.kind = "Processing", !.timer = 0, !.worker = w]
       IN  /\ jobs' = [jobs EXCEPT ![j] = row]
           /\ wk' = [wk EXCEPT ![w] = [pc |-> "run", id |-> j,
                                       row |-> CountAttempt(row), elapsed |-> 0]]
    /\ UNCHANGED <<lock, created, up, dash, disruptions, manual>>

Finish(w, outcome, delay) ==
    /\ Running(w)
    /\ outcome = "timeout" => wk[w].elapsed >= JobTimeout
    /\ Update(wk[w].id, ProcessJob(wk[w].id, wk[w].row, outcome, delay))
    /\ wk' = [wk EXCEPT ![w] = Slot("idle")]
    /\ UNCHANGED <<lock, created, up, dash, disruptions, manual>>

\* The statement that writes the result fails: process_job returns the error,
\* worker_loop logs it and goes on, and the row stays Processing.
UpdateFails(w) ==
    /\ Running(w)
    /\ disruptions < MaxDisruptions
    /\ disruptions' = disruptions + 1
    /\ wk' = [wk EXCEPT ![w] = Slot("idle")]
    /\ UNCHANGED <<jobs, lock, created, up, dash, manual>>

ClaimDue(kind) ==
    /\ up # {}
    /\ \E B \in DueBatches(kind) \ {{}} :
          jobs' = [j \in Jobs |-> IF j \in B THEN SetState(jobs[j], "Enqueued", 0)
                                  ELSE jobs[j]]
    /\ UNCHANGED <<lock, created, up, wk, dash, disruptions, manual>>

DeleteExpiredJobs ==
    /\ up # {}
    /\ jobs' = [j \in Jobs |-> IF jobs[j].expires = 0 THEN NoRow ELSE jobs[j]]
    /\ lock' = [j \in Jobs |-> IF jobs[j].expires = 0 THEN Unlocked ELSE lock[j]]
    /\ UNCHANGED <<created, up, wk, dash, disruptions, manual>>

Tick ==
    /\ \A w \in Workers : Running(w) => wk[w].elapsed < JobTimeout + MaxLag
    /\ jobs' = [j \in Jobs |-> Aged(jobs[j], StaleAfter + MaxSkew)]
    /\ lock' = [j \in Jobs |-> [lock[j] EXCEPT !.ttl = Dec(@)]]
    /\ wk' = [w \in Workers |->
                 IF Running(w)
                 THEN [wk[w] EXCEPT !.elapsed = @ + 1, !.row = Aged(@, StaleAfter + MaxSkew)]
                 ELSE wk[w]]
    /\ dash' = [d \in Dashboards |-> [dash[d] EXCEPT !.row = Aged(@, StaleAfter + MaxSkew)]]
    /\ UNCHANGED <<created, up, disruptions, manual>>

FinishSome(w) == \E o \in Outcomes, d \in RetryDelays : Finish(w, o, d)

Next ==
    \/ \E j \in Jobs : Enqueue(j) \/ DeleteJob(j)
    \/ \E c \in LockClients, j \in Jobs : TryAcquireJobLock(c, j) \/ ReleaseJobLock(c, j)
    \/ \E d \in Dashboards : RetryJobWrite(d) \/ \E j \in Jobs : RetryJobRead(d, j)
    \/ \E s \in Servers : Start(s) \/ Crash(s)
    \/ \E w \in Workers : FinishSome(w) \/ UpdateFails(w) \/ \E j \in Jobs : Fetch(w, j)
    \/ \E kind \in {"Scheduled", "AwaitingRetry"} : ClaimDue(kind)
    \/ DeleteExpiredJobs
    \/ Tick

Spec == Init /\ [][Next]_vars

------------------------------------------------------------------------------
(* Properties.                                                             *)

\* The condition on the configuration: stale_processing_after exceeds what an
\* attempt can take by the difference of any two hosts' clocks.
StaleOutlastsAttempt == StaleAfter >= JobTimeout + MaxLag + MaxSkew

\* Two workers, on whatever hosts, never run the same job at the same time:
\* neither a claim (fetch_and_lock_job), nor the recovery sweep of a server
\* whose clock is ahead (requeue_stranded_jobs), nor a dashboard retry hands
\* out a job that is being run.
NoDoubleExecution ==
    \A v, w \in Workers :
        v # w /\ Running(v) /\ Running(w) => wk[v].id # wk[w].id

\* The result a worker writes with an unconditional UPDATE replaces its own
\* claim and nothing newer, unless the row is gone (update, fetch_and_lock_job).
RunnerOwnsRow ==
    \A w \in Workers :
        Running(w) /\ Present(jobs[wk[w].id]) =>
            /\ jobs[wk[w].id].kind = "Processing"
            /\ jobs[wk[w].id].worker = w

\* A Failed job goes back to the queue only through a dashboard retry, and each
\* time exactly one of the requests racing for it counts as the one that did
\* it: no late worker, sweep or second request revives it (update_if_state,
\* retry_job, update).
FailedLeavesByRetry ==
    [][\A j \in Jobs :
          jobs[j].kind = "Failed" /\ jobs'[j].kind \notin {"Failed", "None"} =>
              jobs'[j].kind = "Enqueued" /\ manual'[j] = manual[j] + 1]_vars

------------------------------------------------------------------------------
(* What the storage promises.                                              *)

\* The status of a job, and the workers that are running it.
JobStatus(j) == StatusOf(jobs[j].kind, j \in created)
RunnersOf(j) == {w \in Workers : Running(w) /\ wk[w].id = j}

Promise == INSTANCE JobQueue WITH
              status <- [j \in Jobs |-> JobStatus(j)],
              runners <- [j \in Jobs |-> RunnersOf(j)]

\* Every behaviour of the servers that share the table is one of the abstract
\* job queue: a job is handed to one worker at a time, settled by nobody else,
\* recovered only when its worker is lost, and not run again once it succeeded
\* or was removed (fetch_and_lock_job, update, update_if_state,
\* requeue_stranded_jobs, delete).
ImplementsJobQueue == Promise!Spec
==============================================================================
