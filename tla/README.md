# A formal model of qml

TLA+ modules, TLC configurations and TLAPS proofs for `qml`, a background job library for
Rust: jobs are stored in memory, in Postgres or in Redis and run by the workers of one or
several servers. The model is translated from the code at the commit in `src/`; line
references are in `PROJECT.json` ("map").

## 1. The system

Paths are relative to `src/src/`.

| Component | State | Operations | Hard behaviour |
|---|---|---|---|
| Job, state machine (`core/job.rs`, `core/job_state.rs`) | state, attempt, max_retries, expires_at, queue, priority | `set_state`, `can_transition_to` | storages write rows without asking `can_transition_to` |
| Processor, retry policy (`processing/processor.rs`, `retry.rs`, `worker.rs`) | none of its own: works on a copy of the row | `process_job`, `handle_job_retry`, `handle_execution_error`, `handle_job_timeout` | result is written from a copy minutes old; retry decision taken twice; attempt limits |
| MemoryStorage (`storage/memory.rs`) | job map, lock map, named locks, templates, servers | `enqueue`, `update`, `update_if_state`, `fetch_and_lock_job`, `claim_due_*`, `requeue_stranded_jobs`, `delete_expired_jobs` | several critical sections per call; locks that outlive attempts |
| PostgresStorage (`storage/postgres.rs`, `install.sql`) | `qml_jobs` and its lock columns, lock, template and server tables | the same, one statement each (`FOR UPDATE SKIP LOCKED`) | clocks of several hosts, crashes between statements |
| RedisStorage (`storage/redis.rs`) | job blobs, index sets, counters, locks, claim keys | the same, partly Lua scripts, partly several round trips | blob and indices change in separate commands |
| Server, worker loops (`processing/server.rs`) | running flag, shutdown token, registered id, task handles | `start`, `stop`, `worker_loop`, `schedule_recurring`, `remove_recurring` | `start` and `stop` hold the flag's lock only in part; tasks aborted at `shutdown_timeout`; recovery at start while others run |
| Scheduler (`processing/scheduler.rs`) | - | `claim_due_scheduled_jobs`, `claim_due_retry_jobs` per tick | competes with workers that pick up due rows themselves |
| Cleanup worker (`processing/cleanup.rs`) | - | `delete_expired_jobs`, `cleanup_expired_named_locks` | must take only what is over |
| Recurring jobs (`core/recurring.rs`, `processing/recurring.rs`) | templates: cron, next_run_at, enabled | `tick_once`, `advance`, `fetch_due_recurring_jobs`, `upsert_recurring_job` | claim and park, several pollers, operator's edits, crashes |
| Registry, heartbeat (`processing/heartbeat.rs`) | server rows | `register_server`, `heartbeat_server`, `list_dead_servers`, `reclaim_jobs_from_server`, `deregister_server` | late scans against late heartbeats; GET/SET in Redis |
| Named locks (three storages) | owner and expiry per resource | `try_acquire_lock`, `release_lock` | clock read before the wait for the table; late release; skew |
| Dashboard service (`dashboard/service.rs`, `routes.rs`) | - | `retry_job`, `delete_job`, statistics | read and compare-and-swap with anything in between |
| Dashboard server, WebSockets, guards (`dashboard/server.rs`, `websocket.rs`, `auth.rs`) | cancellation token, connections, broadcast channel, the page's sockets and timer | `run_until_cancelled`, `handle_socket`, `start_periodic_updates`, `require_auth`, `csrf_guard`, the page's script | shutdown against a storage that hangs; lagging receivers; overlapping reconnections |
| Middleware, metrics, state-change hook (`processing/middleware.rs`, `metrics.rs`) | counters, gauge | `Next::run`, `PrometheusMiddleware::call`, `apply_state_change` | code after an await that may be dropped; hook fires before the row is written |
| Schema installation, settings, errors | - | - | plumbing |

Servers interact through the storage only. A worker loop claims a row with
`fetch_and_lock_job`, runs it, and writes it back with `update`; scheduler, cleanup worker,
poller and heartbeat worker of every server call the same storage on timers; clients enqueue;
the dashboard retries and deletes. Nothing but storage calls orders these actors, so every
property below is about what may happen between two calls of one actor.

What makes the parts correct: a job is run by one worker at a time, and the result of an
attempt replaces nothing newer; rows follow the lifecycle, and deleted ones stay deleted;
attempts are bounded, every job comes to an end and is swept; a named lock has one holder;
an occurrence of a template is fired once, and templates are not lost; live servers stay
registered, dead ones are removed and their work recovered; a stop ends what its start began; what
metrics, hooks and pages show agrees with what is stored.

## 2. Modules

| Module | Models | Used by |
|---|---|---|
| `JobStates` | state machine, the row, relative instants | `JobProcessor` |
| `JobProcessor` | `process_job` as a function from claimed row and outcome to the row written; `RetryPolicy::should_retry` | the three queues, `JobExecution` |
| `JobQueue` | abstract job queue: what every storage promises of a job and of who runs it | the three queues |
| `MemoryQueue` | clients, dashboard, per-job locks, servers, workers, scheduler and cleanup over MemoryStorage | `MCMemoryQueue`, `MemoryQueue_proofs` |
| `PostgresQueue` | the same over the `qml_jobs` table, with crashing processes, failing writes, skewed clocks and queue filters | `MCPostgresQueue`, `PostgresQueue_proofs` |
| `RedisQueue` | the same over blobs, state sets, ZSETs and counters: scripts beside sequences of commands, cut short anywhere | `MCRedisQueue`, `RedisQueue_proofs` |
| `LockService` | abstract lock service: a resource passes from owner to owner through nobody | `NamedLocks` |
| `NamedLocks` | named locks of the three backends | `MCNamedLocks`, `NamedLocks_proofs` |
| `ServerLoops` | what the next two share: the backend, the bounds on delay and faults | `Recurring`, `ServerRegistry` |
| `Recurring` | templates, operator, pollers, on each backend | `MCRecurring`, `ServerLoops_proofs` |
| `ServerRegistry` | registry, heartbeat workers, start/stop/crash, the stamp on claimed rows | `MCServerRegistry`, `ServerLoops_proofs` |
| `ServerLifecycle` | `start` and `stop` of one server, called by several tasks, and the loops they spawn | `MCServerLifecycle`, `ServerLifecycle_proofs` |
| `RetryBackoff` | `calculate_delay` of every `RetryStrategy`, as the set of its possible results | `JobExecution` |
| `JobExecution` | `process_job` step by step: attempt count, middleware stack, metrics, hook, write | `MCJobExecution`, `JobExecution_proofs` |
| `DashboardGuards` | which requests reach a handler: refusal to start, layers, `require_auth`, `csrf_guard` | `Dashboard` |
| `Dashboard` | `run_until_cancelled`, requests in flight, the periodic task, `handle_socket`, the page's script | `MCDashboard`, `Dashboard_proofs` |

Correspondence. Actions carry the name of the function they stand for, in CamelCase. A
storage call that is one critical section, statement or script is one action; a call that is
several is split at exactly those points (`EnqueueCheck`/`EnqueueInsert`,
`RetryJobRead`/`RetryJobWrite`, `RequeueRead`/`RequeueWrite`, `ListDue`/`ClaimKey`/`ReadRow`/`ParkIndex`,
`HeartbeatServer`/`HeartbeatSet`, the five commands of `UpdateJobIndices` and
`RemoveJobIndices`). The claim and the write of an attempt are two actions,
`Fetch` and `Finish`; what `process_job` does in between touches only its own copy.
`wk[w].row` is that copy, `dash[d].row` the one of the dashboard.

`JobQueue` is what `storage/mod.rs` documents of the operations, without rows, clocks, locks or
indices. A job is new, waiting, claimed, succeeded, failed or gone, and has a set of runners. Only a
waiting job is claimed, and by one worker; only the runner of a claimed job settles it, back to
waiting or to an end; a runner may give up (`Abandon`), and only a claimed job that nobody runs is
recovered; only a failed job is retried by hand; what is removed stays away, even if its worker is
still busy with it. The mapping of each queue reads the status off the row's kind (`StatusOf`) and
the runners off the worker loops. Promotion by the scheduler, the passing of time, index commands
and lock traffic are stutters.

`ServerLifecycle` is cut at the await points of `start` and `stop`: `StartLock` to `StartWorkers`,
`StopCancel` to `StopJoined` or `StopTimeout`. Token, id and tasks carry the number of the run they
belong to. A task is spawned, idle in its `select!`, busy with a tick, hung or ended; what a tick does
to the storage is in the other modules, which in turn treat `start` and `stop` as steps.

`JobExecution` is cut where `process_job` awaits: the claim, the stack (at a layer that waits, or
at the worker), the write. An execution is at a depth of the stack; it is inside every counting
layer above that depth, and dropping it runs no code of them. `jobs_processed` and `workers_active`
change for all layers at once, since the layers return without an await in between.

In `Dashboard` the jobs are a version, and statistics the version their counts were read at. The
counts and the two lists are separate storage calls, hence `PeriodicCounts` and
`PeriodicBroadcast`, `ConnCounts` and `SendInitial`. The fallback of `get_job_statistics` (a sample
of 100 jobs when the counts fail) is taken for a success. A token that fires is in `cancelled`; a
storage that does not answer is `wedged`, and only steps without storage calls go on.

Time is relative: `timer`, `expires`, `ttl` count down to an instant, ages count up from one
and stop one above the largest value anything compares them with. No clock has to be bounded,
except in `Recurring`, where occurrences are absolute. Delays of `RetryStrategy` are a choice
from `RetryDelays` in the queues and those of `RetryBackoff` in `JobExecution`, ordering by priority and creation is the relation `Before`.

Where backends differ in one component, `backend` is a variable that `Init` picks from
`Backends` and no step changes.

## 3. Runs

| Run | Checks | Result |
|---|---|---|
| `memory_safety` | `NoDoubleExecution`, `RunnerOwnsRow`, `RunnerHoldsLock`, `LifecycleFollowed`, `ImplementsJobQueue` | hold |
| `memory_live` | `EveryJobSettles`, `FinalRowsSwept` | hold |
| `postgres_safety` | `NoDoubleExecution`, `RunnerOwnsRow`, `FailedLeavesByRetry`, `ImplementsJobQueue` | hold |
| `redis_safety` | `NoDoubleExecution`, `RunnerOwnsRow`, `StoredIsFound`, `CountsExact`, `ImplementsJobQueue` | hold |
| `locks` | `MutualExclusion`, `LeaseBacked`, `ImplementsLockService`, `ExpiredRowsCollected` | hold |
| `recurring_safety` | `NoTickFiredTwice`, `OneHolder` | hold |
| `recurring_live` | `ParkedIsHeld`, `DueTemplateFires` | hold |
| `registry` | `PromptServerStaysRegistered`, `DeadPeersCollected` | hold |
| `lifecycle` | `RunningIsServed`, `NoTaskLost`, `NoStaleRegistration`, `CancelledRunEnds` | hold |
| `execution` | `GaugeAccounts`, `HookAgreesWithRow`, `AttemptsWithinBudget`, `RetryFollowsBackoff` | hold |
| `dashboard` | `OnlyGuardedHandled`, `PeriodicEndsWithCall`, `NoUpdateMissed`, `PageKeepsTrying`, `CancelledCallReturns`, `PageCatchesUp` | hold |
| `registry_reclaim` | `DeadPeerJobsReclaimed` | violated (finding) |

What the newer runs show:

- `ImplementsJobQueue` of the three queues says at once what their other properties say piece by
  piece, and ties status and runners together: no claim of a job somebody runs, no result but the
  runner's, no recovery of a live attempt, no second life after success or removal.
- `OneHolder`: between claim and upsert a template is in one poller's hands. It is why an occurrence
  fires once: the poller that holds it is the one that advances it.

- `lifecycle`: `start` releases the flag before it has spawned anything, so a `stop` can cancel the
  token, take the handles and return while the same start still spawns tasks and pushes handles.
  Those tasks see the cancelled token and end by themselves (`CancelledRunEnds`), and one that hangs
  is at least in the list the next stop takes (`NoTaskLost`).
- `execution`: `workers_active` is right but for executions that were dropped, each of which leaves
  it one too high for good. A hook that told of a transition whose write failed is
  told again before the row says anything else, because the row is still Processing and the job
  runs again. Attempts exceed the budget by exactly those whose result was never written.
- `dashboard`: the guards, the shutdown and the live page, with at most one failure in a behaviour.
  `NoUpdateMissed` rests on the subscription coming first, `PageCatchesUp` on the
  page's timer and on the periodic task surviving failures.

Run one with `tlc -config MCMemoryQueue_safety.cfg MCMemoryQueue`.

Bounds, and why they are enough:

- `memory_safety`: one job, because its safety properties speak of one job at a time and jobs
  meet only in the order of fetching; two servers with a worker each, so that a recovery sweep
  meets a running attempt; two dashboard requests (interchangeable, hence the symmetry); three
  stops or panics, two manual retries. An attempt lasts up to `JobTimeout + MaxLag` = 2 ticks,
  `StaleAfter` is 2 and the lock lasts 3: each the smallest value above the one before it that
  the properties need, so that an error of one tick shows.
- `memory_live`: two jobs for one worker, one place in the storage (`MaxJobs` = 1), so that the
  capacity check refuses and, when two checks overlap, is overrun; a scheduled start and retry
  delays of 0 and 1.
- `postgres_safety`: two jobs on two queues, of which the second host serves one; clocks a tick
  apart; a retry delay and a failed ttl of one tick; `StaleAfter` = `JobTimeout + MaxLag + MaxSkew`; one crash or failed write, one manual retry
  per job.
- `redis_safety`: one job, since every script and command but the order of the queue concerns one
  id; two servers with a worker each, of which one fetches by queue and one runs the cleanup; a
  dashboard request; an attempt, and a recovery sweep, of up to one tick (`MaxLag`, with a timeout
  below a tick), and `StaleAfter` as short; two crashes or failing commands, so that a removal can be cut short and the
  job be recovered from a crash in one behaviour.
- `locks`: three owners, so that a third can profit from a wrong release by the first; ttls 1
  and 3, waits up to 2, so that a call can be older than the ttl it asks for; the Postgres
  sweeper one tick ahead.
- `recurring_safety`: two pollers, one template, period 2, seven instants and a schedule that
  ends at the sixth: three occurrences, two definitions, one fault. Ticks of a poller take up to
  two instants and the claim key lives five, so it expires within the run. The operator edits at
  any moment; `crossed` remembers the templates an edit of which overlapped a poller's work, for
  which the code promises less (see section 6).
- `recurring_live`: two templates and a batch of one; edits at any moment; nothing fails.
- `registry`: two server runs, one crash, one failing call. `DeadTimeout` is the smallest value
  that `TimeoutExceedsInterval` allows.

- `lifecycle`: two callers, two runs, one worker loop, three configurations: heartbeats, a scheduler
  whose interval is negative (its loop ends at once, the workers fall back to a second), workers
  with an interval of zero (a panic of tokio's interval). One fault: a registry call
  that fails, with or without effect, a tick that hangs, or a panic. Starts wait for stops
  (`OverlappingStart` = FALSE); stops overlap anything.
- `execution`: two workers, two jobs, one without a registered worker; the stack prometheus, guard,
  tracing, prometheus, so that a short circuit is seen by one counting layer and not by the
  other; four strategies with two attempts, a per-job cap of one; two faults, so that a job can lose
  an attempt twice.
- `dashboard`: one call, a page with two sockets, so that an old one can close or open after a new
  one; a channel of one message, so that receivers lag; one change, one fault; a guarded, a refused and
  an unparsable configuration; deletes with every combination of headers that matters.

Deadlock is checked in every run but `lifecycle`, `execution` and `dashboard`: a server stopped for
the last time, jobs all settled and a dashboard that was shut down have nothing left to do.

Fairness. Tokio polls every task that is ready, so workers, pollers, schedulers and heartbeat
workers get weak fairness on their steps; an attempt ends because of `job_timeout`; storage
calls return; time passes; whoever operates a server starts it. Stops, panics, crashes, faults,
dashboard requests, clients and operators owe nothing. `FetchNone` needs none: an empty fetch
only sweeps locks, and `EveryJobSettles` rests on a worker that finds its job. In `lifecycle` a
call that has begun goes on, `shutdown_timeout` elapses and tasks are polled; ticks end unless they
hang; nobody has to call `start` or `stop`. In `dashboard` the tasks are polled, timers of
server and browser fire, a storage that answers does so; requests, cancellations, failures and the
recovery of the storage are owed by nobody.

Conditions. `NoDoubleExecution` needs `StaleOutlastsAttempt`: `stale_processing_after` at least
`job_timeout` plus scheduling delay (plus clock skew over Postgres). The defaults, both five
minutes, do not satisfy it. Over Redis it also needs `SerialStarts`, servers that are started one
after the other, and `StoredIsFound` needs `QuickEnqueues`, enqueues that are done before the job they schedule is due.
`PromptServerStaysRegistered` needs `TimeoutExceedsInterval`. `MutualExclusion` over Postgres needs `SkewBounded`; `NoTickFiredTwice` in Redis a claim key
(60 s) that outlives two ticks of a poller. `RunningIsServed` needs starts that wait for a stop to
return; `PeriodicEndsWithCall` a call that could bind its port; `CancelledCallReturns` no request
that hangs.

## 4. Proofs

TLAPS proves the following for all values of the constants allowed by the ASSUMEs: any number of
jobs, workers, servers, callers, sockets, faults, any timeouts. All statements are `Spec => []P`,
or `Spec => P` where P is an action property or a refinement. Each module also proves
`TypeCorrect`, `Spec => []TypeOK`. `TypeOK` and `GoneForGood` have no run of their own: the first is proved
for every module, the second follows from `ImplementsJobQueue` and is proved without its conditions.

| Module | Theorem | Property | Condition |
|---|---|---|---|
| `MemoryQueue_proofs` | `NeverTwice` | `NoDoubleExecution` | `StaleOutlastsAttempt` |
| | `RunnerOwnsClaim` | `RunnerOwnsRow` | `StaleOutlastsAttempt` |
| | `LifecycleHolds` | `LifecycleFollowed` | `StaleOutlastsAttempt` |
| | `RunnerKeepsLock` | `RunnerHoldsLock` | `StaleOutlastsAttempt`, `LockOutlastsAttempt` |
| | `GoneStaysGone` | `GoneForGood` | - |
| | `MemoryKeepsPromise` | `ImplementsJobQueue` | `StaleOutlastsAttempt` |
| `PostgresQueue_proofs` | `NoJobRunsTwice` | `NoDoubleExecution` | `StaleOutlastsAttempt`, with skew |
| | `ResultReplacesOwnClaim` | `RunnerOwnsRow` | the same |
| | `FailedNeedsRetry` | `FailedLeavesByRetry` | the same |
| | `PostgresKeepsPromise` | `ImplementsJobQueue` | the same |
| `RedisQueue_proofs` | `NoJobRunsTwice` | `NoDoubleExecution` | `StaleOutlastsAttempt`, `SerialStarts` |
| | `ResultReplacesOwnClaim` | `RunnerOwnsRow` | the same |
| | `StoredJobsFound` | `StoredIsFound` | `QuickEnqueues` |
| | `CountersExact` | `CountsExact` | - |
| | `GoneStaysGone` | `GoneForGood` | - |
| | `RedisKeepsPromise` | `ImplementsJobQueue` | `StaleOutlastsAttempt`, `SerialStarts` |
| `NamedLocks_proofs` | `LocksExclude` | `MutualExclusion` | `SkewBounded` |
| | `LeasesBacked` | `LeaseBacked` | `SkewBounded` |
| | `LocksRefine` | `ImplementsLockService` | `SkewBounded` |
| `ServerLoops_proofs` | `PromptServerKept` | `PromptServerStaysRegistered` | `TimeoutExceedsInterval` |
| | `OccurrencesFireOnce` | `NoTickFiredTwice` | `KeyOutlives` |
| | `OnePollerHolds` | `OneHolder` | `KeyOutlives` |
| | `ParkedTemplatesHeld` | `ParkedIsHeld` | `MaxFaults = 0` |
| `ServerLifecycle_proofs` | `TasksKept` | `NoTaskLost` | - |
| | `RegistryLeftClean` | `NoStaleRegistration` | `~OverlappingStart` |
| | `RunningServed` | `RunningIsServed` | `~OverlappingStart` |
| `JobExecution_proofs` | `HookTellsTheRow` | `HookAgreesWithRow` | - |
| | `GaugeIsExact` | `GaugeAccounts` | - |
| | `BudgetKept` | `AttemptsWithinBudget` | `BudgetsFit` |
| | `RetriesFollowBackoff` | `RetryFollowsBackoff` | - |
| `Dashboard_proofs` | `RequestsAreGuarded` | `OnlyGuardedHandled` | - |
| | `TaskEndsWithCall` | `PeriodicEndsWithCall` | - |
| | `UpdatesArrive` | `NoUpdateMissed` | - |
| | `PageNeverGivesUp` | `PageKeepsTrying` | - |

The conditions are about the configuration or its use, they are the ones of section 3, and every
run that checks one of these properties satisfies them. `LockOutlastsAttempt` says that the lock of
`fetch_and_lock_job` (30 minutes) outlasts an attempt and that lock clients are not workers;
`BudgetsFit` that a budget of attempts fits the u32 they are counted in; `KeyOutlives` that the
Redis claim key (60 s) lives longer than two ticks of a poller may take. `ParkedIsHeld` is a promise
only while no poller dies and no call fails (section 6). `ServerLoops_proofs` covers `ServerRegistry` and `Recurring`, whose specification is
called `CronSpec` so that one module can extend both; its type theorem is `RecurringTypes`.
`JobExecution` assumes that
the strategies are those of `RetryStrategy`, with a multiplier of at least one, and, because the
provers know nothing of `^`, its defining equations for the multipliers in use (`PowerAssumption`,
evaluated by TLC).

### The inductive invariants

Memory and Postgres queues. `NoDoubleExecution` alone is not inductive: a state in which a worker runs
a job whose row says Enqueued has one runner, and the next fetch makes it two. `ClaimInv` adds what
rules such states out: the row of a running job is that worker's claim (`RunnerOwnsRow`), exactly as old as
the attempt; an attempt is never older than `JobTimeout + MaxLag` (`RunnerInTime`); an id is inserted
once; what a dashboard request is about to write is an Enqueued row (over memory `PendingRows`,
which only `LifecycleFollowed` needs). The start of a server is the step
that needs the configuration: with `StaleOutlastsAttempt` a row as old as a live attempt is not stale, over
Postgres not on any host's clock. `Finish` is the step that needs `NoDoubleExecution`
itself: the write goes to a row nobody else runs. `LifecycleFollowed` and `FailedLeavesByRetry` follow from the
invariant step by step; `RunnerHoldsLock` needs `LockCovers`, that the rest of the lock and the
age of the attempt add up to the whole ttl. `GoneForGood` needs no more than types.

Redis queue. The same claim invariant, plus the part the other backends do not have: a recovery
sweep writes a copy it read before, without a compare. `SweepSafe` says that the job of which a
sweep holds a copy is still the stale claim it read, or gone, and run by nobody. It is inductive
only if at most one server starts at a time (`OneStarting`): of two sweeps one may have requeued what
the other is about to write, which is the behaviour section 6 describes. `FoundInv` describes the
index command by command: a job that no claim has reached is as its enqueue made it
(`FreshOK`), and the index of any whole job is complete as far as its enqueue has come
(`IndexOK`). A ZREM of an enqueue that is under way is then harmless, because the job it concerns is
not Enqueued yet or its ZADD is still to come. `CountInv` is the account behind the counters: while
nothing was cut short or crossed, a counter is the number of stored jobs in its state, minus
those stored and not yet counted, plus those a dashboard deleted and has not yet discounted, minus those a
cleanup discounted and has not yet deleted.

The abstract job queue. Each refinement rests on the claim invariant of its queue and maps every
action to one abstract step or a stutter: with `RunnerOwnsRow` a write comes from the one runner of a
claimed job, with the age argument a recovery takes only jobs without one. Three steps need more.
The dashboard's compare-and-swap over memory needs `PendingRows`, that what it is about to write is an
Enqueued row. The crash of a Postgres server frees all its workers in one abstract step, and its
restart recovers rows, so `DownOff` says that workers of a server that is down run nothing. The write
of a Redis sweep is a `Recover` because of `SweepSafe`.

Named locks. `LockInv` adds `LeaseBacked`: whatever is left of a lease is backed by an entry of its owner
that lasts at least as long. An acquisition stamps the table no earlier than the lease ends, a call
of any age takes an entry with time left for live, no sweep removes one, and a release touches only
the releaser's own entry. The refinement maps the abstract holder of a resource to the owner whose
lease has time left; a step either ends leases (`End`) or grants one to an owner while
nobody else has it (`Grant`).

Registry. `PromptInv` bounds the age of a live server's row by what its worker has spent since the
last tick plus one cycle per fault (`Allowance`), and remembers that whom a worker took for dead, or
is about to deregister, is over for good (`DeadAreOver`). With `TimeoutExceedsInterval` no list is ever drawn up with
a live server in it.

Recurring jobs. `FiringInv` follows the occurrence a template is at: everything fired lies before the
occurrence that a row which can be listed names (`TemplateOK`), that a poller's copy names
before it is fired, and that the advanced copy names afterwards (`PairOK`). No two pollers may have
claimed one template (`AloneWith`): over memory and Postgres because the claim parks the row in
the same step, over Redis because of the claim key, whose rest and the poller's time add up to its
whole life (`KeyInv`). That, and a listing older than the key of another's claim, is where
`KeyOutlives` is needed. Templates in `crossed`, an edit of which overlapped a firing, are exempt, as in the
properties. `ParkInv`, with no exemption, says that a parked template is held by a poller whose copy
is not parked, so that the write ends the parking.

Lifecycle. `NoTaskLost` needs only `Shape`. The other two need `Serial`: whoever is in the locked
part of `start` is alone with a token nobody cancelled, and a server that runs has its own token, id and
no stop in progress. To it `RowOwned` adds that every row of the registry has somebody who will remove it, `Serving`
that handles and unfinished starts belong to the current or a cancelled run and that each task of
the current run is listed or will be.

Execution. `HookInv`: a worker holds its row alone, the row stays Processing while it does, and between
hook and write the hook was told what will be written. `GaugeInv` adds the gauge; the proof counts pairs of worker and
layer, and follows how `depth` moves through the stack. `CountInv` adds that the copy in memory is
one attempt ahead of its row, that a row that may run again has an attempt left, and that a row at rest
has counted every attempt begun and not lost. `DateInv` adds that rows and copies that wait for a retry
are dated by their own attempt count; a retry is only asked for while the policy has a delay for it,
so the fallback of 60 seconds is never taken. That the recursive `Grown` is a
power (`GrownIsPower`) is proved from the least attempt at which it would not be, the form of
induction that needs no operator as a parameter.

Dashboard. `DashInv`: a periodic task runs only for a call that has not ended it; what a receiver
buffers ends with what was broadcast last, and where it buffers nothing, what was read or sent is as
new, which needs that no statistics are newer than the jobs; the page's timer is never a cleared handle.

### Only model-checked

- Liveness under fairness (`EveryJobSettles`, `FinalRowsSwept`, `ExpiredRowsCollected`,
  `DueTemplateFires`, `DeadPeersCollected`, `CancelledRunEnds`, `CancelledCallReturns`,
  `PageCatchesUp`): beyond the prover.
- `DeadPeerJobsReclaimed` is refuted by its run (section 5), so there is nothing to prove.

Every safety property that a passing run checks is also a theorem.

## 5. Findings

In `PROJECT.json`, with the run that shows it:

- `registry_reclaim`: a claimed row is stamped with `"memory-storage"`, `"postgres-storage"` or
  `"redis-storage"`, so `reclaim_jobs_from_server(peer id)` matches nothing.

## 6. Other disagreements met while modelling

The models contain these behaviours; no run is kept for them. The first four are shown by TLC with
one setting or property changed:

- With `retry_on_all_exceptions = false` a listed exception is not retried: `handle_job_retry` asks
  `should_retry_attempt(job, None)` again (`processor.rs:339`), which returns the flag;
  `retry.rs:184` documents "Specific exception types to retry on". In `MCMemoryQueue_safety.cfg`
  set `RetryOnAll = FALSE`, `Retryable = {"WorkerError"}` and check `ListedErrorsAreRetried`.
- Over Redis two servers that start at once both find a stranded job. One requeues it and its worker
  claims it; the other writes the copy it read before, Enqueued, over the claim, and its own worker
  runs the job a second time (`redis.rs:1006`; `README.md:365`: "no double-dispatch"). In
  `MCRedisQueue_safety.cfg` set `SerialStarts = FALSE`; `RunnerOwnsRow` fails first,
  and `NoDoubleExecution` when it is the only invariant.
- A poller that dies between claim and upsert leaves the template parked ten years ahead
  (`memory.rs:553`; `README.md:175`: "survives restarts"). In `MCRecurring_live.cfg` set
  `MaxFaults = 1`; `ParkedIsHeld` fails.
- A `start` that overlaps the `stop` of the run before loses the new run's id, and its
  handles, to that stop, which deregisters a running server and aborts its tasks after the grace
  period (`server.rs:491`; the comment on `server_id` says it is `None` "when heartbeats are off or between
  start cycles"). In `MCServerLifecycle_serial.cfg` set `OverlappingStart = TRUE`;
  `IdWhileRunning` and `RunningIsServed` fail.

The rest was met while translating the code:

- The gauge `qml_workers_active` leaks one for every execution that ends by a timeout, a panic or an
  abort (`metrics.rs:245`: "decremented after `next.run` returns"): `dropped` in `GaugeAccounts`.
- The hook fires before `storage.update`; a write that fails was observed and is never persisted
  (`processor.rs:39`: "Fires exactly once per persisted transition").
- `extract_previous_exception` looks for a Failed or AwaitingRetry state, but a claimed job is
  Processing: a worker's context never has a previous exception.
- Jitter is applied after the cap, so a retry may wait a quarter longer than `max_delay`. A worker
  that asks for a retry without `retry_at` gets the policy's delay.
- A `job_timeout` that `to_std` refuses panics the worker at its first job (`processor.rs:240`); an
  interval of zero panics every loop at its start.
- A dashboard that cannot bind its port returns and leaves the periodic task running
  (`dashboard/server.rs:149`: "so the task can't outlive this call"): `unbound`.
- `require_auth` is the outer layer: a cross-site request without credentials gets a 401
  (`dashboard/server.rs:240`: CSRF is "Applied before auth ... without leaking an auth challenge").
- The hosts `localhost` and `::1` count as loopback and then fail to parse as an address; the
  refusal says "bind to localhost" (`dashboard/server.rs:136`).
- The page calls `job.state.toLowerCase()`; a serialized state is an object, so the script throws with the
  first recent job and neither table is filled.
- The page's `setInterval` may open a second socket while the first still connects; both stay open.
- WebSocket tasks do not look at the token and survive `shutdown`. A request that hangs in the
  storage holds up the graceful shutdown without a bound. `start` after `shutdown` ends at
  once: the token is never renewed.
- `get_jobs` and `get_queue_jobs` filter by queue after the limit was applied.
- A Processing row whose worker is gone stays so until some server starts: nothing looks at an
  expired lock of a Processing row. `processing/server.rs:52` speaks of "lock-expiry /
  stale-processing recovery".
- The 30 minute lock of `fetch_and_lock_job` in MemoryStorage survives the attempt, so a retry
  waits for it; `storage/mod.rs:292` calls available jobs "ready to be processed immediately".
- `stale_processing_after` defaults to the value of `job_timeout`; `processing/server.rs:58` says
  it "should comfortably exceed" it. With equal values a starting server requeues a live attempt.
- `enqueue` of MemoryStorage checks capacity and inserts under separate locks, so concurrent
  clients exceed "Maximum number of jobs to keep in memory" (`storage/config.rs:35`).
- `retry_job` compares only the kind: after Failed, retried, Failed again, a slow request writes
  the older row and forgets attempts (`dashboard/service.rs:273`).
- The attempt is counted on the worker's copy and lost when the worker dies (`core/job.rs:183`:
  "each time it begins executing the job").
- `timeout_seconds` of a job is never read (`core/job.rs:504`: "it will be cancelled").
- Over Postgres `fetch_and_lock_job` ignores the lock columns of `try_acquire_job_lock`
  (`storage/mod.rs:390`: "an exclusive per-job lock").
- `cleanup_expired_named_locks` over Postgres compares with the server's clock, the locks are
  stamped with the database's: a sweeper two ticks ahead removes a lock with time left.
- The poller upserts the copy it claimed over a definition stored meanwhile
  (`processing/server.rs:543`: "replaces the previous definition"), and a template scheduled again
  while it is being fired can be fired twice for one tick (`README.md:64`).
- The Redis claim key lives 60 s whether or not the firing is over: a template with a shorter
  period is fired late.
- Over Redis a heartbeat in flight during `stop` writes the row back without its index entry,
  which no scan finds again.
- `fetch_and_lock_job` over Postgres and Redis claims an AwaitingRetry row without looking at
  `retry_at` (`postgres.rs:1316`); in Redis it only does so for rows in the ZSETs, which are those
  whose delay was already over when they were written. `storage/mod.rs:294` calls jobs available
  whose "retry time has passed".
- A job retried from the dashboard keeps the `expires_at` of its failure (`dashboard/service.rs:294`),
  and `delete_expired_jobs` removes it whatever its state; `storage/mod.rs:348` says "in-flight jobs
  should never carry an `expires_at`".
- Over Redis, a scheduled job that becomes due while it is being enqueued can be promoted between the
  SADD of its state set and the ZREM of its own enqueue, which then takes it out of the ZSETs: it is
  Enqueued and no fetch finds it (`QuickEnqueues`).
- Over Redis, a removal decrements the counter of the state it read. If the job changes state, or
  another cleanup worker removes it, in between, counters and state sets drift (`drift`). A removal
  or an enqueue that is cut short leaves entries without a blob or a blob without entries (`torn`).
- Over Redis, promoted jobs have the bare priority as score, enqueued ones priority plus creation
  time in kiloseconds: promoted jobs come after enqueued ones of a much lower priority, and among
  equals the newest comes first (`Above`), where the other backends take the oldest.
- Over Redis, `requeue_stranded_jobs` leaves the per-job lock (`storage/mod.rs:414`), and that
  lock's key ignores `key_prefix`.
- Worker ids are `{server_name}:worker:{n}`: servers with one name have workers with equal ids.
  The model gives every worker an id of its own.

## 7. Plan

Done: the queue over MemoryStorage, Postgres and Redis, the abstract queue all three implement, named
locks, recurring jobs, registry, server lifecycle, execution with hook, middleware and metrics,
dashboard; proofs of every safety property of theirs. Left, in order of importance:

1. `SchemaMigration`: several servers installing the schema at once.
2. Liveness of the abstract job queue, as a property of the detailed queues under fairness that
   speaks of claims and results only.

## 8. Not modelled

Payloads, serialization and SQL row decoding; cron parsing beyond "next occurrence after"; the
contents of listings and counts; histograms and the text format of the metrics; configuration builders
and environment variables, whose values are the constants; schema installation (DDL whose
effect is the database's); `broadcast_job_update` and `broadcast_statistics_update`, which
nothing in the crate calls; the explicit per-job lock of Redis, which nothing reads.
