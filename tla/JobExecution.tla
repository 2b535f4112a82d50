---------------------------- MODULE JobExecution ------------------------------
(***************************************************************************)
(* What an execution shows to the outside: JobProcessor::process_job with  *)
(* its state-change hook (processing/processor.rs), the middleware stack   *)
(* around the worker (processing/middleware.rs), the Prometheus metrics    *)
(* (processing/metrics.rs) and the delay of a retry (RetryBackoff).        *)
(*                                                                         *)
(* The storage is a table of rows with an atomic claim; who may requeue    *)
(* what, and when, is the subject of the queue modules.  A middleware      *)
(* layer is of one of three kinds: "tracing" passes the call on,           *)
(* "prometheus" counts, "guard" is a layer of the application that may     *)
(* answer itself (or wait) instead of calling next.run.  No time: a job    *)
(* may exceed its timeout, and a retry come due, at any moment.            *)
(***************************************************************************)
EXTENDS JobProcessor, RetryBackoff, Sequences, FiniteSets

CONSTANTS Workers,         \* worker loops
          Stack,           \* the middleware, outermost first
          Strategies,      \* the retry strategies looked at
          AskedDelays,     \* delays a worker asks for with retry_at
          FallbackDelay,   \* the 60 seconds of handle_job_retry
          MaxFaults        \* bound: tasks that die, writes that fail

NoJob == "no job"       \* the job of an idle loop

ASSUME ExecutionAssumption ==
    /\ IsFiniteSet(Workers)
    /\ NoJob \notin Jobs
    /\ Stack \in Seq({"tracing", "prometheus", "guard"})
    /\ \A s \in Strategies : MaxAttempts(s) = PolicyMaxAttempts
    /\ AskedDelays \subseteq Nat /\ FallbackDelay \in Nat
    /\ MaxFaults \in Nat

ASSUME StrategyAssumption == Strategies \subseteq RetryStrategy

\* The powers of a multiplier, as Naturals defines them.
ASSUME PowerAssumption ==
    \A s \in Strategies : s.type = "exponential" =>
        /\ s.multiplier ^ 0 = 1
        /\ \A n \in 0..PolicyMaxAttempts :
              s.multiplier ^ n \in Nat /\ s.multiplier ^ (n + 1) = s.multiplier ^ n * s.multiplier

VARIABLES
    strategy,
    row,         \* [Jobs -> row in the storage]
    slot,        \* [Workers -> what the loop does, and its copy of the job]
    workers_active, jobs_processed,    \* the gauge, and the counter per state
    observed,    \* [Jobs -> the state the hook was last told]
    dropped,     \* executions inside a prometheus layer that were dropped
    started,     \* [Jobs -> attempts begun]
    lost,        \* [Jobs -> attempts begun and never written]
    faults

vars == <<strategy, row, slot, workers_active, jobs_processed, observed, dropped, started, lost,
          faults>>

Idle == [pc |-> "idle", id |-> NoJob, copy |-> NoRow, depth |-> 0]
Labels == {"succeeded", "retry", "failed", "error"}

TypeOK ==
    /\ strategy \in Strategies
    /\ row \in [Jobs -> JobRow(Workers)]
    /\ slot \in [Workers -> [pc: {"idle", "claimed", "run", "write", "gone"},
                             id: Jobs \cup {NoJob}, copy: JobRow(Workers), depth: 0..Len(Stack)]]
    /\ workers_active \in Nat /\ jobs_processed \in [Labels -> Nat]
    /\ observed \in [Jobs -> Kinds \cup {"None"}]
    /\ dropped \in Nat /\ faults \in 0..MaxFaults
    /\ started \in [Jobs -> Nat] /\ lost \in [Jobs -> Nat]

Init ==
    /\ strategy \in Strategies
    /\ row = [j \in Jobs |-> NewJob("Enqueued", 0)]
    /\ slot = [w \in Workers |-> Idle]
    /\ workers_active = 0 /\ jobs_processed = [l \in Labels |-> 0]
    /\ observed = [j \in Jobs |-> "None"]
    /\ dropped = 0 /\ faults = 0
    /\ started = [j \in Jobs |-> 0] /\ lost = [j \in Jobs |-> 0]

Metrics == <<workers_active, jobs_processed, dropped>>
Held(j) == \E w \in Workers : slot[w].id = j

------------------------------------------------------------------------------
(* The storage.                                                            *)

\* fetch_and_lock_job.
Fetch(w, j) ==
    LET claimed == [SetState(row[j], "Processing", 0) EXCEPT !.worker = w] IN
    /\ slot[w].pc = "idle" /\ row[j].kind = "Enqueued"
    /\ row' = [row EXCEPT ![j] = claimed]
    /\ slot' = [slot EXCEPT ![w] = [Idle EXCEPT !.pc = "claimed", !.id = j, !.copy = claimed]]
    /\ UNCHANGED <<strategy, Metrics, observed, started, lost, faults>>

\* The scheduler promotes a retry that is due.
Promote(j) ==
    /\ row[j].kind = "AwaitingRetry"
    /\ row' = [row EXCEPT ![j] = SetState(@, "Enqueued", 0)]
    /\ UNCHANGED <<strategy, slot, Metrics, observed, started, lost, faults>>

\* requeue_stranded_jobs, once nobody works on the job any more.
Requeue(j) ==
    /\ row[j].kind = "Processing" /\ ~Held(j)
    /\ row' = [row EXCEPT ![j] = SetState(@, "Enqueued", 0)]
    /\ UNCHANGED <<strategy, slot, Metrics, observed, started, lost, faults>>

------------------------------------------------------------------------------
(* The middleware stack.                                                   *)

\* The layers an execution is inside of, when the one that waits is the depth'th.
Counting(depth) == Cardinality({i \in 1..depth : Stack[i] = "prometheus"})

\* Where Next::run can come to: a guard that keeps the call, or through all
\* the layers to the worker.
Depths == {i \in 1..Len(Stack) : Stack[i] = "guard"} \cup {Len(Stack)}

\* How the middleware reports the result of the layers below.
Label(outcome) ==
    CASE outcome = "success" -> "succeeded"
      [] outcome = "retry"   -> "retry"
      [] outcome = "failure" -> "failed"
      [] OTHER               -> "error"

\* Mutant: an error passes the layer by, as with a `?` on next.run.
LeaveUnlessError(depth, outcome) ==
    IF outcome \in ErrorTypes THEN UNCHANGED <<workers_active, jobs_processed>>
    ELSE /\ workers_active' = workers_active - Counting(depth)
         /\ jobs_processed' = [jobs_processed EXCEPT ![Label(outcome)] = @ + Counting(depth)]

\* The layers return one after the other: each prometheus layer counts the
\* result and leaves the gauge.
Leave(depth, outcome) ==
    /\ workers_active' = workers_active - Counting(depth)
    /\ jobs_processed' = [jobs_processed EXCEPT ![Label(outcome)] = @ + Counting(depth)]

\* The future of the stack is dropped: nothing of the layers runs any more.
Drop(depth) ==
    /\ dropped' = dropped + Counting(depth)
    /\ UNCHANGED <<workers_active, jobs_processed>>

------------------------------------------------------------------------------
(* process_job.                                                            *)

\* When a retry may be due: as the worker asked, as the policy says, or after
\* the fallback of handle_job_retry.
Delays(outcome, attempt) ==
    LET calculated == CalculateDelay(strategy, attempt)
    IN  (IF calculated # {} THEN calculated ELSE {FallbackDelay})
        \cup (IF outcome = "retry" THEN AskedDelays ELSE {})

\* Mutant: the hook is told the state the job leaves.
ReportPrevious(w, after) ==
    /\ slot' = [slot EXCEPT ![w].pc = "write", ![w].copy = after, ![w].depth = 0]
    /\ observed' = [observed EXCEPT ![slot[w].id] = slot[w].copy.kind]

\* The end of an attempt in memory: the new state is set and the hook is told,
\* before the row is written.
Report(w, after) ==
    /\ slot' = [slot EXCEPT ![w].pc = "write", ![w].copy = after, ![w].depth = 0]
    /\ observed' = [observed EXCEPT ![slot[w].id] = after.kind]

\* WorkerRegistry::get_worker, by the method of the job.
GetWorker(j) == j \in Registered

\* From the claim to the first await: the attempt is counted, the worker
\* looked up, the stack entered.  Without a worker the job fails at once.
Begin(w) ==
    LET j == slot[w].id
        counted == CountAttempt(slot[w].copy)
    IN  /\ slot[w].pc = "claimed"
        /\ started' = [started EXCEPT ![j] = @ + 1]
        /\ IF GetWorker(j)
           THEN \E d \in Depths :
                   /\ slot' = [slot EXCEPT ![w].pc = "run", ![w].copy = counted, ![w].depth = d]
                   /\ workers_active' = workers_active + Counting(d)
                   /\ UNCHANGED observed
           ELSE /\ Report(w, FailJobPermanently(counted))
                /\ UNCHANGED workers_active
        /\ UNCHANGED <<strategy, row, jobs_processed, dropped, lost, faults>>

\* The worker, or the guard, returns.
Complete(w, outcome) ==
    /\ slot[w].pc = "run" /\ outcome # "timeout"
    /\ Leave(slot[w].depth, outcome)
    /\ \E d \in Delays(outcome, slot[w].copy.attempt) :
          Report(w, ProcessJob(slot[w].id, slot[w].copy, outcome, d))
    /\ UNCHANGED <<strategy, row, dropped, started, lost, faults>>

\* job_timeout elapses: the stack is dropped where it stands.
Timeout(w) ==
    /\ slot[w].pc = "run"
    /\ Drop(slot[w].depth)
    /\ \E d \in Delays("timeout", slot[w].copy.attempt) :
          Report(w, ProcessJob(slot[w].id, slot[w].copy, "timeout", d))
    /\ UNCHANGED <<strategy, row, started, lost, faults>>

\* storage.update.
Write(w) ==
    /\ slot[w].pc = "write"
    /\ row' = [row EXCEPT ![slot[w].id] = slot[w].copy]
    /\ slot' = [slot EXCEPT ![w] = Idle]
    /\ UNCHANGED <<strategy, Metrics, observed, started, lost, faults>>

Fault == faults < MaxFaults /\ faults' = faults + 1
LoseAttempt(j) == lost' = [lost EXCEPT ![j] = @ + 1]

\* The update fails: worker_loop logs the error and goes on.
WriteFails(w) ==
    /\ slot[w].pc = "write" /\ Fault
    /\ LoseAttempt(slot[w].id)
    /\ slot' = [slot EXCEPT ![w] = Idle]
    /\ UNCHANGED <<strategy, row, Metrics, observed, started>>

\* The job panics, or the task is aborted at shutdown_timeout.
Die(w) ==
    /\ slot[w].pc \in {"claimed", "run", "write"} /\ Fault
    /\ IF slot[w].pc = "claimed" THEN UNCHANGED lost ELSE LoseAttempt(slot[w].id)
    /\ Drop(slot[w].depth)
    /\ slot' = [slot EXCEPT ![w] = [Idle EXCEPT !.pc = "gone"]]
    /\ UNCHANGED <<strategy, row, observed, started>>

\* The server is started again.
Restart(w) ==
    /\ slot[w].pc = "gone"
    /\ slot' = [slot EXCEPT ![w] = Idle]
    /\ UNCHANGED <<strategy, row, Metrics, observed, started, lost, faults>>

Next ==
    \/ \E w \in Workers : \/ \E j \in Jobs : Fetch(w, j)
                          \/ Begin(w) \/ \E o \in Outcomes : Complete(w, o)
                          \/ Timeout(w) \/ Write(w) \/ WriteFails(w) \/ Die(w) \/ Restart(w)
    \/ \E j \in Jobs : Promote(j) \/ Requeue(j)

Spec == Init /\ [][Next]_vars

------------------------------------------------------------------------------
(* Properties.                                                             *)

\* The executions inside a prometheus layer now.
Insiders == {p \in Workers \X (1..Len(Stack)) :
                p[2] <= slot[p[1]].depth /\ Stack[p[2]] = "prometheus"}
Inside == Cardinality(Insiders)

\* The gauge has one for every execution inside the layer, and beyond that
\* exactly those that were dropped, by a timeout, a panic or an abort: no
\* result of a worker, Ok or Err, leaves it wrong (PrometheusMiddleware::call).
GaugeAccounts == workers_active = Inside + dropped

\* A row that says how its job went says what the hook was last told of that
\* job, also when an earlier write failed or a task died between the hook and
\* the write, and the job ran again (apply_state_change, storage.update).
HookAgreesWithRow ==
    \A j \in Jobs : row[j].kind \in {"Succeeded", "Failed", "AwaitingRetry"} =>
                        observed[j] = row[j].kind

\* Attempts a job may have: the first, and the retries both limits allow.
Budget(j) == 1 + (IF MaxRetries[j] > 0 /\ MaxRetries[j] < PolicyMaxAttempts
                  THEN MaxRetries[j] ELSE PolicyMaxAttempts)

\* A job is begun no more often than its budget allows, but for the attempts
\* whose count was lost with the copy in memory (should_retry_attempt, the
\* attempt counted by process_job): no path counts an attempt twice or retries
\* after the last.
AttemptsWithinBudget == \A j \in Jobs : started[j] <= Budget(j) + lost[j]

\* The backoff, as the documentation of RetryStrategy puts it: the delay after
\* the n-th attempt, before jitter.
Reference(n) ==
    CASE strategy.type = "fixed"  -> strategy.interval
      [] strategy.type = "linear" ->
            AtMost(strategy.initial_delay + (n - 1) * strategy.increment, strategy.max_delay)
      [] strategy.type = "exponential" ->
            AtMost(strategy.initial_delay * strategy.multiplier ^ (n - 1), strategy.max_delay)

\* A retry is dated where the n-th backoff lies, give or take the quarter the
\* jitter moves it, or where the worker asked for it, n being the attempts
\* stored with the row (handle_job_retry, calculate_delay).
RetryFollowsBackoff ==
    \A j \in Jobs : row[j].kind = "AwaitingRetry" =>
        LET exact == Reference(row[j].attempt)
            quarter == IF strategy.type = "exponential" /\ strategy.jitter THEN exact \div 4 + 1 ELSE 0
        IN  row[j].timer \in AskedDelays \cup (exact - quarter)..(exact + quarter)

==============================================================================
