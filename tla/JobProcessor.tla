---------------------------- MODULE JobProcessor -----------------------------
(***************************************************************************)
(* What JobProcessor::process_job (processing/processor.rs) makes of a     *)
(* claimed job: the row it hands to storage.update when the attempt is     *)
(* over.  The retry decision is RetryPolicy::should_retry                  *)
(* (processing/retry.rs); how long the retry waits is a choice from        *)
(* RetryDelays, which stands for calculate_delay with its jitter and for   *)
(* the retry_at a worker may ask for itself.                               *)
(***************************************************************************)
EXTENDS JobStates

CONSTANTS Jobs,              \* job ids
          MaxRetries,          \* [Jobs -> Nat]: Job::max_retries, 0 = no per-job cap
          Registered,          \* the jobs whose method has a registered worker
          PolicyMaxAttempts,   \* RetryStrategy::max_attempts(), 0 for RetryStrategy::None
          RetryOnAll,          \* RetryPolicy::retry_on_all_exceptions
          Retryable,           \* RetryPolicy::retryable_exceptions
          NonRetryable,        \* RetryPolicy::non_retryable_exceptions
          RetryDelays,         \* ticks a retry may have to wait
          SucceededTtl,        \* ServerConfig::succeeded_ttl
          FailedTtl,           \* ServerConfig::failed_ttl
          AttemptMax           \* u32::MAX, where saturating_add stops

ASSUME ProcessorAssumption ==
    /\ MaxRetries \in [Jobs -> Nat]
    /\ PolicyMaxAttempts \in Nat
    /\ RetryOnAll \in BOOLEAN
    /\ RetryDelays \subseteq Nat
    /\ SucceededTtl \in Nat
    /\ FailedTtl \in Nat
    /\ AttemptMax \in Nat \ {0}

\* The exception types handle_execution_error and handle_job_timeout report.
ErrorTypes == {"StorageError", "WorkerError", "TimeoutError", "UnknownError"}

\* The `None` exception type of handle_job_retry.
NoException == "no exception"

\* RetryPolicy::should_retry.  RetryStrategy::None is the only strategy for
\* which is_retry_enabled is false.
ShouldRetry(exception, attempt) ==
    /\ attempt <= PolicyMaxAttempts
    /\ PolicyMaxAttempts > 0
    /\ IF exception = NoException
       THEN RetryOnAll
       ELSE /\ exception \notin NonRetryable
            /\ RetryOnAll \/ exception \in Retryable

\* Mutant: the per-job cap allows one retry too many.
ShouldRetryAttemptOffByOne(j, row, exception) ==
    /\ ~(MaxRetries[j] > 0 /\ row.attempt > MaxRetries[j] + 1)
    /\ ShouldRetry(exception, row.attempt)

\* JobProcessor::should_retry_attempt.
ShouldRetryAttempt(j, row, exception) ==
    /\ ~(MaxRetries[j] > 0 /\ row.attempt > MaxRetries[j])
    /\ ShouldRetry(exception, row.attempt)

\* The attempt that process_job counts before it looks for a worker.  Only
\* the in-memory copy carries it until the attempt's result is written.
CountAttempt(row) ==
    [row EXCEPT !.attempt = IF @ < AttemptMax THEN @ + 1 ELSE @]

CompleteJobSuccessfully(row) ==
    [SetState(row, "Succeeded", 0) EXCEPT !.expires = SucceededTtl]

\* Mutant: the Failed row is written without its expires_at.
FailJobUnstamped(row) == SetState(row, "Failed", 0)

FailJobPermanently(row) ==
    [SetState(row, "Failed", 0) EXCEPT !.expires = FailedTtl]

\* JobProcessor::handle_job_retry: it asks the policy again, this time
\* without an exception type.
HandleJobRetry(j, row, delay) ==
    IF ShouldRetryAttempt(j, row, NoException)
    THEN SetState(row, "AwaitingRetry", delay)
    ELSE FailJobPermanently(row)

\* handle_execution_error, and handle_job_timeout with "TimeoutError".
HandleError(j, row, exception, delay) ==
    IF ShouldRetryAttempt(j, row, exception)
    THEN HandleJobRetry(j, row, delay)
    ELSE FailJobPermanently(row)

\* How an attempt can end: the three WorkerResults, an Err of one of the
\* error types, and the elapsed job_timeout.
Outcomes == {"success", "retry", "failure", "timeout"} \cup ErrorTypes

\* process_job from the claimed copy (its attempt counted) to the row
\* written.  A job without a registered worker never runs.
ProcessJob(j, row, outcome, delay) ==
    CASE j \notin Registered   -> FailJobPermanently(row)
      [] outcome = "success"   -> CompleteJobSuccessfully(row)
      [] outcome = "failure"   -> FailJobPermanently(row)
      [] outcome = "retry"     -> HandleJobRetry(j, row, delay)
      [] outcome = "timeout"   -> HandleError(j, row, "TimeoutError", delay)
      [] OTHER                 -> HandleError(j, row, outcome, delay)
==============================================================================
