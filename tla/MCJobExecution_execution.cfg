\* Two workers around two jobs with different budgets; timeouts, panics, aborts, failed writes and restarts.
SPECIFICATION Spec
CONSTANTS
    Workers = {w1, w2}
    Jobs = {j1, j2}
    Registered = {j1}
    NoWorker = NoWorker
    MaxRetries <- MCMaxRetries
    PolicyMaxAttempts = 2
    RetryOnAll = TRUE
    Retryable = {}
    NonRetryable = {"WorkerError"}
    RetryDelays = {0}
    SucceededTtl = 1
    FailedTtl = 2
    AttemptMax = 9
    Stack <- MCStack
    Strategies <- MCStrategies
    AskedDelays = {100}
    FallbackDelay = 60
    MaxFaults = 2
CHECK_DEADLOCK FALSE
INVARIANTS  HookAgreesWithRow AttemptsWithinBudget 
