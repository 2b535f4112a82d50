\* Two jobs, two hosts whose clocks differ by a tick, two dashboard retries at once, a client of the per-job lock API, crashes and failed result writes.
SPECIFICATION Spec
CONSTANTS
    j1 = j1
    j2 = j2
    s1 = s1
    s2 = s2
    w1 = w1
    w2 = w2
    d1 = d1
    d2 = d2
    c1 = c1
    NoWorker = NoWorker
    Home <- MCHome
    Ahead <- MCAhead
    Before <- MCBefore
    QueueOf <- MCQueueOf
    QueuesServed <- MCQueuesServed
    MaxRetries <- MCMaxRetries
    Jobs = {j1, j2}
    Servers = {s1, s2}
    Workers = {w1, w2}
    MaxSkew = 1
    Dashboards = {d1, d2}
    LockClients = {c1}
    Registered = {j1, j2}
    PolicyMaxAttempts = 1
    RetryOnAll = TRUE
    Retryable = {}
    NonRetryable = {"UnknownError"}
    RetryDelays = {1}
    SucceededTtl = 1
    FailedTtl = 1
    AttemptMax = 10
    StartDelays = {1}
    ClaimLimit = 1
    JobTimeout = 1
    StaleAfter = 3
    MaxLag = 1
    ClientLockTtl = 0
    MaxDisruptions = 1
    MaxManualRetries = 1
SYMMETRY DashboardSymmetry
INVARIANTS NoDoubleExecution RunnerOwnsRow
PROPERTIES FailedLeavesByRetry ImplementsJobQueue
