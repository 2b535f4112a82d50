\* Two jobs compete for one worker that is never disturbed.
SPECIFICATION FairSpec
CONSTANTS
    j1 = j1
    j2 = j2
    s1 = s1
    s2 = s2
    w1 = w1
    w2 = w2
    d1 = d1
    d2 = d2
    c1 = c1
    NoWorker = NoWorker
    Home <- MCHome
    Before <- MCBefore
    QueueOf <- MCQueueOf
    QueuesServed <- MCQueuesServed
    MaxRetries <- MCMaxRetries
    Jobs = {j1, j2}
    Servers = {s1}
    Workers = {w1}
    Dashboards = {d1}
    LockClients = {}
    Registered = {j1, j2}
    PolicyMaxAttempts = 2
    RetryOnAll = TRUE
    Retryable = {}
    NonRetryable = {"UnknownError"}
    RetryDelays = {0, 1}
    SucceededTtl = 1
    FailedTtl = 2
    AttemptMax = 10
    StartDelays = {1}
    ClaimLimit = 1
    JobTimeout = 1
    StaleAfter = 2
    MaxLag = 1
    LockTtl = 3
    ClientLockTtl = 1
    MaxJobs = 1
    MaxDisruptions = 0
    MaxManualRetries = 1
PROPERTIES EveryJobSettles FinalRowsSwept
