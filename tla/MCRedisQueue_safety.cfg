\* A job, two servers started one after the other, a dashboard request; crashes and failing commands.
SPECIFICATION Spec
CONSTANTS
    j1 = j1
    j2 = j2
    s1 = s1
    s2 = s2
    w1 = w1
    w2 = w2
    d1 = d1
    NoWorker = NoWorker
    Home <- MCHome
    Before <- MCBefore
    Above <- MCAbove
    QueueOf <- MCQueueOf
    QueuesServed <- MCQueuesServed
    MaxRetries <- MCMaxRetries
    Jobs = {j1}
    Servers = {s1, s2}
    Workers = {w1, w2}
    Dashboards = {d1}
    CleanupServers = {s1}
    Registered = {j1, j2}
    PolicyMaxAttempts = 1
    RetryOnAll = TRUE
    Retryable = {}
    NonRetryable = {"UnknownError"}
    RetryDelays = {1}
    SucceededTtl = 1
    FailedTtl = 1
    AttemptMax = 10
    StartDelays = {1}
    ClaimLimit = 1
    JobTimeout = 0
    StaleAfter = 1
    MaxLag = 1
    SerialStarts = TRUE
    QuickEnqueues = TRUE
    MaxDisruptions = 2
    MaxManualRetries = 1
INVARIANTS NoDoubleExecution RunnerOwnsRow StoredIsFound CountsExact
PROPERTIES ImplementsJobQueue
