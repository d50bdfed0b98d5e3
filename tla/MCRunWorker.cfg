SPECIFICATION FairSpec
CONSTANTS
    r1 = r1
    r2 = r2
    r3 = r3
    w1 = w1
    w2 = w2
    w3 = w3
    j1 = j1
    general = general
    gpu = gpu
    RunIds = {r1, r2, r3}
    NoRunId = NoRunId
    Workers = {w1, w2, w3}
    NoWorker = NoWorker
    Jobs = {j1}
    Pools = {general, gpu}
    General = general
    NoPool = NoPool
    WorkerPool <- TwoPools
    EnqueuePools = {NoPool, gpu}
    MaxAttempts <- RetryJ1
    Failures = {"failed", "timeout"}
    MaxDelay = 1
    TTL = 2
    MaxLate = 0
    MaxEnqueues = 1
    MaxFaults = 1
INVARIANTS
    TypeOK
    HeldRunsCarryALease
    SoleHolder
    RetryChain
    ReclaimNeedsFault
PROPERTIES
    TerminalIsFinal
    KeepsThePromise
    AllRunsSettle
    FailureIsRetried
