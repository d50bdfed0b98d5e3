SPECIFICATION FairSpec
CONSTANTS
    r1 = r1
    r2 = r2
    w1 = w1
    w2 = w2
    general = general
    RunIds = {r1, r2}
    Workers = {w1, w2}
    NoWorker = NoWorker
    NoRunId = NoRunId
    Pools = {general}
    General = general
    NoPool = NoPool
    WorkerPool <- OnePool
    EnqueuePools = {NoPool}
    Batches = {1, 2}
    Spins = 2
    TTL = 2
    SubMilli = 2
    MaxAhead = 1
    MaxAge = 1
    MaxFaults = 1
INVARIANTS
    QueueSound
PROPERTIES
    NeverEarly
    KeepsThePromise
    AllRunsServed
