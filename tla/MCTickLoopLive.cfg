SPECIFICATION FairSpec
CONSTANTS
    cron = cron
    once = once
    c1 = c1
    c2 = c2
    Jobs = {cron, once}
    JobSets = {{cron, once}}
    Coordinators = {c1}
    Nobody = Nobody
    Kind <- MCKind
    Period <- MCPeriod
    FirstFire <- MCFirstFire
    Concurrency <- One
    Window <- ShortWindow
    RunImmediately <- OnceOnly
    Second = 1
    TTL = 1
    Lookahead = 1
    Soon = 2
    Batch = 1
    MaxTime = 5
    MaxRuns = 9
    MaxManual = 0
    MaxAdmin = 0
    MaxFaults = 1
INVARIANTS
    RepeatNeedsFault
PROPERTIES
    FiresSettle
