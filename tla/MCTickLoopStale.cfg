SPECIFICATION Spec
CONSTANTS
    cron = cron
    once = once
    c1 = c1
    c2 = c2
    Jobs = {cron}
    JobSets = {{cron}}
    Coordinators = {c1, c2}
    Nobody = Nobody
    Kind <- MCKind
    Period <- MCPeriod
    FirstFire <- MCFirstFire
    Concurrency <- One
    Window <- NoWindow
    RunImmediately <- OnceOnly
    Second = 1
    TTL = 1
    Lookahead = 0
    Soon = 2
    Batch = 1
    MaxTime = 4
    MaxRuns = 9
    MaxManual = 0
    MaxAdmin = 0
    MaxFaults = 0
INVARIANTS
    NoDuplicateFire
