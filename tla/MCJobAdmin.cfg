CONSTANTS
    JobIds = {j1, j2}
    NoJob = NoJob
    Clients = {c1, c2}
    Names = {"n1", "n2"}
    Scripts = {"s1", "s2"}
    Registered = {"s1"}
    Actors = {"null", "system"}
    NoActor = "null"
    Privileged = {"system"}
    Backends = {"sql", "mem"}
    HttpUpserts <- MCHttpUpserts
    HostUpserts <- MCHostUpserts
    MaxRequests = 3
    MaxFaults = 1
SPECIFICATION FairSpec
CHECK_DEADLOCK FALSE
INVARIANTS
    JobsConsistent
    FiredOnce
PROPERTIES
    DueIsTicked
