SPECIFICATION FairSpec
CONSTANTS
    r1 = r1
    r2 = r2
    t1 = t1
    t2 = t2
    s1 = s1
    known = known
    unknown = unknown
    RunIds = {r1, r2}
    NoRun = NoRun
    Tasks = {t1, t2}
    Slots = {s1}
    Host = Host
    Nobody = Nobody
    Shapes = {"embedded", "coordinator", "remote"}
    Scripts = {known, unknown}
    Registry = {known}
    MaxInFlight = 1
    Capacity = 1
    MaxAttempts = 1
    HasTimeout = TRUE
    MaxFaults = 1
CHECK_DEADLOCK FALSE
INVARIANTS
    ExecutionsAccounted
PROPERTIES
    TerminalIsFinal
    
