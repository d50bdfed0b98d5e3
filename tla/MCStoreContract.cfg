SPECIFICATION Spec
CONSTANTS
    v = v
    w = w
    p1 = p1
    p2 = p2
    Processes = {p1, p2}
    NoProcess = NoProcess
    MaxBootFaults = 1
    Racers = {v, w}
    MaxCalls = 5
    Horizon = 3
CHECK_DEADLOCK FALSE
INVARIANTS
    ContractHolds
    AdaptersAgree
    BootstrapSafe
