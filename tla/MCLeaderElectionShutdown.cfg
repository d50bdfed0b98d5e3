SPECIFICATION FairSpec
CONSTANTS
    i1 = i1
    i2 = i2
    Instances = {i1, i2}
    NoInstance = NoInstance
    TTL = 2
    MaxFaults = 0
    MaxShutdowns = 1
PROPERTIES
    ShutdownStopsElection
CHECK_DEADLOCK FALSE
