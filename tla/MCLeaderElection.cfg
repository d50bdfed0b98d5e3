SPECIFICATION FairSpec
CONSTANTS
    i1 = i1
    i2 = i2
    Instances = {i1, i2}
    NoInstance = NoInstance
    TTL = 2
    MaxFaults = 3
    MaxShutdowns = 1
INVARIANTS
    TypeOK
    SoleTicker
    OwnershipFollowsFlag
PROPERTIES
    DeposedStepsDown
    TakeOver
CHECK_DEADLOCK FALSE
