CONSTANTS
    i1 = i1
    i2 = i2
    Instances = {i1, i2}
    NoInstance = NoInstance
    NoRow = NoRow
    NumPartitions = 2
    TTL = 2
    MaxFaults = 2
SPECIFICATION FairSpec
INVARIANTS
    PartitionsApart
PROPERTIES
    OverlapHeals
    Covered
