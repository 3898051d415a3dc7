SPECIFICATION Spec
CONSTANTS
    d1 = d1
    d2 = d2
    d3 = d3
    Dir <- ThreeDirs
    Bytes <- MixedSizes
    MaxCapacity = 2
    RetentionAge = 2
    MinFree = 2
    DiskBytes = 5
    Protect = TRUE
    MaxTime = 4
INVARIANT TypeOK
INVARIANT SweepMeetsPolicy
PROPERTY DeletesOldestFirst
 
CHECK_DEADLOCK FALSE
