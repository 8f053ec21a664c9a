SPECIFICATION Spec
CONSTANTS
    Ids = {k1, k2, k3}
    NoId = NoId
    QueueMax = 2
    CacheMax = 1
    ColdMax = 6
    Hour = 1
    BaseDelay = 1
    MaxDelay = 2
    MaxTime = 0
    MaxFailures = 1
    MaxRestarts = 1
    MaxFaults = 1
 
PROPERTIES CacheBound PendingNeverEvicted FreshSurvives ServesInOrder
SYMMETRY Symmetry
CHECK_DEADLOCK FALSE
