SPECIFICATION Spec
CONSTANTS
    Ids = {k1, k2}
    NoId = NoId
    QueueMax = 1
    CacheMax = 2
    ColdMax = 2
    Hour = 2
    BaseDelay = 1
    MaxDelay = 2
    MaxTime = 0
    MaxFailures = 1
    MaxRestarts = 0
    MaxFaults = 0
PROPERTY CancelIsNotFailure
CHECK_DEADLOCK FALSE
