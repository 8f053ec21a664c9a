SPECIFICATION FairPages
CONSTANTS
    Ids = {k1, k2}
    Patient = {k1}
    NoId = NoId
    QueueMax = 1
    CacheMax = 1
    ColdMax = 1
    Hour = 1
    BaseDelay = 1
    MaxDelay = 1
    MaxTime = 1
    MaxFailures = 1
    MaxRestarts = 1
    MaxFaults = 0
PROPERTIES Drains StopEndsWorker PageComesBack
CHECK_DEADLOCK FALSE
