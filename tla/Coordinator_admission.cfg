SPECIFICATION Spec
CONSTANTS
    Ids = {k1, k2, k3}
    NoId = NoId
    QueueMax = 2
    CacheMax = 1
    ColdMax = 2
    Hour = 2
    BaseDelay = 1
    MaxDelay = 2
    MaxTime = 3
    MaxFailures = 2
    MaxRestarts = 0
    MaxFaults = 0
INVARIANTS TypeOK QueueAgreement ColdQuota
PROPERTIES BackoffRespected
SYMMETRY Symmetry
CHECK_DEADLOCK FALSE
