SPECIFICATION Spec
CONSTANTS
    Gens = {1, 2, 3}
    Retention = 2
    PublicLink = TRUE
    MonotoneClock = FALSE
    Readers = {r1}
    MaxCrashes = 2
    MaxFaults = 2
INVARIANTS TypeOK Protocol NothingDangles RollbackRestores StagingAccounted RetentionBound
PROPERTY KeepsPromise
