SPECIFICATION Spec
CONSTANTS
    Gens = {1, 2, 3}
    Retention = 2
    PublicLink = TRUE
    MonotoneClock = TRUE
    Readers = {}
    MaxCrashes = 1
    MaxFaults = 0
INVARIANT ValidVersionServed
CHECK_DEADLOCK FALSE
