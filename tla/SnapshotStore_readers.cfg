SPECIFICATION FairSpec
CONSTANTS
    Gens = {1, 2, 3, 4}
    Retention = 2
    PublicLink = TRUE
    MonotoneClock = TRUE
    Readers = {r1}
    MaxCrashes = 0
    MaxFaults = 1
INVARIANT ReaderKeepsGeneration
PROPERTIES PreviousKept WindowCloses
