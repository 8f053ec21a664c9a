SPECIFICATION ServiceSpec
CONSTANTS
    MaxWakes = 1
    MaxFailures = 1
    MaxStops = 3
    Slots = 1
    SharedMayFail = TRUE
    MaxTerms = 1
    MaxInterrupts = 0
    MaxJobs = 1
    MaxOps = 1
PROPERTY ServesUntilStopped
CHECK_DEADLOCK FALSE
