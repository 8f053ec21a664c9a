SPECIFICATION FairService
CONSTANTS
    MaxWakes = 1
    MaxFailures = 1
    MaxStops = 3
    Slots = 1
    SharedMayFail = FALSE
    MaxTerms = 1
    MaxInterrupts = 1
    MaxJobs = 1
    MaxOps = 1
INVARIANTS WakeKept OneOperationLeft SlotsKept
PROPERTIES WakeHonoured StopEndsThread  
CHECK_DEADLOCK FALSE
