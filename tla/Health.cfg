\* Every kind of failure: locks, a poison event, failed recoveries, restarts.
\* The bounds of the locks and runs leave the daemon running in the end.
SPECIFICATION HealthFairSpec
CONSTANTS
    Threshold = 2
    MaxAttempts = 1
    Stall = 1
    Stuck = 1
    WriteEvery = 1
    Poison = TRUE
    LockEnds = FALSE
    MaxTime = 3
    MaxEvents = 2
    MaxTimers = 1
    MaxLocks = 2
    MaxRuns = 2
INVARIANTS
    HealthTypeOK
    RecoversOnlyAfterThreshold
    StallDetectedUnlessHarmed
PROPERTIES
    ServedUnlessHarmed
CHECK_DEADLOCK FALSE
