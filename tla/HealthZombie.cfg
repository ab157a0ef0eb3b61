\* A recovery fails because the lock is still held.
SPECIFICATION HealthFairSpec
CONSTANTS
    Threshold = 2
    MaxAttempts = 2
    Stall = 9
    Stuck = 9
    WriteEvery = 9
    Poison = FALSE
    LockEnds = FALSE
    MaxTime = 0
    MaxEvents = 1
    MaxTimers = 0
    MaxLocks = 1
    MaxRuns = 2
PROPERTIES
    EventsServed
CHECK_DEADLOCK FALSE
