\* A schedule whose period is longer than the retention (a monthly cron).
SPECIFICATION Spec
CONSTANTS
    Fast = fast
    Slow = slow
    Schedules = {slow}
    LastTick <- MCLastTick
    Retention = 1
    MaxTime = 4
    MaxFaults = 0
INVARIANTS
    AtMostOncePerSlot
CHECK_DEADLOCK FALSE
