\* Both gaps within the retention, just so: every property of the dedup keys.
SPECIFICATION FairSpec
CONSTANTS
    Fast = fast
    Slow = slow
    Schedules = {fast, slow}
    LastTick <- MCLastTick
    Retention = 2
    MaxTime = 4
    MaxFaults = 2
INVARIANTS
    TypeOK
    AtMostOncePerSlot
    PassCoversSlots
PROPERTIES
    SlotsInOrder
    LatestSlotEmitted
CHECK_DEADLOCK FALSE
