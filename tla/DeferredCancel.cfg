\* The deadline pattern: an immediate emit names the group of a pending one.
SPECIFICATION Spec
CONSTANTS
    Daemons = {d1}
    Groups = {g1}
    NoGroup = NoGroup
    Delays = {0, 2}
    MaxRequests = 2
    MaxTime = 3
    MaxFaults = 0
INVARIANTS
    CancelledNeverFires
CHECK_DEADLOCK FALSE
