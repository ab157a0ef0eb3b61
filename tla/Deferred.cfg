\* One daemon, one cancel group, delayed and immediate emits, two faults.
SPECIFICATION FairSpec
CONSTANTS
    Daemons = {d1}
    Groups = {g1}
    NoGroup = NoGroup
    Delays = {0, 1, 2}
    MaxRequests = 3
    MaxTime = 4
    MaxFaults = 2
INVARIANTS
    TypeOK
    NeverDoubled
    ReplacedNeverFires
    NothingVanishes
PROPERTIES
    EveryRequestSettled
CHECK_DEADLOCK FALSE
