\* Every limit can bite, one edit elsewhere, one fault.
SPECIFICATION Spec
CONSTANTS
    RateMax = 2
    Window = 1
    MaxFires = 2
    Ttl = 1
    AfterLimits = {"disable", "delete"}
    ReloadInterval = 1
    Retention = 1
    MaxTime = 2
    MaxEvents = 3
    MaxEdits = 1
    MaxFaults = 1
INVARIANTS
    TypeOK
    RateHeldByGeneration
    
PROPERTIES
    MaxFiresHeldWhileLogged
CHECK_DEADLOCK FALSE
