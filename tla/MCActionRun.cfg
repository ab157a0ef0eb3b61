\* Four actions, three faults.  The run ends when the event is processed.
SPECIFICATION Spec
CONSTANTS
    k = k
    m = m
    None = None
    Kinds = {k, m}
    Conditions <- MCConditions
    Actions <- MCActions
    MaxFaults = 3
    MaxPublish = 2
    MaxExpire = 2
INVARIANTS
    TypeOK
    SettledWhenProcessed
    GuardedNotRepeated
CHECK_DEADLOCK FALSE
