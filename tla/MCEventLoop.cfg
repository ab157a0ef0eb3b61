\* A chain of policies with a poison event; one fault, and the
\* janitor whenever it may run.
SPECIFICATION FairSpec
CONSTANTS
    Kinds <- MCKinds
    Malformed <- MCMalformed
    Policies <- MCPolicies
    Limited = {1}
    Shell = "shell"
    Broken = "broken"
    MaxPublish = 2
    MaxFaults = 1
INVARIANTS
    TypeOK
    ServedInOrder
    EveryRuleAccounted
    LoggedMeansRun
    RepeatedOnlyIfCutShort
PROPERTIES
    OnlyWaitingEventsRun
    ImplementsQueue
    EveryEventServed
CHECK_DEADLOCK FALSE
