\* Pairs of policies in every style over three events and a glob, and every
\* graph over the three events.  A run ends with the longest chain.
SPECIFICATION Spec
CONSTANTS
    Event <- MCEvent
    Text <- MCText
    Matched <- MCMatched
    Corpora <- MCCorpora
    Scheduled = {"a"}
INVARIANTS
    TypeOK
    CyclesReal
    NoCycleMissed
    ValidatedChainsEnd
CHECK_DEADLOCK FALSE
