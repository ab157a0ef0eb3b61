\* Three daemons beside one --pre-start, on both kinds of system; one process
\* is stopped and one dies.
SPECIFICATION Spec
CONSTANTS
    Proc = {p1, p2, p3}
    Pre = {pre}
    None = None
    MaxStops = 2
    MaxCrashes = 1
SYMMETRY MCSymmetry
INVARIANTS
    TypeOK
    OneServes
    PidFileNamesTheServer
CHECK_DEADLOCK FALSE
