\* Two compilers and the daemon; a source with one good edit and one broken
\* one.  A run ends when the bounds are used up.
SPECIFICATION Spec
CONSTANTS
    Compilers = {c1, c2}
    Daemon = daemon
    Versions = {v1, v2, bad}
    SchemaErrors = {}
    ProducerErrors = {bad}
    DeadcodeErrors = {}
    First = v1
    MaxEdits = 2
    MaxCompiles = 3
    MaxLimits = 1
INVARIANTS
    TypeOK
    WholeUnlessCollided
    CheckedUnlessOvertaken
CHECK_DEADLOCK FALSE
