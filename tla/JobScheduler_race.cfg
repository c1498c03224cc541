SPECIFICATION Spec
CONSTANTS
    NULL = NULL
    Intervals = {0, 1, 2}
    MaxTime = 2
    JobIds = {1}
    Instances = {a, b}
    Bodies <- MCBodies
    MaxEpoch = 2
    Faults = TRUE
INVARIANTS
    NoDoubleRun
PROPERTIES
    FiresNextOccurrence
    DeliversAtMostOnce
