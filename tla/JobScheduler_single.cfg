SPECIFICATION FairSpec
CONSTANTS
    NULL = NULL
    Intervals = {0, 1, 2}
    MaxTime = 2
    JobIds = {1, 2}
    Instances = {a}
    Bodies <- MCFewBodies
    MaxEpoch = 2
    Faults = FALSE
INVARIANTS
    OnceRunsOnce
PROPERTIES
    DueIsRun
