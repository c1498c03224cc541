SPECIFICATION FairSpec
CONSTANTS
    NULL = NULL
    r1 = r1
    r2 = r2
    r3 = r3
    Requests = {r1, r2, r3}
    Address <- MCAddress
    Settings <- MCSettings
    RequestTimeout = 2
    ShutdownBudget = 1
    Burst = 2
    Cost = 1
    Faults = TRUE
INVARIANTS
    WithinBudget
    AuditIsTruthful
    CountersAddUp
    CleanStopWaits
PROPERTIES
    StopsAfterSignal
CHECK_DEADLOCK FALSE
