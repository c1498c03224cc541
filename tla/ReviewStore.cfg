SPECIFICATION FairSpec
CONSTANTS
    NULL = NULL
    Pairs = {1, 2}
    Requests = {q1, q2}
    Bodies <- MCMany
    Seeded = {1}
    Faults = TRUE
INVARIANTS
    HistoryIsPast
PROPERTIES
    RecordsWhatItReplaces
    RequestsFinish
