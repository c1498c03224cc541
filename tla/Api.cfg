SPECIFICATION Spec
CONSTANTS
    Requests <- MCRequests
    Pools = {TRUE, FALSE}
    MaxItems = 2
CHECK_DEADLOCK FALSE
INVARIANTS
    ReachesItsOperation
    ChangesAreGranted
    RefusedChangesNothing
    AnsweredAsPublished
