SPECIFICATION Spec
CONSTANTS
    Requests <- MCReviewRequests
    Pools = {TRUE}
    MaxItems = 2
CHECK_DEADLOCK FALSE
INVARIANTS
    GrantAndPathAgree
