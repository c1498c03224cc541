SPECIFICATION FairSpec
CONSTANTS
    ping = ping
    fail = fail
    retired = retired
    Tasks = {ping, fail, retired}
    Registered = {ping, fail}
    Failing = {fail}
    JobIds = {j1}
    Runs = {r1, r2}
    TaskLists <- MCTaskLists
    Faulty = {r2}
INVARIANTS
    RecordsAgree
PROPERTIES
    RunEnds
    FollowsLifecycle
    FinalWhenTold
CHECK_DEADLOCK FALSE
