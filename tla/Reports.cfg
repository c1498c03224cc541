SPECIFICATION Spec
CONSTANTS
    NULL = NULL
    BAD = BAD
    a1 = a1
    a2 = a2
    b1 = b1
    b2 = b2
    c1 = c1
    c2 = c2
    l1 = l1
    l2 = l2
    x1 = x1
    x2 = x2
    x3 = x3
    i1 = i1
    i2 = i2
    Assets = {a1, a2}
    Colls = {c1, c2}
    Labels = {l1, l2}
    Benchmarks = {b1, b2}
    RevisionStrs = {"r0", "r1", "r2"}
    Rules = {x1, x2, x3}
    Groups = {"V1", "V2", "V3"}
    Ccis = {i1, i2}
    Files <- MCFiles
    Seed <- MCSeed
    Imports = 2
    Readers = {r1}
    Asks <- MCAsks
    Settings <- MCSettings
    Queries <- MCQueries
    MaxReviews = 2
CHECK_DEADLOCK FALSE
INVARIANTS
    ReportsAgree
    PoamCovers
    ListedIsAssessed
    ReadsAreWhole
