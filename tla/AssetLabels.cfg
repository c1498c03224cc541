SPECIFICATION FairSpec
CONSTANTS
    NULL = NULL
    a1 = a1
    a2 = a2
    l1 = l1
    l2 = l2
    l3 = l3
    b1 = b1
    b2 = b2
    bx = bx
    c1 = c1
    c2 = c2
    Requests = {r1, r2}
    Assets = {a1, a2}
    Labels = {l1, l2, l3}
    Benchmarks = {b1, b2}
    Colls = {c1, c2}
    Ops <- MCOps
    AtFirst <- MCAtFirst
    Faulty = {r1}
INVARIANTS
    TablesAgree
PROPERTIES
    DeletedStay
    RequestsFinish
