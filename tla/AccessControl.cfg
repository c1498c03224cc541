SPECIFICATION FairSpec
CONSTANTS
    NULL = NULL
    u1 = u1
    u2 = u2
    u3 = u3
    u4 = u4
    g1 = g1
    g2 = g2
    c1 = c1
    c2 = c2
    p1 = p1
    p2 = p2
    Requests = {r1, r2}
    Users = {u1, u2, u3, u4}
    Groups = {g1, g2}
    Colls = {c1, c2}
    People = {p1, p2}
    Ops <- MCOps
    Seeds <- MCSeeds
    SeededUsers <- MCSeededUsers
    Faulty = {r1}
INVARIANTS
    TablesAgree
PROPERTIES
    EditsAreWhole
    SignedInStay
    RequestsFinish
