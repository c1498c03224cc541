SPECIFICATION Spec
CONSTANTS
    NULL = NULL
    a1 = a1
    a2 = a2
    b1 = b1
    b2 = b2
    c1 = c1
    c2 = c2
    v1 = v1
    v2 = v2
    f1 = f1
    m1 = m1
    i1 = i1
    n1 = n1
    n2 = n2
    Requests = {r1, r2, r3}
    Benchmarks = {b1, b2}
    RevisionStrs = {v1, v2}
    Rules = {1, 2, 3}
    Assets = {a1, a2}
    Colls = {c1, c2}
    Names = {1, 2, 3}
    Fqdns = {f1}
    Macs = {m1}
    Ips = {i1}
    Notes = {n1, n2}
    Mapped <- MCMapped
    Short <- MCShort
    Bare <- MCBare
    Ops <- MCOps
    Seeds <- MCSeeds
    MaxFiles = 1
    Faulty = {r1}
SYMMETRY Symmetry
INVARIANTS
    TypeOK
    WholeRevision
    OwnAsset
PROPERTIES
    ResultsSurvive
