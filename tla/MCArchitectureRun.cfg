\* Two packs of two versions, two contents and two commands beside the run that
\* loads it; one dependency among three services, two queues, a database and a
\* bucket; up to three other edges; depth limits that do and do not bind and a node
\* budget that binds in the larger of the graphs.
CONSTANTS
    a = a
    b = b
    c = c
    q = q
    t = t
    db = db
    os = os
    None = None
    pk = pk
    pl = pl
    cx = cx
    cy = cy
    cm = cm
    cn = cn
    Services = {a, b, c}
    Queues = {q, t}
    Resources = {db, os}
    Buckets = {os}
    MaxExposures = 2
    MaxIdentities = 3
    MaxRules = 2
    MaxOtherEdges = 3
    Depths = {1, 3}
    Budgets = {4}
    SubHops = 2
    Packs = {pk, pl}
    Versions = {1, 2}
    Contents = {cx, cy}
    Commands = {cm, cn}
SPECIFICATION Spec
SYMMETRY MCSymmetry
INVARIANTS
    IdentitiesDecideAlike
    PacksAreAsLocked
    EdgesPointRight
    SearchesAreTrue
    FlowIsWhole
CHECK_DEADLOCK FALSE
