\* Two exposures, two workers; a repository of five symbols; limits of the walk
\* that bind in some of the graphs.
CONSTANTS
    h1 = h1
    k1 = k1
    m1 = m1
    f1 = f1
    f2 = f2
    x1 = x1
    x2 = x2
    w1 = w1
    w2 = w2
    None = None
    Symbols = {h1, k1, m1, f1, f2}
    Exposures = {x1, x2}
    Workers = {w1, w2}
    Nothing = Nothing
    ActiveKey = "active"
    EnvVariables <- MCEnvVariables
    NameIn <- MCNameIn
    ClassOf <- MCClassOf
    Entries <- MCEntries
    Housed <- MCHoused
    Repository <- MCRepository
    Sources <- MCSources
    Meanings <- MCMeanings
    Places <- MCPlaces
    Refused = {"httpcall.line_1"}
    MaxDepth = 2
    MaxPathsPerTarget = 1
    MaxPathsTotal = 9
    MaxVisitedEdges = 3
    MaxQueuedNodes = 1
SPECIFICATION Spec
INVARIANTS
    ConnectionsAreReachable
    NothingFoundIsLost
    ProductionIsTheRecord
CHECK_DEADLOCK FALSE
