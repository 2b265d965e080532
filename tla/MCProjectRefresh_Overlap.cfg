\* The smallest case: a direct analysis of a local repository, a sync of it that
\* marks it idle meanwhile, and a pass.
CONSTANTS
    r1 = r1
    d1 = d1
    o1 = o1
    o2 = o2
    None = None
    Repos = {r1}
    Directs = {d1}
    Options = {o1, o2}
    MaxVersion = 2
    MaxEdits = 1
    MaxAnalyses = 2
SPECIFICATION Spec
INVARIANT CheckpointsAreTruthful
