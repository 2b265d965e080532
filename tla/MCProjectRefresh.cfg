\* One repository, local or with a remote, a request at a time beside the
\* passes, two options, two analyses.
CONSTANTS
    r1 = r1
    d1 = d1
    o1 = o1
    o2 = o2
    None = None
    Repos = {r1}
    Directs = {d1}
    Options = {o1, o2}
    MaxVersion = 2
    MaxEdits = 1
    MaxAnalyses = 2
SPECIFICATION Spec
SYMMETRY MCSymmetry
INVARIANTS
    CheckpointsHoldAlone
    BusyMeansWork
PROPERTY CompletedIsCurrent
