\* One project, one refresh job, one worker, two pieces of direct work, one stop
\* of the server and one failed write; liveness unless a write failed.
CONSTANTS
    p1 = p1
    p2 = p2
    manual = manual
    r1 = r1
    r2 = r2
    w1 = w1
    w2 = w2
    Projects = {p1}
    Triggers = {manual}
    Deliveries = {}
    Digests = {}
    RefreshIds = {r1}
    Capacity = 2
    PolicyCaps = {0}
    Allowance = 2
    AttemptCeiling = 2
    Workers = {w1}
    MaxDirect = 2
    MaxCrashes = 1
    MaxFaults = 1
SPECIFICATION FairSpecScheduler
INVARIANTS
    WorkersHoldRunningJobs
    DrainedBeforeRelease
    RecordsAreTrue
PROPERTIES
    EveryJobSettles
    CancellationTakesEffect
    ShutdownCompletes
CHECK_DEADLOCK FALSE
