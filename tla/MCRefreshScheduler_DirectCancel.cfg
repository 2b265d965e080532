\* A direct ingestion cancelled during a shutdown is resumed at the next start.
CONSTANTS
    p1 = p1
    p2 = p2
    manual = manual
    r1 = r1
    r2 = r2
    w1 = w1
    w2 = w2
    Projects = {p1}
    Triggers = {manual}
    Deliveries = {}
    Digests = {}
    RefreshIds = {r1}
    Capacity = 2
    PolicyCaps = {0}
    Allowance = 1
    AttemptCeiling = 2
    Workers = {w1}
    MaxDirect = 1
    MaxCrashes = 1
    MaxFaults = 0
SPECIFICATION SpecScheduler
PROPERTY DirectCancelStaysStopped
CHECK_DEADLOCK FALSE
