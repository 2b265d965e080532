\* One project with two refresh jobs and a delivery's job for two slots, two
\* attempts per admission and three per job at most, also while the project is
\* deleted and created again: a failed or recovered attempt is queued again, a
\* job that used up its allowance is retried up to the ceiling and no further,
\* and deferrals and cancellations come in between.  Behaviours are followed
\* until the jobs have had more than three attempts together, so one job comes
\* to the ceiling beside two that wait or that were cancelled.
CONSTANTS
    p1 = p1
    p2 = p2
    manual = manual
    d1 = d1
    g1 = g1
    r1 = r1
    r2 = r2
    r3 = r3
    Projects = {p1}
    Triggers = {manual}
    Deliveries = {d1}
    Digests = {g1}
    RefreshIds = {r1, r2}
    Capacity = 2
    PolicyCaps = {1}
    Allowance = 2
    AttemptCeiling = 3
    MaxAttempts = 3
SPECIFICATION Spec
SYMMETRY MCSymmetry
CONSTRAINT MCFewAttempts
INVARIANTS
    AttemptsAddUp
PROPERTIES
    ReceiptsAreKept
    ImplementsAdmission
