\* Three operations of two projects for two slots, two administrators.
CONSTANTS
    p1 = p1
    p2 = p2
    o1 = o1
    o2 = o2
    o3 = o3
    a1 = a1
    a2 = a2
    Projects = {p1, p2}
    Operations = {o1, o2, o3}
    ProjectOf <- MCProjectOf
    OnRequest = {o3}
    Admins = {a1, a2}
    GlobalLimit = 2
    WorkerCaps = {0, 1}
    Edited = {p1}
    Deletable = {p1}
    MaxRevision = 2
SPECIFICATION FairLimiterSpec
INVARIANTS
    NoForgottenWaiter
PROPERTIES
    NoSilentOverwrite
    EveryOperationSettles
    ShutdownDrains
CHECK_DEADLOCK FALSE
