\* One run of two events, two cancellers of which either may delete it, one
\* subscriber with channels of one event.
CONSTANTS
    g1 = g1
    g2 = g2
    c1 = c1
    c2 = c2
    s1 = s1
    Runs = {g1}
    Cancellers = {c1, c2}
    Subscribers = {s1}
    LiveBuffer = 1
    OutBuffer = 1
    MaxEvents = 1
    MaxStops = 1
    MaxFaults = 1
SPECIFICATION FairSpec
INVARIANTS
    StreamsFitTogether
    ManifestsHaveTheirRuns
PROPERTIES
    DeletionsEnd
    LeftStreamsEnd
CHECK_DEADLOCK FALSE
