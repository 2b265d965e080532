\* Two servers at most at a time, two migrations, two settings, three
\* operations, two deaths and one loss of power.
CONSTANTS
    b1 = b1
    b2 = b2
    c1 = c1
    c2 = c2
    Backends = {b1, b2}
    Commands = {c1, c2}
    Analyser = Analyser
    None = None
    MaxVersion = 2
    Settings = {0, 1}
    Default = 0
    MaxOperations = 3
    MaxDeaths = 2
    MaxPowerLosses = 1
SPECIFICATION FairSpec
INVARIANTS
    JobsSurvive
    SettingsAgree
    NoBackendIsLost
PROPERTIES
    HostAnswers
    OrphansEnd
CHECK_DEADLOCK FALSE
