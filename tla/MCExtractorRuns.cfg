\* Two runs started in one second, of up to three events each, a request that
\* cancels or deletes, a reader that may come back once, a history and a
\* channel of one event.
CONSTANTS
    s1 = s1
    s2 = s2
    q1 = q1
    q2 = q2
    r1 = r1
    None = None
    Starts = {s1, s2}
    Requests = {q1}
    Readers = {r1}
    SecondOf <- MCSecondOf
    MaxSuffix = 1
    MaxProgress = 1
    MaxConnects = 2
    HistorySize = 1
    Buffer = 1
SPECIFICATION Spec
SYMMETRY MCSymmetry
INVARIANTS
    StreamsFitTogether
    OutcomesAgree
    OneLiveRunPerId
PROPERTIES
    DeletionsWait
CHECK_DEADLOCK FALSE
