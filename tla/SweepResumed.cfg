\* The sweep alone: a clip that failed, asked again by the next pass of the same run.
SPECIFICATION SweepOnly
CONSTANTS
    Clips = {1, 2}
    Tasks = {k1, k2}
    MaxRequests = 2
    MaxRetries = 1
    MaxThrottled = 1
    ThrottleStreak = 2
    RetryCap = 1
    UnreachableStreak = 1
    MaxPasses = 2
    MaxAsked = 2
    Places = {1, 2}
    MaxPaid = 2
    Windows = {w1}
    Annotators = {a, b, c}
    Rows = {1}
    Texts = {k1, k2}
    MaxSaves = 4
    MaxVersion = 1
    MaxLate = 0
SYMMETRY Symmetry
INVARIANTS
    NothingRefused
CHECK_DEADLOCK FALSE
