\* Two clips and two tasks over a pass, its crash and the next one; one review window beside
\* commands, over a first pass, a second and a resolution, any of which may fail; two free rows and
\* two that paid evidence touched, at one place; a pass with a backup beside it, and restores that
\* die or fail anywhere, at most once by an exception after the step it comes from took effect.
SPECIFICATION Spec
CONSTANTS
    Clips = {1, 2}
    Tasks = {k1, k2}
    MaxRequests = 2
    MaxRetries = 1
    MaxThrottled = 1
    ThrottleStreak = 2
    RetryCap = 1
    UnreachableStreak = 1
    MaxPasses = 2
    MaxAsked = 2
    Places = {p1}
    MaxPaid = 2
    Windows = {w1}
    Annotators = {a, b, c}
    Rows = {1}
    Texts = {k1, k2}
    MaxSaves = 3
    MaxVersion = 2
    MaxLate = 1
SYMMETRY Symmetry
INVARIANTS
    TypeOK
    ShownIsRecorded PairIsWhole NothingFreeIsLost
    AllOrNothing
PROPERTIES
    NeverAskedAgain
    SnapshotIsWhole
CHECK_DEADLOCK FALSE
