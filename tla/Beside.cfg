\* Two requesters over a midnight and two incidents; two requests of one browser; a window
\* that dies over a Deep job and the next one; one scan over four openings of its store; two
\* analyses of one mix with an upgrade, the upkeep and `acquire`; three runs of a mix and a
\* collector, over four days.
SPECIFICATION Spec
CONSTANTS
    Requesters = {k1, k2}
    DayLength = 2
    WindowLength = 2
    Cooldown = 1
    FailureRateE4 = 3000
    MinimumSample = 1
    DailyBudget = 1
    LatchCount = 2
    MaxTime = 2
    MaxTraffic = 4
    MaxGeneration = 1
    Browsers = {b1}
    Requests = {k1, k2}
    MaxSessions = 2
    MaxLinks = 1
    Workers = {k1, k2}
    ByHand = 1
    Approvals = 1
    MaxAttempts = 2
    MaxSpawns = 2
    Units = 2
    MaxOpens = 4
    r1 = r1
    r2 = r2
    Analyses = {r1, r2}
    MaxBegun = 3
    MaxRelease = 2
    PcmKept = 1
    OriginalKept = 1
    HostedKept = 2
    MediaKept = 2
    LastDay = 3
    MaxLines = 3
SYMMETRY Symmetry
INVARIANTS
    TypeOK
    FleetKeepsBudget
    ResetIsFinal
    OneAnswer
    BudgetCoversCharges NoBlindResubmission
    PointerOpens FrozenIsItsRun
    EvidenceStaysProven
PROPERTIES
    TripsAreCounted
    CookieSurvives
    NotResumed
    PointerGoesForward
    NothingOwnedIsCollected
CHECK_DEADLOCK FALSE
