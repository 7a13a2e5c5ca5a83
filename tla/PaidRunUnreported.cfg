SPECIFICATION Spec
CONSTANTS
    Clips = {1, 2}
    Unit = 5000
    CapCents = 2
    Concurrency = 1
    MaxRetries = 0
    MaxAttempts = 2
    StorageFaults = FALSE
    MediaFaults = FALSE
    MediaContended = FALSE
INVARIANTS StoppedRunReportsAll
CHECK_DEADLOCK FALSE
