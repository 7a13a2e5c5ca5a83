\* One clip with a retry, every fault, under the worker loop's fairness.
SPECIFICATION FairSpec
CONSTANTS
    Clips = {1}
    Unit = 1
    CapCents = 1
    Concurrency = 1
    MaxRetries = 1
    MaxAttempts = 2
    StorageFaults = TRUE
    MediaFaults = TRUE
    MediaContended = TRUE
INVARIANTS NeverTwice
PROPERTIES StoppedRunIsSettled ProjectionCatchesUp
CHECK_DEADLOCK FALSE
