\* Two clips, two tasks, two claims; journals and media that fail.
SPECIFICATION Spec
CONSTANTS
    Clips = {1, 2}
    Unit = 5000
    CapCents = 2
    Concurrency = 2
    MaxRetries = 0
    MaxAttempts = 2
    StorageFaults = TRUE
    MediaFaults = TRUE
    MediaContended = FALSE
INVARIANTS TypeOK AdmitterMatchesLedger
PROPERTIES SettlementCoversCharges NothingAdmittedAfterStop ImplementsPurse
CHECK_DEADLOCK FALSE
