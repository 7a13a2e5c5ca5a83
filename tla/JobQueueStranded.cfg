\* A cancel that arrives while the intake of the job is running.
SPECIFICATION FairSpec
CONSTANTS
  Jobs = {1, 2}
  Workers = {w1}
  Tokens = {1, 2, 3, 4, 5, 6}
  Keys = {k1}
  PrivateKeys = {}
  PaidKeys = {}
  Outcomes = {"complete"}
  MaxAttempts = 1
  MaxWaits = 0
  ReadFaults = FALSE
PROPERTIES CancelledAttachmentEnds
CHECK_DEADLOCK FALSE
