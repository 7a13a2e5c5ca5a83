\* The read after an intake commit fails on the last attempt.
SPECIFICATION Spec
CONSTANTS
  Jobs = {1}
  Workers = {w1}
  Tokens = {1, 2, 3, 4, 5, 6}
  Keys = {k1}
  PrivateKeys = {}
  PaidKeys = {}
  Outcomes = {"complete"}
  MaxAttempts = 1
  MaxWaits = 0
  ReadFaults = TRUE
INVARIANTS RunHasDriver
CHECK_DEADLOCK FALSE
