\* Three requests of one key that join, leave and park; a worker that may die and let the
\* next one in.
SPECIFICATION Spec
CONSTANTS
  Jobs = {1, 2, 3}
  Workers = {w1}
  Tokens = {1, 2, 3, 4, 5, 6}
  Keys = {public}
  PrivateKeys = {}
  PaidKeys = {}
  Outcomes = {"complete"}
  MaxAttempts = 1
  MaxWaits = 1
  ReadFaults = FALSE
INVARIANTS RunHasDriver EarliestPays OneSettles OneRunPerKey
CHECK_DEADLOCK FALSE
