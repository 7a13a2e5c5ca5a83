\* Every request ends: two workers, free or refused as paid, with parks, coalescing,
\* crashes and failing reads.
SPECIFICATION FairSpec
CONSTANTS
  Jobs = {1, 2}
  Workers = {w1, w2}
  Tokens = {1, 2, 3, 4, 5, 6}
  Keys = {public, paid}
  PrivateKeys = {}
  PaidKeys = {paid}
  Outcomes = {"complete"}
  MaxAttempts = 1
  MaxWaits = 1
  ReadFaults = TRUE
PROPERTIES EveryJobEnds
CHECK_DEADLOCK FALSE
