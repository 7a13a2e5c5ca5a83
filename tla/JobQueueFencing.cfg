\* Two requests of one key; two workers that crash, sleep past their lease, reclaim and
\* fail to read, interleaved everywhere.
SPECIFICATION Spec
CONSTANTS
  Jobs = {1, 2}
  Workers = {w1, w2}
  Tokens = {1, 2, 3, 4, 5, 6}
  Keys = {k1}
  PrivateKeys = {}
  PaidKeys = {}
  Outcomes = {"complete"}
  MaxAttempts = 2
  MaxWaits = 0
  ReadFaults = TRUE
SYMMETRY Symmetry
INVARIANTS TypeOK OwnershipInv FenceExclusive SettlementAgrees
PROPERTIES NobodyCancelsForYou ImplementsFencedRuns
CHECK_DEADLOCK FALSE
