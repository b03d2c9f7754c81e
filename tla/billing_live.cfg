SPECIFICATION FairSpec
CONSTANTS
  Workers = {w1, w2}
  Entries = {e1}
  Cap = 2
  AttemptLimit = 2
  AttemptCeiling = 3
  None = None
  Gone = Gone
  Settlement = FALSE
  Exclusive = TRUE
  RateLimits = TRUE
  Lapses = TRUE
  Fee <- EqualFees
PROPERTY EventuallyClosed
