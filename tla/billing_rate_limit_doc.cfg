SPECIFICATION Spec
CONSTANTS
  Workers = {w1}
  Entries = {e1}
  Cap = 1
  AttemptLimit = 2
  AttemptCeiling = 2
  None = None
  Gone = Gone
  Settlement = FALSE
  Exclusive = TRUE
  RateLimits = TRUE
  Lapses = FALSE
  Fee <- EqualFees
INVARIANT ChargedOnce
