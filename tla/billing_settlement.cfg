SPECIFICATION Spec
CONSTANTS
  Workers = {w1, w2}
  Entries = {e1}
  Cap = 1
  AttemptLimit = 2
  AttemptCeiling = 3
  None = None
  Gone = Gone
  Settlement = TRUE
  Exclusive = TRUE
  RateLimits = TRUE
  Lapses = FALSE
  Fee <- EqualFees
SYMMETRY InterchangeableWorkers
INVARIANTS ChargedOnce SentIsMarked HeldIsAccounted
