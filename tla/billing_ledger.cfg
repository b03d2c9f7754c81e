SPECIFICATION Spec
CONSTANTS
  Workers = {w1, w2}
  Entries = {e1, e2}
  Cap = 1
  AttemptLimit = 2
  AttemptCeiling = 2
  None = None
  Gone = Gone
  Settlement = FALSE
  Exclusive = TRUE
  RateLimits = FALSE
  Lapses = TRUE
  Fee <- EqualFees
SYMMETRY Interchangeable
INVARIANTS ChargedOnce SentIsMarked HeldIsAccounted
PROPERTY SendsFitCap
