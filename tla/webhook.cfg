SPECIFICATION FairSpec
CONSTANTS
  Invocations = {w1, w2}
  Last = 3
  Content <- BackAndForth
  MaxAttempts = 2
  MaxFaults = 2
  None = None
INVARIANT BehindIsPending
PROPERTY CatchesUp
