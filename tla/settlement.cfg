SPECIFICATION Spec
CONSTANTS
  Week = 2
  Horizon = 3
  BackOffsets = 2
  Limit = 2
  ReportingWindow = 1
  Guards = FALSE
  Sweeps = {s1}
  Values <- MCValues
  MaxReceipts = 2
  MaxWarm = 1
  MaxRows = 3
  MaxStops = 1
  MaxAccount = 1
INVARIANT UsageBilledOnce
PROPERTY PromotedWithinEvidence
CHECK_DEADLOCK FALSE
