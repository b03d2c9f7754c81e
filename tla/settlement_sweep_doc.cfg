SPECIFICATION FairSpec
CONSTANTS
  Week = 2
  Horizon = 4
  BackOffsets = 2
  Limit = 2
  ReportingWindow = 1
  Guards = TRUE
  Sweeps = {s1}
  Values <- MCValues
  MaxReceipts = 1
  MaxWarm = 0
  MaxRows = 1
  MaxStops = 0
  MaxAccount = 0
PROPERTY NoWeekIsLeft
CHECK_DEADLOCK FALSE
