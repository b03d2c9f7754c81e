SPECIFICATION FairSpec
CONSTANTS
  Jobs = {j1}
  Keys = {k1}
  Slots = {w1, w2}
  Owners = {w1, w2}
  Clients = {c1, c2}
  NoOwner = NoOwner
  MaxAttempts = 2
  MaxActive = 1
  RetentionFence = TRUE
  SlotId <- DistinctIds
INVARIANTS AtMostOneAccepted BillingFence BilledOutcome LeaseShape OwnedMeansCurrent
PROPERTIES TerminalIsFinal CancelledNeverBilled ExpiredNeverRuns ImplementsLifecycle EventuallyEnds
