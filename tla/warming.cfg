SPECIFICATION Spec
CONSTANTS
  x1 = x1
  x2 = x2
  w1 = w1
  w2 = w2
  c1 = c1
  Prefixes = {x1, x2}
  CustomerOf <- OneCustomer
  Workers = {w1, w2}
  Days = 2
  Lease = 2
  Due = 1
  Reserve = 2
  Budgets = {2, 4}
  CustomerLimits = {1}
  PingLimits = {2}
  ClaimLimit = 2
  StopLoss = 1
  MaxClaims = 2
INVARIANTS ChargesCovered HeldWithinLease
SYMMETRY Symmetric
