SPECIFICATION Spec
CONSTANTS
  r1 = r1
  r2 = r2
  r3 = r3
  a = a
  b = b
  cust = cust
  Org = Org
  Requests = {r1, r2, r3}
  Customers = {cust}
  TenantOf <- Owners
  Replicas = {a, b}
  ReplicaOf <- Servers
  PolicyTTL = 1
  EntryTTL = 2
  MaxEntries = 1
  ReadTime = 1
  LookTime = 1
  CallTime = 0
  MaxPuts = 1
  None = None
INVARIANTS ReplayIsOwnPaid PurgedIsGone
PROPERTY ServedWithConsent
SYMMETRY Twins
