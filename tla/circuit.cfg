SPECIFICATION FairSpec
CONSTANTS
  Providers = {p, q}
  Tenants = {t1, t2}
  NoTenant = NoTenant
  Calls = {c1, c2}
  Streams = {c2}
  None = None
  Threshold = 2
  MaxStates = 1
  MaxScopes = 1
INVARIANTS TypeOK PermitsCounted OneProbe OneTenantNeverOpens
PROPERTIES StaleIsIgnored RejectionEnds
