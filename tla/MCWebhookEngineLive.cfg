\* Two deliveries of two tenants to one endpoint without a circuit yet, two
\* workers, no fault.
SPECIFICATION FairSpec
CONSTANTS
  Workers = {w1, w2}
  Tenants = {t1, t2}
  t1 = t1
  t2 = t2
  d1 = d1
  Deliveries = {d1, d2}
  TenantOf <- TwoTenants
  Threshold = 2
  Cooldown = 1
  MaxTime = 6
  None = None
  Answers = {"TRANSIENT"}
  Exceptions = {}
  MaxRetries <- Limits
  Permanent = "PERMANENT"
  EndpointKnown = FALSE
  Faults = {}
PROPERTIES
  AllFinish
CHECK_DEADLOCK FALSE
