\* Two deliveries of one tenant to an endpoint without a circuit yet, no fault.
SPECIFICATION Spec
CONSTANTS
  Workers = {w1, w2}
  Tenants = {t1}
  t1 = t1
  t2 = t2
  d1 = d1
  Deliveries = {d1, d2}
  TenantOf <- OneTenant
  Threshold = 2
  Cooldown = 1
  MaxTime = 6
  None = None
  Answers = {"PERMANENT", "RATE_LIMITED"}
  Exceptions = {"TIMEOUT"}
  MaxRetries <- Limits
  Permanent = "PERMANENT"
  EndpointKnown = FALSE
  Faults = {}
INVARIANTS NoneStranded
CHECK_DEADLOCK FALSE
