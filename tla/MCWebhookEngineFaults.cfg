\* Two deliveries, two workers, every fault; no circuit row at the start.
SPECIFICATION Spec
CONSTANTS
  Workers = {w1, w2}
  Tenants = {t1}
  t1 = t1
  t2 = t2
  d1 = d1
  Deliveries = {d1, d2}
  TenantOf <- OneTenant
  Threshold = 2
  Cooldown = 1
  MaxTime = 6
  None = None
  Answers = {"PERMANENT", "RATE_LIMITED"}
  Exceptions = {"TIMEOUT"}
  MaxRetries <- Limits
  Permanent = "PERMANENT"
  EndpointKnown = FALSE
  Faults = {"crash", "broker"}
SYMMETRY Interchangeable
INVARIANTS
  TypeOK
  OneCarrier
  NothingElseStrands
  RowsCoherent
  DeadLettersMatch
  AttemptsMatch
PROPERTIES
  AttemptsNumbered
  DeliveryContractHolds
CHECK_DEADLOCK FALSE
