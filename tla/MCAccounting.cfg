\* Two deliveries of one tenant, two workers that neither die nor are refused.
SPECIFICATION FairAccountingSpec
CONSTANTS
  Workers = {w1, w2}
  Tenants = {t1}
  t1 = t1
  Deliveries = {d1, d2}
  TenantOf <- OneTenant
  Threshold = 1
  Cooldown = 1
  MaxTime = 6
  None = None
  Answers = {"TRANSIENT"}
  Exceptions = {}
  MaxRetries <- Limits
  Permanent = "PERMANENT"
  EndpointKnown = TRUE
  Faults = {}
  Latencies = {900}
  MaxCounted = 3
INVARIANTS
  AccountingTypeOK
  CountersNotOverstated
  NoLockCycle
  StatisticsExact
  HealthIsCurrent
  PolicyAsDocumented
  DelaysGrow
PROPERTIES
  TasksEnd
CHECK_DEADLOCK FALSE
