\* One delivery, two workers that may die, two replays that may overlap.
SPECIFICATION ReplaySpec
CONSTANTS
  Workers = {w1, w2}
  Tenants = {t1}
  t1 = t1
  e1 = e1
  Deliveries = {d1}
  TenantOf <- OneTenant
  EventOf <- OneEvent
  Replays = {q1, q2}
  Threshold = 2
  Cooldown = 1
  MaxTime = 6
  None = None
  Answers = {"PERMANENT"}
  Exceptions = {"TRANSIENT"}
  MaxRetries <- Limits
  Permanent = "PERMANENT"
  EndpointKnown = TRUE
  Faults = {"crash"}
SYMMETRY Interchangeable
INVARIANTS
  ReplayTypeOK
  OneLetterPerSend
  OnlyMishapsStrand
  ProperReplaysAreSafe
CHECK_DEADLOCK FALSE
