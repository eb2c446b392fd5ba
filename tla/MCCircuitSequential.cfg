\* One worker for two tenants: nothing overlaps.
SPECIFICATION BoundedSpec
CONSTANTS
  Workers = {w1}
  Tenants = {t1, t2}
  Threshold = 3
  Cooldown = 2
  MaxTime = 6
  None = None
  Latencies = {100, 900}
  MaxRequests = 7
PROPERTIES SequentialContract FailureNeverHeals
