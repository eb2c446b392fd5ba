\* Three workers: a success answers a request sent before the circuit opened.
SPECIFICATION CircuitSpec
CONSTANTS
  Workers = {w1, w2, w3}
  Tenants = {t1}
  Threshold = 2
  Cooldown = 1
  MaxTime = 3
  None = None
PROPERTIES StaysOpenUntilProbed
