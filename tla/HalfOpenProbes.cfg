\* Two workers meet a half-open circuit.
SPECIFICATION CircuitSpec
CONSTANTS
  Workers = {w1, w2}
  Tenants = {t1}
  Threshold = 2
  Cooldown = 1
  MaxTime = 3
  None = None
INVARIANTS OneProbe
