\* Two workers: one is about to write half_open, the other's answer is late.
SPECIFICATION CircuitSpec
CONSTANTS
  Workers = {w1, w2}
  Tenants = {t1}
  Threshold = 2
  Cooldown = 1
  MaxTime = 3
  None = None
PROPERTIES HalfOpenAfterCooldown
