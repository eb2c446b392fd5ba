\* Three workers of two tenants that share an endpoint URL.
SPECIFICATION CircuitSpec
CONSTANTS
  Workers = {w1, w2, w3}
  Tenants = {t1, t2}
  Threshold = 2
  Cooldown = 2
  MaxTime = 4
  None = None
SYMMETRY Interchangeable
INVARIANTS
  CircuitTypeOK
  NoLostFailure
  ThresholdIsExact
  OpenIsStamped
  LockedRowIsCurrent
