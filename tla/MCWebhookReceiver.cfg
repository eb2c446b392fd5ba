\* An event posted twice, two with the empty key, two subscribers, two attempts.
SPECIFICATION Spec
CONSTANTS
  Requests = {r1, r2, r3, r4}
  Tenants = {t1}
  Keys = {k, empty}
  Topics = {a, b}
  Subscriptions = {s1, s2}
  t1 = t1
  k = k
  Empty = empty
  a = a
  b = b
  r1 = r1
  r2 = r2
  r3 = r3
  r4 = r4
  s1 = s1
  s2 = s2
  Wanted <- Posted
  Subscriber <- Follows
  None = None
  MaxAttempts = 2
SYMMETRY Interchangeable
INVARIANTS
  TypeOK
  OneEventPerKey
  FanOutComplete
  UsageNotOverstated
  ProcessedOnce
  DeliveredWasProcessed
PROPERTIES
  EventContractHolds
CHECK_DEADLOCK FALSE
