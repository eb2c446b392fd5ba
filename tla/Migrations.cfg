\* The whole chain; every kind of row an operation can fail on.
SPECIFICATION Spec
INVARIANTS
  LatestMatchesModels
  SchemaIsItsRevision
  NeverUpgradedAgain
  UpgradeNeedsCleanRows
  PairsStayUnique
CHECK_DEADLOCK FALSE
