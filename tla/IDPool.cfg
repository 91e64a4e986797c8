\* With every ID back but borrowedCount at its cap the pool only refuses: it may stop.
CONSTANTS
  Limit = 5
  MaxRefusals = 2
SPECIFICATION PoolSpec
INVARIANTS
  PoolPartition
PROPERTY
  LendsLowestFree
CHECK_DEADLOCK FALSE
