SPECIFICATION Spec
CONSTANTS
  Tree <- SmallCard
  Starts <- TwoStarts
  Batch = 2
  MaxDepth = 2
  MaxIndex = 5
  MaxDirs = 2
INVARIANT BulkHitsMarked
CHECK_DEADLOCK FALSE
