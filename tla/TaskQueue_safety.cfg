SPECIFICATION Spec
CONSTANTS
  p1 = p1
  p2 = p2
  a = a
  b = b
  Path <- TwoPaths
  Chunk <- TwoChunks
  Disks <- ManyDisks
  MaxTasks = 3
  Faults <- ReportedFaults
  FreshOps <- AnyHeap
INVARIANTS
  TypeOK
  OneOpenCopy
  CopiedPrefix
  AggregateHonest
PROPERTIES
  NoSilentLoss
  CancelTakesEffect
CHECK_DEADLOCK FALSE
