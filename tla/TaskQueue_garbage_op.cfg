SPECIFICATION FairSpec
CONSTANTS
  p1 = p1
  p2 = p2
  a = a
  b = b
  Path <- TwoPaths
  Chunk <- TwoChunks
  Disks <- FullDisk
  MaxTasks = 2
  Faults <- NoFaults
  FreshOps <- AnyHeap
PROPERTY DeletesLeave
CHECK_DEADLOCK FALSE
