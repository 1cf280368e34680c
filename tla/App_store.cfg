SPECIFICATION FairSpec
CONSTANTS
  p1 = p1
  p2 = p2
  a = a
  b = b
  Path <- TwoPaths
  Chunk <- TwoChunks
  Disks <- OneDisk
  MaxTasks = 1
  Faults <- NoFaults
  FreshOps <- NullOnly
  Urls <- OneUrl
  Catalogs = {TRUE, FALSE}
PROPERTY BackLeavesStore
CHECK_DEADLOCK FALSE
