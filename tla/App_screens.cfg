SPECIFICATION FairSpec
CONSTANTS
  p1 = p1
  p2 = p2
  a = a
  b = b
  Path <- TwoPaths
  Chunk <- TwoChunks
  Disks <- ManyDisks
  MaxTasks = 3
  Faults <- ReportedFaults
  FreshOps <- NullOnly
  Urls <- OneUrl
  Catalogs = {TRUE, FALSE}
INVARIANT TypeOK
PROPERTIES
  EveryTaskServed
  QueueImplementsFileJobs
CHECK_DEADLOCK FALSE
