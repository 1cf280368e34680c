SPECIFICATION Spec
CONSTANTS
  p1 = p1
  p2 = p2
  a = a
  b = b
  Path <- TwoPaths
  Chunk <- TwoChunks
  Disks <- FullDisk
  MaxTasks = 2
  Faults <- ReadFault
  FreshOps <- NullOnly
PROPERTY NoSilentLoss
CHECK_DEADLOCK FALSE
