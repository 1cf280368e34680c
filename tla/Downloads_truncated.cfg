SPECIFICATION Spec
CONSTANTS
  f = f
  g = g
  long = long
  Name <- OneName
  LongName <- NoLong
  Slots = 2
  Framings <- Sized
  MaxBody = 2
  MaxStarts = 2
  Drops = TRUE
  Faults = FALSE
INVARIANT ZeroMeansWhole
CHECK_DEADLOCK FALSE
