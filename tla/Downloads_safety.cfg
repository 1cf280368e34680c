SPECIFICATION Spec
CONSTANTS
  f = f
  g = g
  long = long
  Name <- Names
  LongName <- OneLong
  Slots = 2
  Framings <- AllFramings
  MaxBody = 2
  MaxStarts = 4
  Drops = TRUE
  Faults = TRUE
INVARIANTS
  TypeOK
  OneEntryEach
  AreaBacked
  HundredIsWhole
  KeptOnlyForRetry
PROPERTY
  OthersUntouched
CHECK_DEADLOCK FALSE
