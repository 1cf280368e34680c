SPECIFICATION FairSpec
CONSTANTS
  Tree <- SmallCard
  Starts <- TwoStarts
  Batch = 2
  MaxDepth = 2
  MaxIndex = 5
  MaxDirs = 2
INVARIANTS
  TypeOK
  ShownBelongsToCur
  SmallFolderWhole
PROPERTIES
  HandlesFollowLoader
  PlaceholderGoes
CHECK_DEADLOCK FALSE
