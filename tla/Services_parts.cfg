SPECIFICATION Spec
CONSTANTS
  Unused = Unused
  a = a  b = b  d = d  e = e  root = root  p = p  q = q  u = u  v = v
  sys = sys  plug = plug  p1 = p1  p2 = p2
  ab = ab  long = long  cut = cut   br = br  ot = ot
  Item <- MCItem  Parent <- MCParent  Root = root  Tags <- MCTags  Size <- MCSize
  FirstRoom = 1  MaxSelected = 4
  Path <- MCPath  Data <- MCData
  Program <- MCProgram  HeaderRoom = 2
  Url <- MCUrl  Answer <- MCAnswer  MaxRequests = 4
  Paths <- MCPaths  Rules <- MCRules  Pins <- MCPins  Timeout = 1  MaxPaths = 1
  MaxLogSize = 3  LongestLine = 2  MaxMissed = 3
  Labels <- MCLabels  Kept <- MCKept  Trimmed <- MCTrimmed  Broken = a  MaxFavorites = 3
  MaxRegistrations = 3
  Types <- MCTypes  Browser = br  AppletData <- MCAppletData  MaxLoaded = 2
  Byte <- MCByte  BlockBytes = 4  CountBytes = 2  MaxMessage = 6
  Names <- MCNames  MaxSegs = 4  MaxTokens = 4  Room = 1
  Buttons <- MCButtons  MaxHeld = 2  HoldFrames = 3  RepeatDelay = 3  RepeatInterval = 3
INVARIANTS
  CountsCover
  NothingLost
  Settled
  AccessHeld
  KeptInBounds
  Standing
  Computed
PROPERTIES
  RepeatsPaced
\* A program that did not start, or that has ended, takes no more steps.
CHECK_DEADLOCK FALSE
