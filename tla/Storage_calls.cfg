SPECIFICATION Spec
CONSTANTS
  Unused = Unused
  t1 = t1  t2 = t2  n1 = n1  n2 = n2
  a = a  b = b  j = j
  c1 = c1  c2 = c2
  fw = fw  exfat = exfat
  i1 = i1  i2 = i2  y = y  r = r  z = z  k1 = k1  k2 = k2
  Title <- MCTitle  Name <- MCName  Saves0 <- MCSaves0
  Files <- MCFiles  Ids <- MCIds  Titles <- MCTitles
  Nands <- MCNands  Parts <- MCParts  Exfat = exfat  Firmwares <- MCFirmwares
  MaxLeaky = 1
  Id <- MCId  Zero = z  Tickets <- MCTickets  PlainKeys <- MCPlainKeys  Dec <- MCDec
  Data <- MCData  Junk = j  Packages <- MCPackages  LogRoom = 2  MaxEntries = 3
INVARIANTS
  RestoreKeepsExisting
  CopiesWhole
  ReportsTrue
  PlaceholdersSettled
  KeysGenuine
  OneCopySurvives
  LogKept
  NothingOpen
