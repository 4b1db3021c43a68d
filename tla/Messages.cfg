SPECIFICATION MessagesSpec
CONSTANTS
  None = None
  Unset = Unset
  Levels = 3
  Buckets = 4
  Pow <- PowersOfFour
  MaxDelay = 100
  Bodies <- OneBody
  JsonTexts <- OneObject
  Codes = {200, 204}
  NoLength = {204}
  SendDate = TRUE
  MaxSeconds = 1
  MaxSetters = 3
  Locations <- TwoLocations
  Paths <- FilePaths
  Lower <- LowerPiece
  Extensions = {".h"}
  FileTypes = {".h"}
  DocRoot <- RootPath
  IndexPage <- IndexPath
  Dirs <- Directories
  Volatile <- Rewritten
  Files <- ServedFiles
  CacheTime = 1
  MaxWaiting = 1
  MaxFileTime = 4
  AddressBits = 4
  TwoTo <- PowersOfTwo
  Blocks <- TrustedBlocks
  AddressOf <- AddressOfText
  Unspecified = 16
  Peers = {5, 7}
  MaxPieces = 4
  Texts <- RequestTexts
  CookieNames <- Names
  CookieValues <- CookieTexts
  Escape <- EscapeOf
  MaxSets = 3
INVARIANTS
  ResponseExact
  FilesCurrent
  RequestArrives
  CodecsExact
  RealIpExact
  
  InsertionExact
PROPERTIES
  KeptBytesStay
CHECK_DEADLOCK FALSE
