\* Programs of every family, held, streamed or cut at every place that matters.
SPECIFICATION Spec
CONSTANTS
  Sources <- MCSources
  Magic = 2
  FatHeader = 3
  FatEntry = 1
  Header = 3
  CmdHeader = 1
  SegHeader = 2
  SigHeader = 2
  SuperHeader = 1
  MaxFat = 4
  MaxNcmds = 4
  MaxSegments = 2
  MaxSections = 1
  MaxDylibs = 4
  MaxRpaths = 2
  MaxBlobs = 3
  MaxSizeofcmds = 6
  MaxSignature = 8
  MaxRanged = 24
  MaxRangeRead = 16
  Lower <- MCLower
  Names <- MCNames
  Hidden = {".x", ".tool"}
  ToolRoots = {".tool"}
  Shells = {"sh"}
  Loaders = {"curl"}
  PlistNames = {"job.plist"}
  ShortInterval = 5
  Entity <- MCEntity
  Undefined = {}
  MaxDepth = 3
  MaxNodes = 10
  MaxTotalBytes = 14
  MaxDataBytes = 4
  Plain = {"bob", "lib"}
  MinSample = 2
  PayloadMin = 4
  MaxPayloads = 2
  Block = 2
  Chunk = 3
  MaxStream = 12
  PatternSpan = 8
  Lookback = 2
  TextChunk = 12
  MaxTextStream = 36
  MaxWalkBack = 3
  MaxAssignments = 1
  MaxPipeTokens = 2
  MaxFormArg = 3
  TextPrefix = 4
  Scripts = {"run.sh"}
INVARIANTS
  LoaderCleanIsClean
  EntropyCleanIsClean
  RespellingNeverHelps
  StreamedAsHeld
  StringsSeenWhole
  LaunchdCleanIsClean
  ParsedIsMeant
CHECK_DEADLOCK FALSE
