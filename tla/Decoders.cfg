\* DEFLATE and bzip2 streams, whole and broken, under every budget that bites.
SPECIFICATION Spec
CONSTANTS
  ByteBits = 2
  CrcBits = 4
  Poly = 3
  PolyReflected = 12
  MaxBits = 3
  Mod = 3
  NMax = 3
  Width = 32
  MaxByte = 3
  LengthBase <- MCLengthBase
  LengthExtra <- MCLengthExtra
  DistBase <- MCDistBase
  DistExtra <- MCDistExtra
  ClenOrder <- MCClenOrder
  CountBits = 2
  ClenBits = 2
  Repeats <- MCRepeats
  MaxLit = 7
  MaxDist = 3
  FixedLit <- MCFixedLit
  FixedDist <- MCFixedDist
  Window = 4
  FlushChunk = 2
  BlockWork = 1
  DynamicBlockWork = 2
  WorkPerByte = 4
  WorkSlack = 9
  BlockUnit = 12
  MaxGroups = 6
  MaxSelectors = 4
  GroupSize = 3
  MaxRunWeight = 8
  RNums <- MCRNums
  Jobs <- MCJobs
  Streams <- MCStreams
  NoJob <- MCNoJob
  NoStream <- MCNoStream
INVARIANTS
  WholeIsRead
  MeterOnlyStops
PROPERTIES
  BoundedSpec
