SPECIFICATION Spec
CONSTANTS
  ChunkSize = 4
  ChunksPerBevy = 2
  Size = 13
  Streams <- MCStreams
  SinkMayFail = TRUE
  This = This
  Other = Other
  Members <- MCMembers
  Regions <- MCRegions
  ChunkCacheBytes = 8
  BevyCacheBytes = 3
  Calls = 3
  SetStreams <- MCSetStreams
  StreamSize <- MCStreamSize
  Families <- MCFamilies
  Image = "image"
  SetChunkSize = 2
  UnknownBlock = 3
  LargestOffset = 10
INVARIANT AgreesWithSerialOutcome
PROPERTY ImplementsStreamRead
INVARIANT RegionIsItsStream
INVARIANT ParsedMapMeansTheSegment
INVARIANT RandomReadsServeTheImage
INVARIANT ComparedDigestsCoverTheirSubject
INVARIANT EveryDigestIsAnsweredOnce
INVARIANT LegibleImagesAreCompared
