SPECIFICATION Spec
CONSTANTS
  Total = 5
  ReadSize = 3
  Requests <- AskedFor
  Media <- SteadyBlockEnds
  Folders <- EveryFolder
  FileBase <- UnitBase
  Unit <- AllUnits
  ChunkSize = 2
  BevyChunks = 1
  Overhead = 1
  Threshold = 3
  MaxParts = 3
  Workers = 1
  Depth = 1
  Kinds <- EveryKind
  Entries <- Paths
  Kind <- TreeKinds
  Children <- Tree
  Unlisted <- Missing
  Listable <- Readable
  SizeOf <- Sizes
  Roots <- Named2
  MaxDepth = 2
  QueueCapacity = 2
  SegmentLimit = 2
  PerItemOverhead = 1
  Modes <- AllModes
  Forms <- AllForms
  ContentOf <- Found
  BigAttribute <- OfA
  ReservedFiles <- OfB
  ZipsegLimit = 1
  CommonMapLimit = 3
  ChunksPerBevy = 1
  MaxFaults = 2
  PoolChunkSize = 2
  LastTarget = 2
INVARIANT EverySectorIsItsOwnOrRecorded
INVARIANT ReportNamesExactlyTheFilled
INVARIANT PartsAreTheImage
INVARIANT DigestsCoverTheImage
INVARIANT WrittenSetIsTheSource
INVARIANT BothWalksAgree
INVARIANT NothingIsLostSilently
INVARIANT HeldFilesReadBack
PROPERTY AcquisitionsEnd
CHECK_DEADLOCK FALSE
