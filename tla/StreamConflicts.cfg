SPECIFICATION Spec
CONSTANTS
  Parallelisms <- MCParallelisms
  Overrides <- MCOverrides
  Algorithms <- MCAlgorithms
  BevySizes <- MCBevySizes
  Warmup = 2
  Rates <- MCRates
  C1 = C1
  C2 = C2
  Calls = {C1, C2}
  CommandLines <- MCCommandLines
  Originals <- MCOriginals
  Names <- MCNames
  LogBeside <- MCLogBeside
  PartPath <- MCPartPath
  WithAff4l <- MCWithAff4l
  NoName = NoName
  ChunkSize = 2
  ChunksPerBevy = 2
  FileCount = 3
  MaxLength = 6
  SourceMayFail = TRUE
  ContainerMayFail = TRUE
  Volume = "vol"
  Absent = Absent
  Evidence <- MCEvidence
  Symbolic = {"zero"}
  BriefCap = 2
  BriefLimit = 1
  FilesNamed <- MCNamed
  PadChar = PadChar
  Foreign = Foreign
  NoValue = NoValue
INVARIANT ConflictsAreReported
