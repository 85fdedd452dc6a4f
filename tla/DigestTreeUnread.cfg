SPECIFICATION Spec
CONSTANTS
  Unknown = Unknown
  Containers <- SomeZips
  Requests <- SomeRequests
  Max32 = 4
  Ceiling = 8
  Expansion = 5
  Description = "container.description"
  Nul = Nul
  Space = Space
  Arn1 = Arn1
  Arn2 = Arn2
  Url = Url
  Arns = {Arn1, Arn2}
  Absent = Absent
  Torn = Torn
  Streams <- TwoStreams
  Folders <- EveryFolder
  Supported = {"standard", "older"}
  Archives <- SomeArchives
  Reserved = {"con"}
  Copies = 3
  Trees <- SomeEvidence
  ChunkSize = 2
  ChunksPerBevy = 2
  Bevies = 2
  Unread = Unread
  S1 = S1
  S2 = S2
  Points1 = Points1
  Points2 = Points2
  Path = Path
  Altered = Altered
  Sources <- SomeSources
  Settings <- SomeSettings
  Stream <- S1
  Offered <- DamagesTo
INVARIANT UnreadEvidenceIsReported
