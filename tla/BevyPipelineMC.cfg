SPECIFICATION PipelineSpec
CONSTANTS
  ChunkSize = 2
  ChunksPerBevy = 2
  Size = 13
  Initial = 1
  Ceiling = 2
  Warmup = 1
  Rates <- MCRates
  w1 = w1
  w2 = w2
  w3 = w3
  w4 = w4
  Workers <- OneWorker
  QueueDepth = 2
  Lookahead = 3
  Streams <- Damaged
  FaultyHandles <- NoHandleFault
  SinkMayFail = TRUE
INVARIANT EveryClaimedBevyHasOneHolder
INVARIANT ReportedFailureIsReal
INVARIANT JoinReleasesEveryReader
