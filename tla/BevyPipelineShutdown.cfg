SPECIFICATION PipelineSpec
CONSTANTS
  ChunkSize = 2
  ChunksPerBevy = 2
  Size = 28
  Initial = 2
  Ceiling = 5
  Warmup = 1
  Rates <- RisingRates
  w1 = w1
  w2 = w2
  w3 = w3
  w4 = w4
  Workers <- FourWorkers
  QueueDepth = 4
  Lookahead = 13
  Streams <- TornFirst
  FaultyHandles <- NoHandleFault
  SinkMayFail = FALSE
CONSTRAINT SlowReaders
INVARIANT JoinReleasesEveryReader
