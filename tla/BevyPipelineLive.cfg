SPECIFICATION PipelineSpec
CONSTANTS
  ChunkSize = 2
  ChunksPerBevy = 2
  Size = 5
  Initial = 1
  Ceiling = 2
  Warmup = 1
  Rates <- MCRates
  w1 = w1
  w2 = w2
  w3 = w3
  w4 = w4
  Workers <- TwoWorkers
  QueueDepth = 2
  Lookahead = 1
  Streams <- LiveStreams
  FaultyHandles <- LastHandleFault
  SinkMayFail = TRUE
PROPERTY ImplementsStreamRead
INVARIANT WaitingConsumerIsOwedAWake
PROPERTY Terminates
