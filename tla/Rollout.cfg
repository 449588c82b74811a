\* Conversations over servers, the worker, and the limiter of the tool.
SPECIFICATION RolloutFair
CONSTANTS
  Parts = {"tools", "servers", "request", "adapter", "full",
    "offload", "read", "rate"}
  Ranks = 4
  Tp = 2
  Sp = 4
  PerRank = 1
  Lora = TRUE
  Dummy = FALSE
  OffloadParam = TRUE
  OffloadOptimizer = TRUE
  FreeCache = TRUE
  MaxUpdates = 2
  MaxGenerations = 2
  MaxStarts = 2
  LoopRows = {1, 2, 3}
  LoopWorkers = {1, 2}
  LoopWorkerOf <- TwoWorkers
  LoopAgent <- MixedAgents
  LoopServers = {1, 2, 3}
  LoopCache = 2
  LoopBatches = 2
  LoopLimits <- FewTurns
  LoopLens <- ShortTurns
  RateWorkers = {1, 2, 3}
  RateCalls = {1, 2}
  RateThreads = 2
  RateMax = 2
  RateLimited = {1, 2}
  ActSizes <- ModelSizes
  ActBatches = 2
  ActBlocks = 6
INVARIANTS ConversationsRight ResourcesRight WorkerRight
PROPERTIES RolloutEnds
\* The batches and the calls are bounded.
CHECK_DEADLOCK FALSE
