CONSTANTS
  Rq = {r1, r2, r3}
  FlushRq = FlushRq
  MaxDepth = 2
  RqSync = FALSE
  MaxSubmit = 3
  MaxRequeue = 0
  QueueLimits <- Cached
  Cmds <- FuaOnly
SPECIFICATION FairSpec
PROPERTY
  EveryBioEnds
CHECK_DEADLOCK FALSE
