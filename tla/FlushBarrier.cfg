CONSTANTS
  Rq = {r1, r2}
  FlushRq = FlushRq
  MaxDepth = 0
  RqSync = TRUE
  MaxSubmit = 3
  MaxRequeue = 1
  QueueLimits <- Limits
  Cmds <- Cmd
SPECIFICATION FairSpec
INVARIANTS
  FlushOrdered
  CrashConsistent
  InFlightAccurate
PROPERTY
  BarrierSpec
  EveryBioEnds
CHECK_DEADLOCK FALSE
