CONSTANTS
  Task = {t1, t2}
  HasIoc = {t1}
  NrBatching = 2
  NrRequests = {1, 2}
  Calls <- MixedCalls
  MaxGet = 4
  MaxMust = 1
  MaxResize = 1
  MaxSwitch = 1
SPECIFICATION FairSpec
INVARIANTS TypeOK CountExact MarksTrackCount NoLostWakeup ElevatorSafe
PROPERTIES EveryCallReturns DrainEnds
CHECK_DEADLOCK FALSE
