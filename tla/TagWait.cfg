SPECIFICATION FairSpec
CONSTANTS
  Task = {t1, t2}
  Freer = {f1}
  Hctx = {h1}
  Shared = FALSE
  NrTags = 4
  BT_WAIT_QUEUES = 2
  BT_WAIT_BATCH = 2
  MinShare = 1
  UINT = 256
  Waits = {TRUE}
  NewDepths = {}
  NoOne = NoOne
  Sysfs = Sysfs
INVARIANTS TypeOK
PROPERTIES PoolServes SleepersWoken
