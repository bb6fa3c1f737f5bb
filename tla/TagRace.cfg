SPECIFICATION Spec
CONSTANTS
  Task = {t1, t2}
  Freer = {f1, f2}
  Hctx = {h1}
  Shared = TRUE
  NrTags = 2
  BT_WAIT_QUEUES = 1
  BT_WAIT_BATCH = 2
  MinShare = 1
  UINT = 256
  Waits = {TRUE, FALSE}
  NewDepths = {1}
  NoOne = NoOne
  Sysfs = Sysfs
SYMMETRY Symmetry
INVARIANTS CountersSound ShareExact
