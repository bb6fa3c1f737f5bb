CONSTANTS
  Rq = {r1, r2, r3}
  FlushRq = FlushRq
  MaxDepth = 2
  RqSync = FALSE
  MaxSubmit = 3
  MaxRequeue = 1
  QueueLimits <- Cached
  Cmds <- Cmd
SPECIFICATION Spec
INVARIANTS
  TagsSound
  SingleFlush
  OnePlace
  BugFree
  NeverStranded
SYMMETRY Symm
CHECK_DEADLOCK FALSE
