CONSTANTS
  Rq = {r1, r2}
  NoRq = NoRq
  HZ = 4
  BLK_MAX_TIMEOUT = 5
  RqTimeout = 6
  Timeouts = {0, 2}
  Skews = {0, 1}
  Slack = 1
  Wrap = 32
  MaxLag = 1
SPECIFICATION Spec
INVARIANTS TimerNotLate
SYMMETRY Symm
