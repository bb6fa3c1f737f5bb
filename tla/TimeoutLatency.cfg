CONSTANTS
  Rq = {r1, r2}
  NoRq = NoRq
  HZ = 2
  BLK_MAX_TIMEOUT = 2
  RqTimeout = 3
  Timeouts = {0}
  Skews = {0}
  Slack = 1
  Wrap = 26
  MaxLag = 1
SPECIFICATION FairSpec
INVARIANT TimerNotLate
PROPERTY EveryRequestGrabbed
