CONSTANTS
  c1 = c1
  c2 = c2
  c3 = c3
  Cpu = {c1, c2}
  NoCpu = NoCpu
  Rq = {r1, r2}
  CacheOf <- TwoCpus
  MaxHotplug = 2
SPECIFICATION FairSpec
PROPERTY EveryCompletionDelivered
