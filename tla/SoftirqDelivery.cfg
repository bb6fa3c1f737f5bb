CONSTANTS
  c1 = c1
  c2 = c2
  c3 = c3
  Cpu = {c1, c2, c3}
  NoCpu = NoCpu
  Rq = {r1, r2}
  CacheOf <- ThreeCpus
  MaxHotplug = 2
SPECIFICATION Spec
INVARIANTS TypeOK SoftirqComing NothingStranded DeliveredOnce
SYMMETRY Symm
