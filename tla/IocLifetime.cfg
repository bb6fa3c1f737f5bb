SPECIFICATION FairSpec
CONSTANTS
  Task = {t1, t2}
  Ioc = {i1}
  Queue = {q1, q2}
  Icq = {c1, c2}
  Rq = {r1, r2}
  MaxGet = 3
  MaxClear = 2
  Nil = Nil
INVARIANTS TypeOK RefsExact NoUseAfterFree IoschedNotified
PROPERTIES ContextFreed ClearEnds
