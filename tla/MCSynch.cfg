SPECIFICATION MCFairSpec
CONSTANTS
  NULL = NULL
  Thread = {t1, t2, t3, t4}
  MaxTid = 4
  RWThread = {r1, r2, r3, r4, r5}
INVARIANTS
  LockIsExclusive
  NobodyLeftAsleep
  CountersExact
PROPERTIES
  AllocatesAtomically
  EveryCallReturns
  ImplementsReadersWriters
  WaitersGetIn
CHECK_DEADLOCK FALSE
