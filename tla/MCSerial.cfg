SPECIFICATION FairSpec
CONSTANTS
  NULL = NULL
  Writer = {w1, w2}
  Reader = {r1, r2}
  INTQ_BUFSIZE = 3
  MaxTx = 4
  MaxKey = 3
INVARIANTS
  BytesInOrder
  SleepersHaveWakers
PROPERTIES
  QueuesDrain
CHECK_DEADLOCK FALSE
