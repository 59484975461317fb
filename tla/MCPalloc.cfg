SPECIFICATION MCSpec
CONSTANTS
  NULL = NULL
  PoolThread = {t1, t2, t3}
  PoolPages = 4
  Thread = {h1, h2}
  PageCnt = 2
  PGSIZE = 8
  ArenaSize = 5
  MinBlock = 1
  SizeMod = 32
  Sizes = {1, 2, 4}
  Factors = {1, 2}
  MaxHeld = 3
SYMMETRY ThreadSymmetry
INVARIANTS
  PoolIsExact
  ZeroedPagesStayZeroed
  BlocksKeepTheirBytes
  ArenasAreExact
PROPERTIES
  FailsOnlyWithoutRoom
