SPECIFICATION MCFairSpec
CONSTANTS
  NULL = NULL
  Thread = {t1, t2}
  Sector <- Sectors
  Data = {blank, d1}
  Blank = blank
  MaxSpurious = 1
  MaxCapacity = 2097152
  WORD = 1073741824
  MaxDepth = 3
  Bus <- Buses
  Options <- AllOptions
INVARIANTS
  NoStaleCompletion
  BlocksAreExact
PROPERTIES
  ChannelIsReleased
CHECK_DEADLOCK FALSE
