SPECIFICATION Spec
CONSTANTS
  Elem = {1, 2, 3, 4, 5}
  List = {1, 2}
  MinBuckets = 1
  MaxBuckets = 4
  BEST_ELEMS_PER_BUCKET = 1
  Bits <- SmallBits
  NameSize = 4
  SizeSize = 4
  MaxArray = 6
  MaxString = 4
  MemSize = 6
  n_max = 4
  NOBODY = nobody
  ROW_CNT = 2
  COL_CNT = 3
  TAB = 2
  MaxTyped = 4
  TIMER_FREQ = 7
  Thousand = 10
  FirstLoops = 8
  UINT = 128
  MaxSpeed = 80
  BLOCK_SECTOR_SIZE = 2
  UNKNOWN = unknown
  MaxBoots = 3
  NOFILE = nofile
  Process = {p1, p2}
  Line = {0, 7, 14}
  MaxSections = 2
  Main = p1
  HANDLER = handler
  Text <- BellText
  PanicText <- TwoPanics
  MaxCalls = 3
  MaxNested = 2
  MaxEvents = 4
INVARIANTS
  ListsAreSequences
  TableIsSet
  AlgorithmsAgree
  RoundTrips
  WordsAreCounted
  InterruptsAreSafe
  ConsoleIsWhole
