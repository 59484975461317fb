SPECIFICATION FairSpec
CONSTANTS
  Child = {c1, c2}
  main = main
  idle = idle
  NPages = 6
  Block = {b1, b2}
  init_page_dir = init_page_dir
  NULL = NULL
  JUNK = JUNK
INVARIANTS SwitchReadsLiveMemory AddressSpaceIsOwn WaitReturnsAfterReclaim
PROPERTIES EndIsReported
CHECK_DEADLOCK FALSE
