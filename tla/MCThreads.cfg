SPECIFICATION FairSpec
CONSTANTS
  idle_started = idle_started
  NULL = NULL
  initial_thread = main
  Thread = {main, p1, p2, p3}
  Sema = {idle_started, s1, s2}
  TIME_SLICE = 2
  MaxValue = 2
INVARIANTS
  ListsAreExact
  ExitedThreadIsReclaimed
  NoLostWakeup
PROPERTIES
  FreeIsSafe
  EveryReadyThreadRuns
CHECK_DEADLOCK TRUE
