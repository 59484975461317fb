SPECIFICATION FairSpec
CONSTANTS
  MaxProc = 3
  Line <- Lines
  MaxPipe = 2
INVARIANTS
  PromptIsClean
PROPERTIES
  JobsFinish
CHECK_DEADLOCK FALSE
