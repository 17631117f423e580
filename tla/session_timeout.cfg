CONSTANTS
  MaxProcs = 1
  MaxBatch = 1
  OutOfMemory = FALSE
SPECIFICATION FairSpec
PROPERTIES TimeoutEnforced
CHECK_DEADLOCK FALSE
