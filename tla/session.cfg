CONSTANTS
  MaxProcs = 2
  MaxBatch = 2
  OutOfMemory = TRUE
SPECIFICATION FairSpec
INVARIANTS RefCountExact NotFreedEarly NeverClosedTwice ChildTracked ReasonTrue
PROPERTIES SessionFreed ChildReported
CHECK_DEADLOCK FALSE
