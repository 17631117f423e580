CONSTANTS
  MaxQueue = 11
  HeaderSize = 1
  TextSize = 1
  ChunkSize = 2
  Sizes = {0, 3, 8}
  MaxRequests = 2
  Faults = {"open", "read", "memory"}
SPECIFICATION Spec
CHECK_DEADLOCK FALSE
INVARIANTS TypeOK PendingExact EndMeansWhole OneAnswer
