CONSTANTS
  s1 = s1
  s2 = s2
  p1 = p1
  p2 = p2
  Sessions = {s1, s2}
  Paths = {p1, p2}
  PathsOf <- Disjoint
  MaxUploads = 2
  MaxSize = 2
  Chunk = 2
  Overwrites = {TRUE, FALSE}
  Faults = {"open", "write", "close", "rename", "crash"}
SPECIFICATION Spec
CHECK_DEADLOCK FALSE
INVARIANTS TypeOK CommittedWhole NothingLeaked
PROPERTY Atomic
