CONSTANTS
  s1 = s1
  s2 = s2
  p1 = p1
  p2 = p2
  Sessions = {s1, s2}
  Paths = {p1}
  PathsOf <- Shared
  MaxUploads = 2
  MaxSize = 2
  Chunk = 1
  Overwrites = {TRUE}
  Faults = {"crash"}
SPECIFICATION Spec
CHECK_DEADLOCK FALSE
INVARIANT FileKept
