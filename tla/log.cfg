SPECIFICATION LogSpec
CONSTANTS
  Limit = 4
  Keep = 2
  Lens = {1, 2}
  MaxLines = 9
INVARIANTS OnlyOldestLost SizeBounded
