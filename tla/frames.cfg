\* Frames of up to 13 bytes against a buffer of 12.
CONSTANTS
  HeaderSize = 2
  MaxPayload = 11
  Chunk = 3
  N = 3
SPECIFICATION Spec
INVARIANTS TypeOK DispatchedPrefix NothingWithheld OverflowMeansOversize
PROPERTY StreamConsumed
CHECK_DEADLOCK FALSE
