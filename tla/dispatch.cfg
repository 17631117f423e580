SPECIFICATION DispatchSpec
CONSTANTS
  Sessions = {s1, s2}
  NoSession = NoSession
  Empty = Empty
  Long = Long
  None = None
  Words = {a, b}
  MaxArgs = 2
  MaxProcs = 2
  MaxRelays = 2
  IdSpan = 8
  PortSpan = 8
SYMMETRY Symmetry
INVARIANTS DispatchTypeOK OneAnswer Truthful ArgsAsAsked
