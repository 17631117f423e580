SPECIFICATION FairSpec
CONSTANTS
  N = 2
  Chunks = 2
  FirstReq = 2
  MaxPings = 1
  MaxOutput = 2
INVARIANTS AnswerOwn PutCommitted GetWhole StreamKept
PROPERTY CommandEnds
CHECK_DEADLOCK FALSE
