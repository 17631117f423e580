\* Times in half seconds.
SPECIFICATION KSpec
CONSTANTS
  Period = 2
  Late = 0
  HeartbeatIdle = 10
  SessionIdle = 30
  TransferIdle = 40
  Timeouts = {0}
  IdleTimeouts = {0}
  MaxAge = 43
  SocketTimeout = 10
  Latency = 0
INVARIANT ReaderKept
CHECK_DEADLOCK FALSE
