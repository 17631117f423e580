\* An unasked frame explains a closed session from age 5 on, of the limit of 9.
SPECIFICATION KSpec
CONSTANTS
  Period = 1
  Late = 1
  HeartbeatIdle = 2
  SessionIdle = 9
  TransferIdle = 4
  Timeouts = {0, 6}
  IdleTimeouts = {0, 2}
  MaxAge = 12
  SocketTimeout = 3
  Latency = 1
INVARIANTS SilenceBounded WorkBounded SessionKept
CHECK_DEADLOCK FALSE
