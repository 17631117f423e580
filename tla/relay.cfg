CONSTANTS
  Sessions = {s1, s2}
  MaxRelays = 2
  MaxConns = 2
  MaxPending = 2
  MaxRead = 1
SPECIFICATION FairSpec
CHECK_DEADLOCK FALSE
INVARIANTS TypeOK PendingExact ConnTracked ConnFreedLast OwnerAlive
PROPERTY TornDown
