SPECIFICATION PoolSpec
CONSTANTS
  MaxSlots = 2
  Peers = {p1, p2, p3}
  MaxFailed = 2
  MaxConns = 6
  None = None
INVARIANT NoStaleSlot
CHECK_DEADLOCK FALSE
