SPECIFICATION HttpdSpec
CONSTANTS
  MaxSlots = 2
  Peers = {p1, p2, p3}
  MaxFailed = 3
  MaxConns = 8
  None = None
  MaxPost = 2
  MaxSend = 2
  MaxBacklog = 3
  SdkDepth = 1
  MayRunShort = TRUE
  SilentChunks = TRUE
  Pipelined <- PageRequests
  Requests <- PageRequests
  MaxReq = 3
  MaxCalls = 3
INVARIANT SlotAccounting
INVARIANT ServedFromOwnSlot
INVARIANT OverflowNeedsAbort
INVARIANT ResourcesReleased
INVARIANT PostBufferInBounds
INVARIANT BacklogAccounted
INVARIANT BacklogHasASentCb
INVARIANT ResponsesInOrder
PROPERTY SendsInOrder
CHECK_DEADLOCK FALSE
