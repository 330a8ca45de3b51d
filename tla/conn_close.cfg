SPECIFICATION Spec
CONSTANTS
  MaxPost = 2
  MaxSend = 2
  MaxBacklog = 3
  SdkDepth = 1
  MayRunShort = FALSE
  SilentChunks = FALSE
  Pipelined = {}
  Requests <- PageRequests
  MaxReq = 2
  MaxCalls = 3
INVARIANT MarkedGetsClosed
CHECK_DEADLOCK FALSE
