SPECIFICATION FairSpec
CONSTANTS
  MaxPost = 2
  MaxSend = 2
  MaxBacklog = 3
  SdkDepth = 1
  MayRunShort = TRUE
  SilentChunks = FALSE
  Pipelined = {}
  Requests <- BrowserRequests
  MaxReq = 2
  MaxCalls = 3
INVARIANT BodyEatenOnce
INVARIANT OneAnswerPerRequest
PROPERTY EveryRequestAnswered
CHECK_DEADLOCK FALSE
