SPECIFICATION StreamsSpec
CONSTANTS
  Letters = {"a", "b"}
  MaxLen = 6
  Chunk = 3
  MaxToken = 2
  MaxParts = 2
  PageLen = 2
  SectorLen = 4
  PostBuf = 3
  HeaderLen = 2
  FwSize = 6
  Fw1Pos = 4
  Fw2Pos = 12
  SmallLen = 1
  MaxPayload = 2
  MaxFrames = 2
  HeadLen = 8
  Sockets = {"s1", "s2", "s3"}
  BuffLen = 16
  MaxPiece = 4
  MaxCalls = 3
  FileNames <- StreamsFileNames
  Paths <- StreamsPaths
  Align = 4
  FileHeader = 4
  SinkSize = 2
  ReadSize = 3
  MaxSymbols = 3
  MaxExpand = 2
  ByteLen = 3
  InputSize = 2
  MaxTokens = 3
  MaxHead = 16
  MaxHeaders = 2
  MaxHeads = 2
  MaxArgs = 2
  MaxValue = 2
  MaxName = 2
  MaxLabels = 2
  MaxQuestions = 2
INVARIANT PortalRedirects
CHECK_DEADLOCK FALSE
