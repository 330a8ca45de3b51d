SPECIFICATION BoardSpec
CONSTANTS
  FifoSize = 4
  FullThreshold = 3
  QueueLen = 3
  LevelTriggered = TRUE
  MaxBytes = 9
  WpsDelay = 4
  HeldPolls = 2
  MaxRequests = 4
  Parts <- BodyParts
  MaxParts = 2
  BufferMax = 14
  Conns = {c1, c2}
  MaxAps = 3
  MaxScans = 3
INVARIANT NoLostWakeup
INVARIANT NeverReadsEmpty
INVARIANT SessionHasItsTime
INVARIANT ToldOnceUnlessTimedOut
INVARIANT MemoryAccounted
INVARIANT ToldWhatWasMeant
INVARIANT ScanFlagTrue
INVARIANT ListingComplete
PROPERTY FifoDrained
PROPERTY SessionEnds
PROPERTY ButtonRestoresAp
PROPERTY RequestEnds
PROPERTY ListingEnds
PROPERTY ScanEnds
CHECK_DEADLOCK FALSE
