SPECIFICATION FairSpec
CONSTANTS
  c1 = c1
  c2 = c2
  Conn = {c1, c2}
  NoConn = NoConn
  Second = 2
  Timeouts <- MCTimeouts
  Counts = {1}
  ElementSizes = {1, 2}
  FlushChunk = 1
  MaxSend = 2
  MaxWritten = 1
INVARIANTS
  NoLiveClientAbandoned
  ReplyReachesRequester
  TimeoutExact
  AvailableNeverWaits
PROPERTIES
  ImplementsByteStream
  FlushDrains
  TimedReadReturns
  EofEndsBlockingRead
