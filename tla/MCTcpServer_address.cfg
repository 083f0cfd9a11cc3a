SPECIFICATION Spec
CONSTANTS
  c1 = c1
  c2 = c2
  Conn = {c1, c2}
  NoConn = NoConn
  Second = 2
  Timeouts <- MCTimeouts
  Counts = {1}
  ElementSizes = {1}
  FlushChunk = 2
  MaxSend = 1
  MaxWritten = 0
INVARIANT ClientAddressIsClient
