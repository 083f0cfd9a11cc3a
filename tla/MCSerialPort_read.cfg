SPECIFICATION FairSpec
CONSTANTS
  Tenth = 2
  Bauds = {}
  Databits = {}
  Stopbits = {}
  Parities = {}
  Flows = {}
  Timeouts <- MCTimeouts
  Counts = {0, 1, 2}
  ElementSizes = {1, 2}
  MaxSend = 4
INVARIANTS
  SilenceMatchesTimeout
  AvailableNeverWaits
PROPERTIES
  ImplementsByteStream
  TimedReadReturns
