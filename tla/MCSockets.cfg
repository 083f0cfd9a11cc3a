CONSTANTS
  Classes <- StreamsAndDatagrams
  Sizes <- SmallSizes
  MaxArrivals = 2
  Timeouts <- SmallTimeouts
  Counts <- SmallCounts
  ElementSizes <- SmallElements
  Hosts = {"10.0.0.1"}
  Ports <- SmallPorts
  MaxWritten = 2
SPECIFICATION FairSpec
INVARIANTS
  ShortReadWaited
PROPERTIES
  ImplementsByteStream
  TimedReadsReturn
  WritesKeepDestination
