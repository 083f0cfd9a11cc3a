SPECIFICATION FairSpec
CONSTANTS
  s1 = s1
  s2 = s2
  Sender = {s1, s2}
  Sizes = {0, 1, 3}
  Kilobyte = 2
  Second = 2
  Timeouts <- MCTimeouts
  Counts = {2}
  ElementSizes = {1, 2}
  MaxDatagrams = 3
  g1 = g1
  g2 = g2
  Group = {g1, g2}
INVARIANTS
  LeftoverIsTail
  MembershipAccounted
PROPERTIES
  ImplementsByteStream
  FlushDrains
  TimedReadReturns
