SPECIFICATION Spec
CONSTANTS
  Kinds <- AllKinds
  Bauds = {9600, 460800}
  Sizes = {7}
  Stopbits = {2}
  Parities = {"even"}
  Flows = {"hardware"}
  Tenths <- MCTenths
  Seconds <- MCSeconds
  Needs = {2}
  MaxCalls = 3
  MaxQueue = 1
INVARIANTS
  TakenSettingsStay
  EmptyReadWaited
PROPERTIES
  OneLineChanges
  TimedReadsReturn
