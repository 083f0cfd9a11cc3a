SPECIFICATION Spec
CONSTANTS
  Tenth = 2
  Bauds = {9600, 460800}
  Databits = {7, 8}
  Stopbits = {1, 2}
  Parities = {"none", "even", "odd"}
  Flows = {"none", "hardware", "software"}
  Timeouts <- MCFewTimeouts
  Counts = {}
  ElementSizes = {}
  MaxSend = 0
INVARIANTS
  SettingsReported
  PortFollowsObject
