SPECIFICATION Spec
CONSTANTS
  Kinds = {"gpib"}
  MaxMade = 3
  MaxWrites = 2
  Sizes = {0, 1, 3}
  RecvSizes = {0, 1, 2, 3}
  DefaultChunk = 4
  ScanSize = 3
  Word = 64
  MaxReceived = 7
  GpibTimeouts <- MCGpibTimeouts
  Servers = {1, 2}
  Bits = {0}
  LastRegister = 1
  Masks <- MCMasks
  ModbusTimeouts <- MCTimeouts
  MaxLate = 1
  Addresses = {16, 17}
  HostOrder = "L"
INVARIANT
  CountIsLength
