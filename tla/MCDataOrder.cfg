SPECIFICATION Spec
CONSTANTS
  NumSlots = 2
  DataMs = 2
  AckMs = 3
  BufferSize = 2
  Tries = 2
  Timeout = 7
  QueueTimeout = 12
  OtherPeriod = 2
  MaxPackets = 3
  MaxFaults = 1
INVARIANT OlderDataLast
