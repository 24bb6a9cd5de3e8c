SPECIFICATION FairSpec
CONSTANTS
  NumSlots = 2
  DataMs = 3
  AckMs = 2
  BufferSize = 1
  Tries = 2
  Timeout = 7
  QueueTimeout = 12
  OtherPeriod = 1
  MaxPackets = 2
  MaxFaults = 1
INVARIANT AckSlotBounded
PROPERTY PacketsSettle
