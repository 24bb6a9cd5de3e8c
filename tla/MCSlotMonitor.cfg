SPECIFICATION FairSpec
CONSTANTS
  Enough = 5
  Limit = 2
  Wrap = 4
  IdleTimeout = 2
  MaxSamples = 7
  Record = 12
INVARIANT MonitorTypeOK
PROPERTIES EvidenceNeeded DeadSlotRemoved
