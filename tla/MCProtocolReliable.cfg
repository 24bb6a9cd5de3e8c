CONSTANTS
  s1 = s1
  s2 = s2
  s3 = s3
  NoMac = NoMac
  Node <- TwoStations
  Station <- TwoStations
  Reserved <- MCReserved
  NumTimeslots = 2
  NumFrequencies = 1
  RequestId <- MCRequestId
  Announcement <- MCAnnouncement
  RadioMessage <- MCRadioMessage
  Offer <- MCOffer
  MaxProposals = 2
  MaxId = 5
  MaxBus = 1
  MaxHeard = 2
  Tries = 1
  Reliable = TRUE
  Prompt = TRUE
  MaxQueue = 2
SYMMETRY TwoSymmetry
SPECIFICATION ProtocolSpec
INVARIANTS
  AllocatedInTable
  TableAllocated
  SenderHasListener
  ListenerHasSender
CHECK_DEADLOCK FALSE
