CONSTANTS
  s1 = s1
  s2 = s2
  s3 = s3
  NoMac = NoMac
  Node <- ThreeStations
  Station <- ThreeStations
  Reserved <- MCReserved
  NumTimeslots = 1
  NumFrequencies = 1
  RequestId <- MCRequestId
  Announcement <- MCAnnouncement
  RadioMessage <- MCRadioMessage
  Offer <- MCOffer
  MaxProposals = 2
  MaxId = 3
  MaxBus = 1
  MaxHeard = 2
  Tries = 1
  Reliable = TRUE
  Prompt = TRUE
  MaxQueue = 1
SYMMETRY ThreeSymmetry
SPECIFICATION ProtocolSpec
INVARIANTS
  SenderHasListener
  ListenerHasSender
CHECK_DEADLOCK FALSE
