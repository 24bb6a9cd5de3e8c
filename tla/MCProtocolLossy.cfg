CONSTANTS
  s1 = s1
  s2 = s2
  s3 = s3
  NoMac = NoMac
  Node <- TwoStations
  Station <- TwoStations
  Reserved <- MCReserved
  NumTimeslots = 2
  NumFrequencies = 1
  RequestId <- MCRequestId
  Announcement <- MCAnnouncement
  RadioMessage <- MCRadioMessage
  Offer <- MCOffer
  MaxProposals = 2
  MaxId = 3
  MaxBus = 1
  MaxHeard = 2
  Tries = 2
  Reliable = FALSE
  Prompt = FALSE
  MaxQueue = 1
SPECIFICATION ProtocolFairSpec
INVARIANTS
  ProtocolTypeOK
  AnswersExpected
  SelectionConfirmed
  LockHeld
PROPERTIES
  ImplementsSlotSelection
  LockReleased
CHECK_DEADLOCK FALSE
