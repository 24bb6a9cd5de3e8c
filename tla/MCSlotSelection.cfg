CONSTANTS
  self = self
  s1 = s1
  s2 = s2
  NoMac = NoMac
  Node <- MCNode
  Station <- MCStation
  Reserved <- Reserved3
  NumTimeslots = 3
  NumFrequencies = 2
  RequestId <- MCRequestId
  Offer <- Offer3
  Announcement <- MCAnnouncement
  RadioMessage <- MCRadioMessage
  MaxProposals = 2
  MaxId = 2
  MaxBus = 1
  MaxHeard = 1
SYMMETRY PeerSymmetry
SPECIFICATION Spec
INVARIANTS
  TypeOK
  OneTransmission
  OneReception
  BroadcastAlone
  OffersTracked
  RemovalsTracked
PROPERTY ImplementsRadioSchedule
CHECK_DEADLOCK FALSE
