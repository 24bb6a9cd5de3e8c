CONSTANTS
  s1 = s1
  s2 = s2
  Node <- Stations
  Tries = 2
  ListSize = 1
  MaxIndex = 2
  MaxCopies = 5
SYMMETRY StationSymmetry
SPECIFICATION Spec
INVARIANTS
  TransferTypeOK
  BoundedTransmissions
  GivenUpAfterAllTries
  AcknowledgedWasReceived
  OneCopyQueued
CHECK_DEADLOCK FALSE
